---------------------------- MODULE CoilBookProofs ----------------------------
(* Proofs that the kg reserved on a coil are what the open jobs hold, and    *)
(* that the kg on hand are what the book rebuilds, except on the coils the   *)
(* history variables name.  The sums over jobs are split into the share of   *)
(* the job a step is about and the rest, which the step leaves alone.        *)
EXTENDS CoilProductionProofs

\* What each job holds, has drawn and has cleared of a coil.
Holds(j, c) == IF status[j] \in OpenStatuses THEN opening[j][c] ELSE 0
Holding(c) == [j \in Jobs |-> Holds(j, c)]
Drawn(c) == [j \in Jobs |-> drawn[j][c]]
Tails(c) == [j \in Jobs |-> tail[j][c]]
SplitFrom(c) == [d \in Coils |-> IF parent[d] = c THEN received[d] ELSE 0]

\* A coil that is not on the register has nothing on any account, and no coil
\* was split from it.
Unregistered(d) ==
    /\ remaining[d] = 0 /\ ancillary[d] = 0 /\ confirmed[d] = 0
    /\ finishLogged[d] = FALSE
    /\ \A j \in Jobs : opening[j][d] = 0 /\ drawn[j][d] = 0 /\ tail[j][d] = 0
    /\ \A e \in Coils : parent[e] # d

\* Roll finishes are netted only where they were logged, and a job not yet
\* registered has no rows.
RegisterOK ==
    /\ \A d \in Coils : received[d] = 0 => Unregistered(d)
    /\ \A c \in Coils : ~finishLogged[c] => finishNet[c] = 0
    /\ \A j \in Jobs : status[j] = "none" => Rows(j) = {}

\* Where the movements cover the rows the book is rebuilt from them alone, so
\* that MovementsCover is part of what is inductive.
BookInv == IInv /\ RegisterOK /\ ReservedExact /\ BookExact /\ MovementsCover

-----------------------------------------------------------------------------
(* The sums.                                                                 *)

\* A sum over some jobs is a sum over all of them, the others having nothing.
LEMMA SumOverAll ==
  ASSUME NEW S, IsFiniteSet(S), NEW T, T \subseteq S, NEW f, DOMAIN f = T, NEW g,
         \A x \in T : f[x] = g[x] /\ g[x] \in Int, \A x \in S \ T : g[x] = 0
  PROVE  SumFunction(f) = SumFunctionOnSet(g, S)
<1>1. SumFunction(f) = SumFunctionOnSet(f, T)  BY DEF SumFunction
<1>2. IsFiniteSet(T)  BY FS_Subset
<1>3. SumFunctionOnSet(f, T) = SumFunctionOnSet(g, T)  BY <1>2, SumEqual
<1>4. \A x \in S : g[x] \in Int  OBVIOUS
<1>5. SumFunctionOnSet(g, T) = SumFunctionOnSet(g, S)  BY <1>4, SumSupport
<1> QED  BY <1>1, <1>3, <1>5

LEMMA HeldAsSum ==
  JobType => \A c \in Coils : OpenKg(c) = SumFunctionOnSet(Holding(c), Jobs)
<1> SUFFICES ASSUME JobType, NEW c \in Coils
             PROVE  OpenKg(c) = SumFunctionOnSet(Holding(c), Jobs)
  OBVIOUS
<1> DEFINE T == {i \in Jobs : status[i] \in OpenStatuses}
           f == [j \in T |-> opening[j][c]]
           g == Holding(c)
<1>1. \A j \in T : f[j] = g[j] /\ g[j] \in Int  BY DEF Holding, Holds, JobType
<1>2. \A j \in Jobs \ T : g[j] = 0  BY DEF Holding, Holds
<1>3. OpenKg(c) = SumFunction(f)  BY DEF OpenKg
<1>4. T \subseteq Jobs /\ DOMAIN f = T  OBVIOUS
<1> HIDE DEF T, f, g
<1>5. SumFunction(f) = SumFunctionOnSet(g, Jobs)
  BY <1>1, <1>2, <1>4, SumOverAll, CoilAssumption
<1> QED  BY <1>3, <1>5 DEF g

LEMMA HeldAsSumNext ==
  (JobType => \A c \in Coils : OpenKg(c) = SumFunctionOnSet(Holding(c), Jobs))'
  BY HeldAsSum, PTL

LEMMA SplitAsSum ==
  CoilType => \A c \in Coils : SplitOut(c) = SumFunctionOnSet(SplitFrom(c), Coils)
<1> SUFFICES ASSUME CoilType, NEW c \in Coils
             PROVE  SplitOut(c) = SumFunctionOnSet(SplitFrom(c), Coils)
  OBVIOUS
<1> DEFINE T == {e \in Coils : parent[e] = c}
           f == [d \in T |-> received[d]]
           g == SplitFrom(c)
<1>1. \A d \in T : f[d] = g[d] /\ g[d] \in Int  BY DEF SplitFrom, CoilType
<1>2. \A d \in Coils \ T : g[d] = 0  BY DEF SplitFrom
<1>3. SplitOut(c) = SumFunction(f)  BY DEF SplitOut
<1>4. T \subseteq Coils /\ DOMAIN f = T  OBVIOUS
<1> HIDE DEF T, f, g
<1>5. SumFunction(f) = SumFunctionOnSet(g, Coils)
  BY <1>1, <1>2, <1>4, SumOverAll, CoilAssumption
<1> QED  BY <1>3, <1>5 DEF g

LEMMA SplitAsSumNext ==
  (CoilType => \A c \in Coils : SplitOut(c) = SumFunctionOnSet(SplitFrom(c), Coils))'
  BY SplitAsSum, PTL

\* Where the movements cover the rows, the jobs have consumed what was moved.
LEMMA ConsumedIsDrawn ==
  JobType /\ LedgerType =>
     \A c \in Coils : Covered(c) =>
        /\ JobsConsumed(c) = SumFunctionOnSet(Drawn(c), Jobs) + confirmed[c]
        /\ SumFunctionOnSet(Drawn(c), Jobs) \in Nat
        /\ \A j \in Jobs : drawn[j][c] \in Nat
<1> SUFFICES ASSUME JobType, LedgerType, NEW c \in Coils, Covered(c)
             PROVE  /\ JobsConsumed(c) = SumFunctionOnSet(Drawn(c), Jobs) + confirmed[c]
                    /\ SumFunctionOnSet(Drawn(c), Jobs) \in Nat
                    /\ \A j \in Jobs : drawn[j][c] \in Nat
  OBVIOUS
<1> DEFINE T == {i \in Jobs : status[i] = "Completed"}
           f == [j \in T |-> consumed[j][c]]
           h == [j \in Jobs |-> IF status[j] = "Completed" THEN consumed[j][c] ELSE 0]
           g == Drawn(c)
<1>1. \A j \in Jobs : h[j] \in Nat /\ g[j] \in Nat /\ h[j] <= g[j] /\ g[j] = drawn[j][c]
  BY DEF JobType, Covered, Drawn
<1>2. \A j \in T : f[j] = h[j]  OBVIOUS
<1>3. \A j \in Jobs \ T : h[j] = 0  OBVIOUS
<1>4. HolderKg(c) = SumFunction(f)  BY DEF HolderKg
<1>5. T \subseteq Jobs /\ DOMAIN f = T  OBVIOUS
<1>6. MovementKg(c) = SumFunctionOnSet(g, Jobs) + confirmed[c]
  BY DEF MovementKg, Drawn, SumFunction
<1> HIDE DEF T, f, g, h
<1>7. HolderKg(c) = SumFunctionOnSet(h, Jobs)
  <2>1. \A j \in T : f[j] = h[j] /\ h[j] \in Int  BY <1>1, <1>2, <1>5
  <2>2. SumFunction(f) = SumFunctionOnSet(h, Jobs)
    BY <2>1, <1>3, <1>5, SumOverAll, CoilAssumption
  <2> QED  BY <1>4, <2>2
<1>8. SumFunctionOnSet(h, Jobs) <= SumFunctionOnSet(g, Jobs)
  <2>1. \A j \in Jobs : h[j] \in Int /\ g[j] \in Int /\ h[j] <= g[j]  BY <1>1
  <2> QED  BY <2>1, SumBound, CoilAssumption
<1>9. SumFunctionOnSet(h, Jobs) \in Nat /\ SumFunctionOnSet(g, Jobs) \in Nat
  BY <1>1, SumNat, CoilAssumption
<1>10. confirmed[c] \in Nat  BY DEF LedgerType
<1>11. JobsConsumed(c) = MovementKg(c)
  BY <1>6, <1>7, <1>8, <1>9, <1>10 DEF JobsConsumed, Clamp
<1> QED  BY <1>1, <1>6, <1>9, <1>11 DEF g

LEMMA ConsumedIsDrawnNext ==
  (JobType /\ LedgerType =>
     \A c \in Coils : Covered(c) =>
        /\ JobsConsumed(c) = SumFunctionOnSet(Drawn(c), Jobs) + confirmed[c]
        /\ SumFunctionOnSet(Drawn(c), Jobs) \in Nat
        /\ \A j \in Jobs : drawn[j][c] \in Nat)'
  BY ConsumedIsDrawn, PTL

\* The roll finishes the book counts.
LEMMA TailsAsSum ==
  JobType => \A c \in Coils :
     ~finishLogged[c] => /\ FinishTail(c) = SumFunctionOnSet(Tails(c), Jobs)
                         /\ SumFunctionOnSet(Tails(c), Jobs) \in Nat
<1> SUFFICES ASSUME JobType, NEW c \in Coils, ~finishLogged[c]
             PROVE  /\ FinishTail(c) = SumFunctionOnSet(Tails(c), Jobs)
                    /\ SumFunctionOnSet(Tails(c), Jobs) \in Nat
  OBVIOUS
<1>1. FinishTail(c) = SumFunctionOnSet(Tails(c), Jobs)
  BY DEF FinishTail, SumFunction, Tails
<1>2. \A j \in Jobs : Tails(c)[j] \in Nat  BY DEF JobType, Tails
<1> QED  BY <1>1, <1>2, SumNat, CoilAssumption

LEMMA TailsAsSumNext ==
  (JobType => \A c \in Coils :
     ~finishLogged[c] => /\ FinishTail(c) = SumFunctionOnSet(Tails(c), Jobs)
                         /\ SumFunctionOnSet(Tails(c), Jobs) \in Nat)'
  BY TailsAsSum, PTL

-----------------------------------------------------------------------------
(* The reservation of a coil.                                                *)

\* A step about one job changes what open jobs hold by what that job holds.
LEMMA HeldChange ==
  ASSUME JobType, JobType', NEW j \in Jobs, NEW c \in Coils,
         \A i \in Jobs \ {j} : Holds(i, c)' = Holds(i, c)
  PROVE  /\ OpenKg(c)' = OpenKg(c) - Holds(j, c) + Holds(j, c)'
         /\ OpenKg(c) \in Nat /\ OpenKg(c)' \in Nat
         /\ Holds(j, c) \in Nat /\ Holds(j, c)' \in Nat /\ Holds(j, c) <= OpenKg(c)
<1>1. PICK f, g : f = Holding(c) /\ g = Holding(c)'
  OBVIOUS
<1>2. \A i \in Jobs : f[i] = Holds(i, c) /\ g[i] = Holds(i, c)'
  BY <1>1 DEF Holding
<1>3. \A i \in Jobs : f[i] \in Nat /\ g[i] \in Nat
  <2>1. \A i \in Jobs : Holds(i, c) \in Nat  BY DEF Holds, JobType
  <2>2. \A i \in Jobs : Holds(i, c)' \in Nat  BY DEF Holds, JobType
  <2> QED  BY <1>2, <2>1, <2>2
<1>4. OpenKg(c) = SumFunctionOnSet(f, Jobs) /\ OpenKg(c)' = SumFunctionOnSet(g, Jobs)
  <2>1. OpenKg(c) = SumFunctionOnSet(f, Jobs)  BY <1>1, HeldAsSum
  <2>2. OpenKg(c)' = SumFunctionOnSet(Holding(c)', Jobs)  BY HeldAsSumNext
  <2> QED  BY <1>1, <2>1, <2>2
<1>5. SumFunctionOnSet(g, Jobs) = SumFunctionOnSet(f, Jobs) - f[j] + g[j]
  <2>1. \A i \in Jobs : f[i] \in Int /\ g[i] \in Int  BY <1>3
  <2>2. \A i \in Jobs \ {j} : f[i] = g[i]  BY <1>2
  <2> QED  BY <2>1, <2>2, SumChange, CoilAssumption
<1>6. SumFunctionOnSet(f, Jobs) \in Nat /\ SumFunctionOnSet(g, Jobs) \in Nat
  BY <1>3, SumNat, CoilAssumption
<1>7. f[j] <= SumFunctionOnSet(f, Jobs)
  <2>1. SumFunctionOnSet(f, Jobs) = f[j] + SumFunctionOnSet(f, Jobs \ {j})
    <3>1. \A i \in Jobs : f[i] \in Int  BY <1>3
    <3> QED  BY <3>1, SumRemove, CoilAssumption
  <2>2. SumFunctionOnSet(f, Jobs \ {j}) \in Nat
    <3>1. IsFiniteSet(Jobs \ {j})  BY CoilAssumption, FS_Subset
    <3> QED  BY <1>3, <3>1, SumNat
  <2> QED  BY <1>3, <2>1, <2>2
<1> QED  BY <1>2, <1>3, <1>4, <1>5, <1>6, <1>7

\* Nothing held on a coil changes.
LEMMA HeldSame ==
  ASSUME JobType, JobType', NEW c \in Coils, \A i \in Jobs : Holds(i, c)' = Holds(i, c)
  PROVE  OpenKg(c)' = OpenKg(c)
<1>1. Holding(c)' = Holding(c)  BY DEF Holding
<1> QED  BY <1>1, HeldAsSum, HeldAsSumNext

\* A recalculation leaves what the handler left, or what open jobs hold.
LEMMA RecalculatedGives ==
  ASSUME NEW held, NEW touched, Recalculated(held, touched), NEW c \in Coils
  PROVE  /\ reserved'[c] = held[c] \/ reserved'[c] = OpenKg(c)'
         /\ c \notin touched => reserved'[c] = held[c]
  BY DEF Recalculated

\* Only the coils a step names may come off the rows.
KeepsReserved(cs) ==
    \A c \in Coils \ cs : reserved[c] = OpenKg(c) => reserved'[c] = OpenKg(c)'

LEMMA ExactKept ==
  ASSUME ReservedExact, NEW cs, KeepsReserved(cs),
         MayLoosen(cs) \/ (cs = {} /\ loose' = loose)
  PROVE  ReservedExact'
<1>1. ASSUME NEW c \in Coils, c \notin loose' PROVE reserved'[c] = OpenKg(c)'
  <2>1. CASE MayLoosen(cs)
    <3>1. loose' = {d \in loose \cup cs : reserved'[d] # OpenKg(d)'}  BY <2>1 DEF MayLoosen
    <3>2. CASE c \in loose \cup cs  BY <1>1, <3>1, <3>2
    <3>3. CASE c \notin loose \cup cs  BY <3>3 DEF ReservedExact, KeepsReserved
    <3> QED  BY <3>2, <3>3
  <2>2. CASE cs = {} /\ loose' = loose
    BY <1>1, <2>2 DEF ReservedExact, KeepsReserved
  <2> QED  BY <2>1, <2>2
<1> QED  BY <1>1 DEF ReservedExact

\* Handlers that change neither rows nor reservations.
LEMMA SameHolding ==
  ASSUME JobType, JobType', UNCHANGED <<opening, status, reserved>>
  PROVE  KeepsReserved({})
<1>1. ASSUME NEW c \in Coils PROVE OpenKg(c)' = OpenKg(c)
  BY HeldSame DEF Holds
<1> QED  BY <1>1 DEF KeepsReserved

LEMMA SaveAllocationsReserved ==
  ASSUME IInv, IInv', NEW j \in Jobs, NEW want \in [Coils -> 0..MaxKg],
         SaveAllocations(j, want)
  PROVE  KeepsReserved({})
<1> DEFINE due == Rows(j) \cup {c \in Coils : want[c] > 0}
           held == [c \in Coils |->
                      Least(Clamp(reserved[c] + want[c] - opening[j][c]), remaining[c])]
<1>1. CoilType /\ JobType /\ JobType' /\ ReservedFits  BY DEF IInv, TypeOK
<1>2. /\ status[j] = "Planned" /\ status' = status
      /\ opening' = [opening EXCEPT ![j] = want]
      /\ \A c \in due : want[c] <= remaining[c] - (reserved[c] - opening[j][c])
      /\ \E done : Recalculated(held, done)
  BY Zenon DEF SaveAllocations
<1>3. \A c \in Coils : want[c] \in Nat  BY CoilAssumption
<1>4. ASSUME NEW c \in Coils, reserved[c] = OpenKg(c) PROVE reserved'[c] = OpenKg(c)'
  <2>1. \A i \in Jobs \ {j} : Holds(i, c)' = Holds(i, c)
    BY <1>1, <1>2 DEF JobType, Holds
  <2>2. Holds(j, c) = opening[j][c] /\ Holds(j, c)' = want[c]
    BY <1>1, <1>2 DEF JobType, Holds, OpenStatuses
  <2>3. /\ OpenKg(c)' = OpenKg(c) - opening[j][c] + want[c]
        /\ OpenKg(c) \in Nat /\ opening[j][c] \in Nat /\ opening[j][c] <= OpenKg(c)
    BY <1>1, <2>1, <2>2, HeldChange
  <2>4. reserved[c] + want[c] - opening[j][c] <= remaining[c]
    <3>1. CASE c \in due  BY <1>1, <1>2, <1>3, <2>3, <3>1 DEF CoilType
    <3>2. CASE c \notin due
      <4>1. want[c] = 0 /\ opening[j][c] = 0  BY <1>3, <2>3, <3>2 DEF Rows
      <4> QED  BY <1>1, <4>1 DEF CoilType, ReservedFits
    <3> QED  BY <3>1, <3>2
  <2>5. held[c] = OpenKg(c)'
    BY <1>1, <1>3, <1>4, <2>3, <2>4 DEF Least, Clamp, CoilType
  <2> HIDE DEF held
  <2> QED  BY <1>2, <2>5, RecalculatedGives
<1> QED  BY <1>4 DEF KeepsReserved

LEMMA AppendCoilReserved ==
  ASSUME IInv, IInv', NEW j \in Jobs, NEW c \in Coils, NEW kg \in Kg, AppendCoil(j, c, kg)
  PROVE  KeepsReserved({})
<1>1. CoilType /\ JobType /\ JobType'  BY DEF IInv, TypeOK
<1>2. /\ status[j] = "Running" /\ status' = status /\ c \notin Rows(j)
      /\ opening' = [opening EXCEPT ![j][c] = kg]
      /\ reserved' = [reserved EXCEPT ![c] = @ + kg]
  BY Zenon DEF AppendCoil
<1>3. ASSUME NEW d \in Coils, reserved[d] = OpenKg(d) PROVE reserved'[d] = OpenKg(d)'
  <2>1. \A i \in Jobs \ {j} : Holds(i, d)' = Holds(i, d)
    BY <1>1, <1>2 DEF JobType, Holds
  <2>2. /\ OpenKg(d)' = OpenKg(d) - Holds(j, d) + Holds(j, d)'
        /\ OpenKg(d) \in Nat /\ Holds(j, d) \in Nat /\ Holds(j, d)' \in Nat
    BY <1>1, <2>1, HeldChange
  <2>3. Holds(j, d) = opening[j][d] /\ Holds(j, d)' = IF d = c THEN kg ELSE opening[j][d]
    BY <1>1, <1>2 DEF JobType, Holds, OpenStatuses
  <2>4. d = c => opening[j][d] = 0
    BY <1>1, <1>2 DEF JobType, Rows
  <2> QED  BY <1>1, <1>2, <1>3, <2>2, <2>3, <2>4 DEF CoilType
<1> QED  BY <1>3 DEF KeepsReserved

LEMMA RunLogReserved ==
  ASSUME IInv, IInv', NEW j \in Jobs, NEW c \in Coils, NEW d \in Coils, RunLog(j, c, d)
  PROVE  KeepsReserved({})
<1>1. CoilType /\ JobType /\ JobType'  BY DEF IInv, TypeOK
<1>2. status[j] = "Running" /\ status' = status /\ c \in Rows(j)
  BY Zenon DEF RunLog
<1>3. CASE UNCHANGED <<opening, consumed, reserved>>
  BY <1>1, <1>2, <1>3, SameHolding
<1>4. CASE /\ d \notin Rows(j)
           /\ opening' = [opening EXCEPT ![j][c] = 0, ![j][d] = opening[j][c]]
           /\ reserved' = [reserved EXCEPT ![c] = @ - opening[j][c], ![d] = @ + opening[j][c]]
  <2>1. c # d /\ opening[j][c] \in Nat /\ opening[j][d] = 0
    BY <1>1, <1>2, <1>4 DEF JobType, Rows
  <2>2. ASSUME NEW e \in Coils, reserved[e] = OpenKg(e) PROVE reserved'[e] = OpenKg(e)'
    <3>1. \A i \in Jobs \ {j} : Holds(i, e)' = Holds(i, e)
      BY <1>1, <1>2, <1>4 DEF JobType, Holds
    <3>2. /\ OpenKg(e)' = OpenKg(e) - Holds(j, e) + Holds(j, e)'
          /\ OpenKg(e) \in Nat /\ Holds(j, e) \in Nat /\ Holds(j, e)' \in Nat
      BY <1>1, <3>1, HeldChange
    <3>3. /\ Holds(j, e) = opening[j][e]
          /\ Holds(j, e)' = IF e = d THEN opening[j][c] ELSE IF e = c THEN 0 ELSE opening[j][e]
      BY <1>1, <1>2, <1>4, <2>1 DEF JobType, Holds, OpenStatuses
    <3> QED  BY <1>1, <1>4, <2>1, <2>2, <3>2, <3>3 DEF CoilType
  <2> QED  BY <2>2 DEF KeepsReserved
<1> QED  BY <1>3, <1>4, Zenon DEF RunLog

\* A patched status, or a start from one, may open a job with rows or close it;
\* the other steps that only set the status leave open jobs open, or have no rows.
LEMMA StatusReserved ==
  ASSUME IInv, IInv', NEW j \in Jobs, NEW next \in {"Planned"} \cup Texts,
         Register(j) \/ Start(j) \/ ReturnToPlanned(j) \/ PatchStatus(j, next),
         RegisterOK, ReservedExact
  PROVE  ReservedExact'
<1>1. JobType /\ JobType'  BY DEF IInv, TypeOK
<1>2. UNCHANGED <<opening, reserved>> /\ \E st : status' = [status EXCEPT ![j] = st]
  BY Zenon DEF Register, Start, ReturnToPlanned, PatchStatus, rows, stock
<1>3. \A i \in Jobs \ {j} : status'[i] = status[i]  BY <1>1, <1>2 DEF JobType
<1>4. ASSUME NEW c \in Coils, Holds(j, c)' = Holds(j, c) PROVE OpenKg(c)' = OpenKg(c)
  BY <1>1, <1>2, <1>3, <1>4, HeldSame DEF Holds
<1>5. ASSUME MayLoosen(Rows(j)) PROVE ReservedExact'
  <2>1. ASSUME NEW c \in Coils, c \notin Rows(j) PROVE Holds(j, c)' = Holds(j, c)
    BY <1>1, <1>2, <2>1 DEF JobType, Holds, Rows
  <2>2. KeepsReserved(Rows(j))  BY <1>2, <1>4, <2>1 DEF KeepsReserved
  <2> QED  BY <1>5, <2>2, ExactKept
<1>6. ASSUME \A c \in Coils : Holds(j, c)' = Holds(j, c), MayLoosen({}) \/ loose' = loose
      PROVE  ReservedExact'
  <2>1. KeepsReserved({})  BY <1>2, <1>4, <1>6 DEF KeepsReserved
  <2> QED  BY <1>6, <2>1, ExactKept
<1>7. CASE PatchStatus(j, next)  BY <1>5, <1>7 DEF PatchStatus
<1>8. CASE Start(j)
  <2>1. CASE status[j] = "other"  BY <1>5, <1>8, <2>1 DEF Start
  <2>2. CASE status[j] # "other"
    <3>1. status[j] \in OpenStatuses /\ status'[j] \in OpenStatuses /\ MayLoosen({})
      BY <1>1, <1>8, <2>2 DEF JobType, Start, OpenStatuses
    <3>2. \A c \in Coils : Holds(j, c)' = Holds(j, c)  BY <1>2, <3>1 DEF Holds
    <3> QED  BY <1>6, <3>1, <3>2
  <2> QED  BY <2>1, <2>2
<1>9. CASE ReturnToPlanned(j)
  <2>1. status[j] \in OpenStatuses /\ status'[j] \in OpenStatuses /\ loose' = loose
    BY <1>1, <1>9 DEF JobType, ReturnToPlanned, OpenStatuses
  <2>2. \A c \in Coils : Holds(j, c)' = Holds(j, c)  BY <1>2, <2>1 DEF Holds
  <2> QED  BY <1>6, <2>1, <2>2
<1>10. CASE Register(j)
  <2>1. status[j] = "none" /\ loose' = loose  BY <1>10 DEF Register
  <2>2. \A c \in Coils : opening[j][c] = 0  BY <1>1, <2>1 DEF JobType, RegisterOK, Rows
  <2>3. \A c \in Coils : Holds(j, c)' = Holds(j, c)  BY <1>2, <2>2 DEF Holds
  <2> QED  BY <1>6, <2>1, <2>3
<1> QED  BY <1>7, <1>8, <1>9, <1>10

\* A deleted job was closed, and held nothing.
LEMMA DeleteListReserved ==
  ASSUME IInv, IInv', NEW j \in Jobs, DeleteList(j)
  PROVE  KeepsReserved({})
<1>1. JobType /\ JobType'  BY DEF IInv, TypeOK
<1>2. /\ status[j] \in {"Cancelled", "Returned", "cancelled", "other"}
      /\ status' = [status EXCEPT ![j] = "gone"] /\ reserved' = reserved
      /\ opening' = [opening EXCEPT ![j] = [c \in Coils |-> 0]]
  BY Zenon DEF DeleteList, RowsDeleted
<1>3. \A c \in Coils, i \in Jobs : Holds(i, c)' = Holds(i, c)
  BY <1>1, <1>2 DEF JobType, Holds, OpenStatuses
<1>4. \A c \in Coils : OpenKg(c)' = OpenKg(c)  BY <1>1, <1>3, HeldSame
<1> QED  BY <1>2, <1>4 DEF KeepsReserved

\* Releasing the rows of a job that closes takes off what the job held.
LEMMA ReleasedReserved ==
  ASSUME IInv, IInv', NEW j \in Jobs, Unwind(j, "Cancelled") \/ Unwind(j, "Returned")
                                        \/ CompleteWithoutCoil(j)
  PROVE  KeepsReserved({})
<1>1. CoilType /\ JobType /\ JobType'  BY DEF IInv, TypeOK
<1>2. status[j] \in OpenStatuses /\ reserved' = Released(j, reserved)
  BY Zenon DEF Unwind, CompleteWithoutCoil, OpenStatuses
<1>3. /\ \A i \in Jobs \ {j} : status'[i] = status[i] /\ opening'[i] = opening[i]
      /\ status'[j] \notin OpenStatuses
  BY <1>1 DEF JobType, Unwind, CompleteWithoutCoil, RowsDeleted, OpenStatuses
<1>4. ASSUME NEW c \in Coils, reserved[c] = OpenKg(c) PROVE reserved'[c] = OpenKg(c)'
  <2>1. \A i \in Jobs \ {j} : Holds(i, c)' = Holds(i, c)  BY <1>3 DEF Holds
  <2>2. Holds(j, c) = opening[j][c] /\ Holds(j, c)' = 0  BY <1>2, <1>3 DEF Holds
  <2>3. /\ OpenKg(c)' = OpenKg(c) - opening[j][c]
        /\ OpenKg(c) \in Nat /\ opening[j][c] \in Nat /\ opening[j][c] <= OpenKg(c)
    BY <1>1, <2>1, <2>2, HeldChange
  <2> QED  BY <1>2, <1>4, <2>3 DEF Released, Clamp
<1> QED  BY <1>4 DEF KeepsReserved

LEMMA CompleteReserved ==
  ASSUME IInv, IInv', NEW j \in Jobs, NEW from \in Postings(j),
         NEW use \in [Coils -> 0..MaxKg], NEW fin \in SUBSET Coils,
         Complete(j, from, use, fin)
  PROVE  \E cs : MayLoosen(cs) /\ KeepsReserved(cs)
<1> DEFINE open == [d \in Coils |-> OpeningOf(j, from, d)]
           left == [d \in Coils |-> remaining[d] - use[d]]
           held == [d \in Coils |->
                      Least(Clamp(reserved[d] - open[d]), IF d \in fin THEN 0 ELSE left[d])]
           off == {d \in Coils : from[d] # Straight(j)[d]}
<1>1. CoilType /\ JobType /\ JobType' /\ ReservedFits  BY DEF IInv, TypeOK
<1>2. /\ status[j] = "Running"
      /\ status' = [status EXCEPT ![j] = "Completed"] /\ opening' = opening
      /\ \A d \in Coils : Reads(open[d], use[d]) /\ use[d] <= remaining[d]
      /\ MayLoosen(fin \cup off)
      /\ \E done : Recalculated(held, done)
  BY Zenon DEF Complete
<1>3. ASSUME NEW c \in Coils, c \notin fin, c \notin off, reserved[c] = OpenKg(c)
      PROVE  reserved'[c] = OpenKg(c)'
  <2>1. \A i \in Jobs \ {j} : Holds(i, c)' = Holds(i, c)
    BY <1>1, <1>2 DEF JobType, Holds
  <2>2. Holds(j, c) = opening[j][c] /\ Holds(j, c)' = 0
    BY <1>1, <1>2 DEF JobType, Holds, OpenStatuses
  <2>3. /\ OpenKg(c)' = OpenKg(c) - opening[j][c]
        /\ OpenKg(c) \in Nat /\ opening[j][c] \in Nat /\ opening[j][c] <= OpenKg(c)
    BY <1>1, <2>1, <2>2, HeldChange
  <2>4. OpeningOf(j, from, c) = opening[j][c]
    <3>1. from[c] = IF c \in Rows(j) THEN c ELSE NoCoil  BY <1>3 DEF Straight
    <3>2. CASE c \in Rows(j)  BY <3>1, <3>2 DEF OpeningOf
    <3>3. CASE c \notin Rows(j)
      <4>1. opening[j][c] = 0  BY <2>3, <3>3 DEF Rows
      <4> QED  BY <3>1, <3>3, <4>1, CoilAssumption DEF OpeningOf
    <3> QED  BY <3>2, <3>3
  <2>5. use[c] \in Nat /\ use[c] <= opening[j][c]
    BY <1>2, <2>4, CoilAssumption DEF Reads
  <2>6. held[c] = OpenKg(c)'
    BY <1>1, <1>3, <2>3, <2>4, <2>5 DEF Least, Clamp, CoilType, ReservedFits
  <2> HIDE DEF held
  <2> QED  BY <1>2, <2>6, RecalculatedGives
<1>4. KeepsReserved(fin \cup off)
  <2> HIDE DEF off
  <2> QED  BY <1>3 DEF KeepsReserved
<1> QED  BY <1>2, <1>4

\* The coils a correction leaves alone.
LEMMA CorrectAside ==
  ASSUME IInv, IInv', NEW j \in Jobs, NEW from \in Postings(j),
         NEW extra \in Coils \cup {NoCoil},
         NEW kg \in Kg, NEW use \in [Coils -> 0..MaxKg], NEW fin \in SUBSET Coils,
         NEW applied \in SUBSET Rows(j), Correct(j, from, extra, kg, use, fin, applied)
  PROVE  \E touched :
            /\ Rows(j) \subseteq touched /\ \A d \in touched : received[d] > 0
            /\ MayLoosen(touched) /\ MayDrift(touched)
            /\ \A c \in Coils \ touched :
                  /\ opening[j][c] = 0 /\ opening'[j][c] = 0
                  /\ reserved'[c] = reserved[c] /\ remaining'[c] = remaining[c]
                  /\ drawn'[j][c] = drawn[j][c] /\ tail'[j][c] = tail[j][c]
                  /\ consumed'[j][c] = 0
                  /\ finishLogged'[c] = finishLogged[c] /\ finishNet'[c] = finishNet[c]
<1> DEFINE charged == {d \in Coils : d = extra \/ from[d] \in applied}
           aside == Rows(j) \ applied
           open == [d \in Coils |-> IF d = extra THEN kg
                                    ELSE IF d \in charged THEN OpeningOf(j, from, d) ELSE 0]
           left == [d \in Coils |-> Clamp(BackOn(j)[d] - use[d])]
           cleared == {d \in fin : left[d] > 0}
           held == [d \in Coils |->
                      Least(Clamp(HeldAgain(j)[d] + (IF d = extra THEN kg ELSE 0) - open[d]),
                            IF d \in fin THEN 0 ELSE left[d])]
           touched == Rows(j) \cup charged
           net == [d \in Coils |-> NetBack(j)[d] + (IF d \in cleared THEN left[d] ELSE 0)]
           took == [d \in Coils |-> DrawnBack(j)[d] + use[d]]
           tailed == [d \in Coils |-> TailBack(j)[d] + (IF d \in cleared THEN left[d] ELSE 0)]
           opened == [d \in Coils |-> IF d \in aside THEN opening[j][d] ELSE open[d]]
           used == [d \in Coils |-> IF d \in aside THEN consumed[j][d] ELSE use[d]]
<1>1. CoilType /\ LedgerType /\ JobType /\ JobType' /\ ReservedFits  BY DEF IInv, TypeOK
<1>2. /\ opening' = [opening EXCEPT ![j] = opened]
      /\ consumed' = [consumed EXCEPT ![j] = used]
      /\ remaining' = [d \in Coils |-> IF d \in fin THEN 0 ELSE left[d]]
      /\ drawn' = [drawn EXCEPT ![j] = took]
      /\ tail' = [tail EXCEPT ![j] = tailed]
      /\ finishNet' = net
      /\ finishLogged' = [d \in Coils |-> finishLogged[d] \/ d \in Relogged(j) \cup cleared]
  <2> HIDE DEF open, left, cleared, held, touched, net, took, tailed
  <2> USE DEF opened, used
  <2>1. opening' = [opening EXCEPT ![j] = opened]
    BY <1>1 DEF Correct, JobType, open, charged, aside, OpeningOf
  <2>2. consumed' = [consumed EXCEPT ![j] = used]
    BY <1>1 DEF Correct, JobType, aside
  <2>3. /\ remaining' = [d \in Coils |-> IF d \in fin THEN 0 ELSE left[d]]
        /\ finishNet' = net
        /\ finishLogged' = [d \in Coils |-> finishLogged[d] \/ d \in Relogged(j) \cup cleared]
    BY Zenon DEF Correct, left, cleared, net
  <2>4. drawn' = [drawn EXCEPT ![j] = took] /\ tail' = [tail EXCEPT ![j] = tailed]
    BY Zenon DEF Correct, left, cleared, took, tailed
  <2> QED  BY <2>1, <2>2, <2>3, <2>4
<1>3. /\ Recalculated(held, touched) \/ reserved' = held
      /\ MayLoosen(touched) /\ MayDrift(touched)
      /\ \A d \in touched : received[d] > 0
      /\ \A d \in Coils : Reads(open[d], use[d])
      /\ MayFinish(open, use, fin)
  BY Zenon DEF Correct
<1>4. \A d \in Coils : open[d] \in Nat /\ use[d] \in Nat
  <2>1. kg \in Nat  BY CoilAssumption DEF Kg
  <2> QED  BY <1>1, <2>1, PostingsOf, CoilAssumption
<1>5. ASSUME NEW c \in Coils, c \notin touched
      PROVE  /\ opening[j][c] = 0 /\ open[c] = 0 /\ use[c] = 0 /\ c \notin Undone(j)
             /\ c \notin fin /\ c # extra /\ c \notin aside
  <2>1. open[c] = 0 /\ c \notin Rows(j) /\ c # extra /\ c \notin aside  BY <1>4, <1>5
  <2> HIDE DEF touched, open, charged, aside
  <2>3. opening[j][c] = 0 /\ c \notin Undone(j)  BY <1>1, <2>1 DEF JobType, Rows, Undone
  <2>4. use[c] = 0 /\ c \notin fin  BY <1>3, <1>4, <2>1 DEF Reads, MayFinish
  <2> QED  BY <2>1, <2>3, <2>4
<1>6. ASSUME NEW c \in Coils, c \notin touched
      PROVE  /\ BackOn(j)[c] = remaining[c] /\ HeldAgain(j)[c] = reserved[c]
             /\ DrawnBack(j)[c] = drawn[j][c] /\ TailBack(j)[c] = tail[j][c]
             /\ NetBack(j)[c] = finishNet[c] /\ c \notin Relogged(j)
  <2>1. c \notin Undone(j)  BY <1>5, <1>6
  <2> QED
    BY <1>1, <2>1 DEF CoilType, LedgerType, JobType, BackOn, HeldAgain, DrawnBack, TailBack,
                      NetBack, Relogged
<1>7. ASSUME NEW c \in Coils, c \notin touched
      PROVE  left[c] = remaining[c] /\ held[c] = reserved[c] /\ c \notin cleared
  <2>1. left[c] = remaining[c] /\ c \notin cleared
    BY <1>1, <1>5, <1>6, <1>7 DEF CoilType, Clamp
  <2>2. open[c] = 0 /\ c # extra /\ c \notin fin  BY <1>5, <1>7
  <2> HIDE DEF left, open, touched
  <2>3. held[c] = reserved[c]
    BY <1>1, <1>6, <1>7, <2>1, <2>2 DEF CoilType, ReservedFits, Clamp, Least
  <2> QED  BY <2>1, <2>3
<1>8. Rows(j) \subseteq touched  OBVIOUS
<1> HIDE DEF open, left, cleared, held, touched, net, took, tailed, charged, aside
<1>9. ASSUME NEW c \in Coils, c \notin touched
      PROVE  /\ opening[j][c] = 0 /\ opening'[j][c] = 0
             /\ reserved'[c] = reserved[c] /\ remaining'[c] = remaining[c]
             /\ drawn'[j][c] = drawn[j][c] /\ tail'[j][c] = tail[j][c]
             /\ consumed'[j][c] = 0
             /\ finishLogged'[c] = finishLogged[c] /\ finishNet'[c] = finishNet[c]
  <2>1. /\ opening[j][c] = 0 /\ open[c] = 0 /\ use[c] = 0 /\ c \notin fin /\ c \notin aside
        /\ left[c] = remaining[c] /\ held[c] = reserved[c] /\ c \notin cleared
        /\ c \notin Relogged(j)
    BY <1>5, <1>6, <1>7, <1>9
  <2>2. reserved'[c] = reserved[c]  BY <1>3, <1>9, <2>1, RecalculatedGives
  <2>3. remaining'[c] = remaining[c]  BY <1>2, <2>1
  <2>4. opening'[j][c] = 0 /\ consumed'[j][c] = 0  BY <1>1, <1>2, <2>1 DEF JobType
  <2>5. took[c] = drawn[j][c] /\ tailed[c] = tail[j][c] /\ net[c] = finishNet[c]
    BY <1>1, <1>6, <1>9, <2>1 DEF took, tailed, net, JobType, LedgerType
  <2>6. drawn'[j][c] = drawn[j][c] /\ tail'[j][c] = tail[j][c]
    BY <1>1, <1>2, <2>5 DEF JobType
  <2>7. finishNet'[c] = finishNet[c] /\ finishLogged'[c] = finishLogged[c]
    BY <1>1, <1>2, <2>1, <2>5 DEF LedgerType
  <2> QED  BY <2>1, <2>2, <2>3, <2>4, <2>6, <2>7
<1> QED  BY <1>3, <1>8, <1>9

LEMMA CorrectReserved ==
  ASSUME IInv, IInv', NEW j \in Jobs, NEW from \in Postings(j),
         NEW extra \in Coils \cup {NoCoil},
         NEW kg \in Kg, NEW use \in [Coils -> 0..MaxKg], NEW fin \in SUBSET Coils,
         NEW applied \in SUBSET Rows(j), Correct(j, from, extra, kg, use, fin, applied)
  PROVE  \E cs : MayLoosen(cs) /\ KeepsReserved(cs)
<1>1. JobType /\ JobType'  BY DEF IInv, TypeOK
<1>2. PICK touched :
        /\ MayLoosen(touched)
        /\ \A c \in Coils \ touched : reserved'[c] = reserved[c]
  BY CorrectAside
<1>3. /\ status[j] = "Completed" /\ status' = status
      /\ \E open : opening' = [opening EXCEPT ![j] = open]
  BY Zenon DEF Correct
<1>4. ASSUME NEW c \in Coils PROVE OpenKg(c)' = OpenKg(c)
  <2>1. \A i \in Jobs : Holds(i, c)' = Holds(i, c)
    BY <1>1, <1>3 DEF JobType, Holds, OpenStatuses
  <2> QED  BY <1>1, <2>1, HeldSame
<1> QED  BY <1>2, <1>4 DEF KeepsReserved

\* A recall releases what the job held; only the coils of a job that was not
\* open may lose more, when the rows no longer fit or were not reserved.
LEMMA ForceRecallReserved ==
  ASSUME IInv, IInv', NEW j \in Jobs, ForceRecall(j)
  PROVE  \E cs : MayLoosen(cs) /\ KeepsReserved(cs)
<1>1. CoilType /\ JobType /\ JobType'  BY DEF IInv, TypeOK
<1> DEFINE off == IF status[j] \in OpenStatuses THEN {} ELSE Rows(j)
<1>2. /\ status' = [status EXCEPT ![j] = "gone"]
      /\ RowsDeleted(j)
      /\ reserved' = Released(j, HeldAgain(j))
      /\ MayLoosen(off)
  BY Zenon DEF ForceRecall
<1>3. /\ \A i \in Jobs \ {j} : status'[i] = status[i] /\ opening'[i] = opening[i]
      /\ status'[j] \notin OpenStatuses
  BY <1>1, <1>2 DEF JobType, RowsDeleted, OpenStatuses
<1>4. ASSUME NEW c \in Coils, c \notin off, reserved[c] = OpenKg(c)
      PROVE  reserved'[c] = OpenKg(c)'
  <2>1. \A i \in Jobs \ {j} : Holds(i, c)' = Holds(i, c)  BY <1>3 DEF Holds
  <2>2. Holds(j, c) = opening[j][c] /\ c \notin Undone(j)
    <3>1. CASE status[j] \in OpenStatuses  BY <3>1 DEF Holds, OpenStatuses, Undone
    <3>2. CASE status[j] \notin OpenStatuses
      BY <1>1, <1>4, <3>2 DEF JobType, Holds, Undone, Rows
    <3> QED  BY <3>1, <3>2
  <2>3. Holds(j, c)' = 0  BY <1>3 DEF Holds
  <2>4. /\ OpenKg(c)' = OpenKg(c) - opening[j][c]
        /\ OpenKg(c) \in Nat /\ opening[j][c] \in Nat /\ opening[j][c] <= OpenKg(c)
    BY <1>1, <2>1, <2>2, <2>3, HeldChange
  <2>5. HeldAgain(j)[c] = reserved[c]  BY <2>2 DEF HeldAgain
  <2> QED  BY <1>2, <1>4, <2>4, <2>5 DEF Released, Clamp
<1> HIDE DEF off
<1> QED  BY <1>2, <1>4 DEF KeepsReserved

\* Scrapping reserved kg takes off the rows what no longer fits on the coil.
LEMMA ScrapReservedReserved ==
  ASSUME IInv, IInv', NEW c \in Coils, NEW kg \in Kg, NEW j \in Jobs, ScrapReserved(c, kg, j)
  PROVE  KeepsReserved({})
<1> DEFINE left == remaining[c] - kg
           cut == Clamp(reserved[c] - left)
           openOthers == {i \in Jobs \ {j} : status[i] \in OpenStatuses}
           others == SumFunction([i \in openOthers |-> opening[i][c]])
           T == Jobs \ {j}
           f == Holding(c)
           g == Holding(c)'
<1>1. CoilType /\ JobType /\ JobType' /\ ReservedFits  BY DEF IInv, TypeOK
<1>2. /\ status[j] \in OpenStatuses /\ status' = status
      /\ left \in 0..(reserved[c] - 1)
      /\ reserved' = [reserved EXCEPT ![c] = left]
  BY Zenon DEF ScrapReserved
<1>3. PICK next \in [Jobs -> 0..MaxKg] :
        /\ next[j] = Clamp(opening[j][c] - cut)
        /\ SumFunctionOnSet(next, openOthers) = Clamp(others - Clamp(cut - opening[j][c]))
        /\ opening' = [i \in Jobs |-> [opening[i] EXCEPT ![c] = next[i]]]
  BY Zenon DEF ScrapReserved
<1>4. ASSUME NEW d \in Coils, d # c, reserved[d] = OpenKg(d) PROVE reserved'[d] = OpenKg(d)'
  <2>1. \A i \in Jobs : Holds(i, d)' = Holds(i, d)
    BY <1>1, <1>2, <1>3, <1>4 DEF JobType, Holds
  <2>2. OpenKg(d)' = OpenKg(d)  BY <1>1, <2>1, HeldSame
  <2> QED  BY <1>1, <1>2, <1>4, <2>2 DEF CoilType
<1>5. ASSUME reserved[c] = OpenKg(c) PROVE reserved'[c] = OpenKg(c)'
  <2>1. \A i \in Jobs : /\ f[i] = IF status[i] \in OpenStatuses THEN opening[i][c] ELSE 0
                        /\ g[i] = IF status[i] \in OpenStatuses THEN next[i] ELSE 0
                        /\ f[i] \in Nat /\ g[i] \in Nat
    <3>1. \A i \in Jobs : next[i] \in Nat  BY <1>3, CoilAssumption
    <3>2. \A i \in Jobs : opening'[i][c] = next[i] /\ opening[i][c] \in Nat
      BY <1>1, <1>3 DEF JobType
    <3> QED  BY <1>2, <3>1, <3>2 DEF Holding, Holds
  <2>2. OpenKg(c) = SumFunctionOnSet(f, Jobs) /\ OpenKg(c)' = SumFunctionOnSet(g, Jobs)
    BY <1>1, HeldAsSum, HeldAsSumNext
  <2>3. IsFiniteSet(Jobs) /\ IsFiniteSet(T) /\ IsFiniteSet(openOthers)
    BY CoilAssumption, FS_Subset
  <2>4. others = SumFunctionOnSet(f, T) /\ SumFunctionOnSet(f, T) \in Nat
    <3> DEFINE rows2 == [i \in openOthers |-> opening[i][c]]
    <3>1. /\ DOMAIN rows2 = openOthers /\ openOthers \subseteq T
          /\ \A i \in openOthers : rows2[i] = f[i] /\ f[i] \in Int
          /\ \A i \in T \ openOthers : f[i] = 0
          /\ \A i \in T : f[i] \in Nat
      BY <2>1
    <3>2. others = SumFunction(rows2)  OBVIOUS
    <3> HIDE DEF rows2, openOthers, T, f, others
    <3>3. SumFunction(rows2) = SumFunctionOnSet(f, T)  BY <2>3, <3>1, SumOverAll
    <3> QED  BY <2>3, <3>1, <3>2, <3>3, SumNat
  <2>5. SumFunctionOnSet(next, openOthers) = SumFunctionOnSet(g, T)
    <3>1. /\ openOthers \subseteq T
          /\ \A i \in openOthers : next[i] = g[i]
          /\ \A i \in T \ openOthers : g[i] = 0
          /\ \A i \in T : g[i] \in Int
      BY <2>1
    <3> HIDE DEF openOthers, T, g
    <3>2. SumFunctionOnSet(next, openOthers) = SumFunctionOnSet(g, openOthers)
      BY <2>3, <3>1, SumEqual
    <3>3. SumFunctionOnSet(g, openOthers) = SumFunctionOnSet(g, T)
      BY <2>3, <3>1, SumSupport
    <3> QED  BY <3>2, <3>3
  <2>6. /\ f[j] = opening[j][c] /\ g[j] = next[j]  BY <1>2, <2>1
  <2>7. \A i \in Jobs : f[i] \in Int /\ g[i] \in Int  BY <2>1
  <2>8. f[j] \in Nat /\ g[j] \in Nat  BY <2>1
  <2> HIDE DEF f, g, others, openOthers
  <2>9. /\ SumFunctionOnSet(f, Jobs) = f[j] + SumFunctionOnSet(f, T)
        /\ SumFunctionOnSet(g, Jobs) = g[j] + SumFunctionOnSet(g, T)
    BY <2>3, <2>7, SumRemove
  <2> HIDE DEF T
  <2>10. /\ next[j] = Clamp(opening[j][c] - cut)
         /\ SumFunctionOnSet(g, T) = Clamp(SumFunctionOnSet(f, T) - Clamp(cut - opening[j][c]))
    BY <1>3, <2>4, <2>5
  <2>11. reserved[c] = opening[j][c] + SumFunctionOnSet(f, T)
    BY <1>5, <2>2, <2>6, <2>9
  <2>12. remaining[c] \in Nat /\ reserved[c] \in Nat /\ kg \in Nat /\ opening[j][c] \in Nat
    BY <1>1, <2>6, <2>8, CoilAssumption DEF CoilType, Kg
  <2>13. cut = reserved[c] - left /\ left \in Nat /\ cut \in Nat
    BY <1>2, <2>12 DEF Clamp
  <2> HIDE DEF cut, left
  <2>14. next[j] + SumFunctionOnSet(g, T) = left
    BY <2>4, <2>10, <2>11, <2>12, <2>13 DEF Clamp
  <2>15. OpenKg(c)' = left  BY <2>2, <2>6, <2>9, <2>14
  <2> QED  BY <1>1, <1>2, <2>15 DEF CoilType
<1> QED  BY <1>4, <1>5 DEF KeepsReserved

\* A coil cut from another starts without a reservation, and no row names it.
LEMMA SplitReserved ==
  ASSUME IInv, IInv', RegisterOK, NEW c \in Coils, NEW d \in Coils, NEW kg \in Kg,
         Split(c, d, kg)
  PROVE  KeepsReserved({})
<1>1. CoilType /\ JobType /\ JobType'  BY DEF IInv, TypeOK
<1>2. /\ received[d] = 0 /\ reserved' = [reserved EXCEPT ![d] = 0]
      /\ opening' = opening /\ status' = status
  BY Zenon DEF Split, rows
<1>3. \A e \in Coils : OpenKg(e)' = OpenKg(e)
  BY <1>1, <1>2, HeldSame DEF Holds
<1>4. OpenKg(d) = 0
  <2>1. \A i \in Jobs : Holding(d)[i] = 0
    BY <1>2 DEF RegisterOK, Unregistered, Holding, Holds
  <2>2. SumFunctionOnSet(Holding(d), Jobs) = 0  BY <2>1, SumZero, CoilAssumption
  <2> QED  BY <1>1, <2>2, HeldAsSum
<1> QED  BY <1>1, <1>2, <1>3, <1>4 DEF KeepsReserved, CoilType

\* Recounts leave the reservation, or set it to what the open jobs hold.
LEMMA RecountReserved ==
  ASSUME IInv, IInv', UNCHANGED <<opening, status>>,
         \A c \in Coils : reserved'[c] \in {reserved[c], OpenKg(c), OpenKg(c)'}
  PROVE  KeepsReserved({})
<1>1. CoilType /\ JobType /\ JobType'  BY DEF IInv, TypeOK
<1>2. \A e \in Coils : OpenKg(e)' = OpenKg(e)
  BY <1>1, HeldSame DEF Holds
<1> QED  BY <1>2 DEF KeepsReserved

LEMMA RecalculatedReserved ==
  ASSUME IInv, IInv', UNCHANGED <<opening, status>>,
         NEW touched, Recalculated(reserved, touched)
  PROVE  KeepsReserved({})
<1>1. \A c \in Coils : reserved'[c] \in {reserved[c], OpenKg(c), OpenKg(c)'}
  BY RecalculatedGives
<1> QED  BY <1>1, RecountReserved

\* What a recalculation of the register writes.
LEMMA RecalculateCoilSets ==
  ASSUME NEW c \in Coils, RecalculateCoil(c)
  PROVE  \E free, aside :
            /\ reserved' = [e \in Coils |-> IF e = c THEN free ELSE aside[e]]
            /\ free \in {reserved[c], OpenKg(c)}
            /\ \A e \in Coils : aside[e] \in {reserved[e], OpenKg(e)}
<1> DEFINE holders == {j \in Jobs : c \in Rows(j)}
           touched == UNION {Rows(j) : j \in holders}
           blocks(on, book, held) == book # on /\ book < held
           heldOf(on, book) ==
             IF holders # {} /\ ~blocks(on, book, reserved[c]) /\ OpenKg(c) \in 0..on
             THEN OpenKg(c) ELSE reserved[c]
           leftOf(on, book) == IF book \in heldOf(on, book)..on THEN book ELSE on
           freed(on, book) ==
             IF ~blocks(on, book, heldOf(on, book)) /\ OpenKg(c) \in 0..leftOf(on, book)
             THEN OpenKg(c) ELSE heldOf(on, book)
           other == [d \in Coils |-> IF d \in touched /\ Fits(d) /\ ~BookBlocks(d, reserved[d])
                                    THEN OpenKg(d) ELSE reserved[d]]
<1>1. \E on, book :
        reserved' = [d \in Coils |-> IF d = c THEN freed(on, book)
                      ELSE IF d \in touched /\ Fits(d) /\ ~BookBlocks(d, reserved[d])
                           THEN OpenKg(d) ELSE reserved[d]]
  BY Zenon DEF RecalculateCoil
<1>2. PICK on, book :
        reserved' = [d \in Coils |-> IF d = c THEN freed(on, book)
                      ELSE IF d \in touched /\ Fits(d) /\ ~BookBlocks(d, reserved[d])
                           THEN OpenKg(d) ELSE reserved[d]]
  BY <1>1, Zenon
<1> DEFINE free == freed(on, book)
<1>3. free \in {reserved[c], OpenKg(c)}  BY Zenon
<1>4. \A e \in Coils : other[e] \in {reserved[e], OpenKg(e)}
  <2> HIDE DEF touched
  <2> QED  OBVIOUS
<1> HIDE DEF freed, touched
<1>5. reserved' = [e \in Coils |-> IF e = c THEN free ELSE other[e]]  BY <1>2
<1> HIDE DEF free, other
<1> QED  BY <1>3, <1>4, <1>5

LEMMA RecalculateCoilReserved ==
  ASSUME IInv, IInv', NEW c \in Coils, RecalculateCoil(c)
  PROVE  KeepsReserved({})
<1>1. UNCHANGED <<opening, status>>  BY Zenon DEF RecalculateCoil
<1>2. ASSUME NEW d \in Coils PROVE reserved'[d] \in {reserved[d], OpenKg(d), OpenKg(d)'}
  <2>1. PICK free, aside :
          /\ reserved' = [e \in Coils |-> IF e = c THEN free ELSE aside[e]]
          /\ free \in {reserved[c], OpenKg(c)}
          /\ \A e \in Coils : aside[e] \in {reserved[e], OpenKg(e)}
    BY RecalculateCoilSets
  <2> QED  BY <2>1
<1> QED  BY <1>1, <1>2, RecountReserved

\* Register postings and a restore leave rows and reservations alone.
LEMMA QuietReserved ==
  ASSUME IInv, IInv', NEW c \in Coils,
         \/ \E kg \in Kg : Scrap(c, kg) \/ Gain(c, kg)
         \/ \E kg \in 1..TailMax : UndoFinish(c, kg)
         \/ \E confirm \in BOOLEAN : FinishRoll(c, confirm)
         \/ ShowHolders(c) \/ RestoreDies(c)
         \/ \E rk, on : PatchReceived(c, rk, on)
  PROVE  MayLoosen({}) /\ KeepsReserved({})
<1>1. JobType /\ JobType'  BY DEF IInv, TypeOK
<1>2. UNCHANGED <<opening, status, reserved>> /\ MayLoosen({})
  BY Zenon DEF Scrap, Gain, UndoFinish, FinishRoll, ShowHolders, RestoreDies, PatchReceived,
               Clean, rows
<1> QED  BY <1>1, <1>2, SameHolding

LEMMA StepReserved ==
  ASSUME IInv, IInv', RegisterOK, ReservedExact, [Next]_vars PROVE ReservedExact'
<1>1. ASSUME Clean, KeepsReserved({}) PROVE ReservedExact'
  BY <1>1, ExactKept DEF Clean
<1>2. ASSUME \E cs : MayLoosen(cs) /\ KeepsReserved(cs) PROVE ReservedExact'
  BY <1>2, ExactKept
<1>3. ASSUME NEW j \in Jobs, PlanningStep(j) PROVE ReservedExact'
  <2>1. CASE \/ Register(j) \/ Start(j) \/ ReturnToPlanned(j)
             \/ \E next \in {"Planned"} \cup Texts : PatchStatus(j, next)
    <3>1. PICK next \in {"Planned"} \cup Texts :
            Register(j) \/ Start(j) \/ ReturnToPlanned(j) \/ PatchStatus(j, next)
      BY <2>1
    <3> QED  BY <3>1, StatusReserved
  <2>2. CASE \E want \in [Coils -> 0..MaxKg] : SaveAllocations(j, want)
    <3>1. Clean  BY <2>2, Zenon DEF SaveAllocations
    <3> QED  BY <1>1, <2>2, <3>1, SaveAllocationsReserved
  <2>3. CASE \E c \in Coils, kg \in Kg : AppendCoil(j, c, kg)
    <3>1. Clean  BY <2>3, Zenon DEF AppendCoil
    <3> QED  BY <1>1, <2>3, <3>1, AppendCoilReserved
  <2>4. CASE \E c, d \in Coils : RunLog(j, c, d)
    <3>1. Clean  BY <2>4, Zenon DEF RunLog
    <3> QED  BY <1>1, <2>4, <3>1, RunLogReserved
  <2>5. CASE \E next \in {"Cancelled", "Returned"} : Unwind(j, next)
    <3>1. Clean  BY <2>5, Zenon DEF Unwind
    <3> QED  BY <1>1, <2>5, <3>1, ReleasedReserved
  <2>6. CASE \E extra \in SUBSET (Coils \ Rows(j)) : RecalculateJob(j, extra)
    <3>1. Clean /\ UNCHANGED <<opening, status>> /\ \E touched : Recalculated(reserved, touched)
      BY <2>6, Zenon DEF RecalculateJob, rows
    <3> QED  BY <1>1, <3>1, RecalculatedReserved
  <2> QED  BY <1>3, <2>1, <2>2, <2>3, <2>4, <2>5, <2>6, Zenon DEF PlanningStep
<1>4. ASSUME NEW j \in Jobs, CompletionStep(j) PROVE ReservedExact'
  <2>1. CASE \E from \in Postings(j) : \E use \in [Coils -> 0..MaxKg], fin \in SUBSET Coils :
                Complete(j, from, use, fin)
    BY <1>2, <2>1, CompleteReserved
  <2>2. CASE \E from \in Postings(j), extra \in Coils \cup {NoCoil}, kg \in Kg :
                \E use \in [Coils -> 0..MaxKg], fin \in SUBSET Coils, applied \in SUBSET Rows(j) :
                   Correct(j, from, extra, kg, use, fin, applied)
    BY <1>2, <2>2, CorrectReserved
  <2>3. CASE CompleteWithoutCoil(j)
    <3>1. Clean  BY <2>3, Zenon DEF CompleteWithoutCoil
    <3> QED  BY <1>1, <2>3, <3>1, ReleasedReserved
  <2>4. CASE ForceRecall(j)  BY <1>2, <2>4, ForceRecallReserved
  <2>5. CASE DeleteList(j)
    <3>1. Clean  BY <2>5, Zenon DEF DeleteList
    <3> QED  BY <1>1, <2>5, <3>1, DeleteListReserved
  <2> QED  BY <1>4, <2>1, <2>2, <2>3, <2>4, <2>5, Zenon DEF CompletionStep
<1>5. ASSUME NEW c \in Coils, RegisterStep(c) PROVE ReservedExact'
  <2>1. CASE \/ \E kg \in Kg : Scrap(c, kg) \/ Gain(c, kg)
             \/ \E kg \in 1..TailMax : UndoFinish(c, kg)
             \/ \E confirm \in BOOLEAN : FinishRoll(c, confirm)
             \/ ShowHolders(c) \/ RestoreDies(c)
             \/ \E rk, on : PatchReceived(c, rk, on)
    BY <1>2, <2>1, QuietReserved
  <2>2. CASE \E kg \in Kg, j \in Jobs : ScrapReserved(c, kg, j)
    <3>1. Clean  BY <2>2, Zenon DEF ScrapReserved
    <3> QED  BY <1>1, <2>2, <3>1, ScrapReservedReserved
  <2>3. CASE \E kg \in Kg, d \in Coils : Split(c, d, kg)
    <3>1. Clean  BY <2>3, Zenon DEF Split
    <3> QED  BY <1>1, <2>3, <3>1, SplitReserved
  <2>4. CASE ReconcileReservation(c)
    <3>1. Clean /\ UNCHANGED <<opening, status>>
          /\ reserved' = [reserved EXCEPT ![c] = OpenKg(c)]
      BY <2>4, Zenon DEF ReconcileReservation, rows
    <3>2. \A d \in Coils : reserved'[d] \in {reserved[d], OpenKg(d), OpenKg(d)'}
      BY <3>1 DEF IInv, TypeOK, CoilType
    <3> QED  BY <1>1, <3>1, <3>2, RecountReserved
  <2>5. CASE RecalculateCoil(c)
    <3>1. Clean  BY <2>5, Zenon DEF RecalculateCoil
    <3> QED  BY <1>1, <2>5, <3>1, RecalculateCoilReserved
  <2> QED  BY <1>5, <2>1, <2>2, <2>3, <2>4, <2>5, Zenon DEF RegisterStep, ReturnToStock
<1>6. CASE RunDeferred \/ Crash
  <2>1. Clean /\ UNCHANGED <<opening, status>> /\ \E touched : Recalculated(reserved, touched)
    BY <1>6, Zenon DEF RunDeferred, Crash, rows
  <2> QED  BY <1>1, <2>1, RecalculatedReserved
<1>7. CASE UNCHANGED vars
  <2>1. UNCHANGED <<opening, status, reserved>> /\ loose' = loose
    BY <1>7, Zenon DEF vars, rows, stock
  <2>2. JobType /\ JobType'  BY DEF IInv, TypeOK
  <2> QED  BY <2>1, <2>2, SameHolding, ExactKept
<1> QED  BY <1>3, <1>4, <1>5, <1>6, <1>7, Zenon DEF Next

-----------------------------------------------------------------------------
(* A coil that is not on the register stays empty.                           *)

\* What is empty of an unregistered coil, its splits aside.
Bare(d) ==
    /\ remaining[d] = 0 /\ ancillary[d] = 0 /\ confirmed[d] = 0
    /\ finishLogged[d] = FALSE
    /\ \A j \in Jobs : opening[j][d] = 0 /\ drawn[j][d] = 0 /\ tail[j][d] = 0
StaysBare == \A d \in Coils : received[d] = 0 /\ Bare(d) => Bare(d)'

\* Splits aside, a handler keeps the register and its records in order when it
\* leaves bare coils bare, logs what it nets, and registers no job's rows.
LEMMA RegisterKept ==
  ASSUME RegisterOK, StaysBare, UNCHANGED <<received, parent>>,
         \A c \in Coils : \/ finishLogged'[c]
                          \/ ~finishLogged[c] /\ finishNet'[c] = finishNet[c],
         \A j \in Jobs : status'[j] = "none" =>
            status[j] = "none" /\ \A c \in Coils : opening'[j][c] = opening[j][c]
  PROVE  RegisterOK'
<1>1. ASSUME NEW d \in Coils, received'[d] = 0 PROVE Unregistered(d)'
  <2>1. Unregistered(d) /\ received[d] = 0  BY <1>1 DEF RegisterOK
  <2>2. Bare(d)'  BY <2>1 DEF StaysBare, Bare, Unregistered
  <2>3. \A e \in Coils : parent'[e] # d  BY <2>1 DEF Unregistered
  <2> QED  BY <2>2, <2>3 DEF Bare, Unregistered
<1>2. \A c \in Coils : ~finishLogged'[c] => finishNet'[c] = 0  BY DEF RegisterOK
<1>3. \A j \in Jobs : status'[j] = "none" => Rows(j)' = {}  BY DEF RegisterOK, Rows
<1> QED  BY <1>1, <1>2, <1>3 DEF RegisterOK

\* Handlers that touch neither the kg nor the records of a coil.
LEMMA QuietRegister ==
  ASSUME IInv, RegisterOK, NEW j \in Jobs,
         UNCHANGED <<received, parent, ancillary, finishLogged, finishNet, confirmed>>,
         UNCHANGED <<remaining, drawn, tail>>,
         \/ UNCHANGED opening
         \/ opening' = [opening EXCEPT ![j] = [c \in Coils |-> 0]],
         \/ UNCHANGED status
         \/ \E st \in Statuses \ {"none"} : status' = [status EXCEPT ![j] = st],
         opening' # opening => status[j] # "none"
  PROVE  RegisterOK'
<1>1. JobType /\ LedgerType  BY DEF IInv, TypeOK
<1>2. StaysBare
  <2>1. \A i \in Jobs, d \in Coils : opening[i][d] = 0 => opening'[i][d] = 0
    <3>1. CASE UNCHANGED opening  BY <3>1
    <3>2. CASE opening' = [opening EXCEPT ![j] = [c \in Coils |-> 0]]
      BY <1>1, <3>2 DEF JobType
    <3> QED  BY <3>1, <3>2
  <2> QED  BY <2>1 DEF StaysBare, Bare
<1>3. \A i \in Jobs : status'[i] = "none" =>
         status[i] = "none" /\ \A c \in Coils : opening'[i][c] = opening[i][c]
  BY <1>1 DEF JobType
<1>4. \A c \in Coils : finishLogged'[c] \/ (~finishLogged[c] /\ finishNet'[c] = finishNet[c])
  BY <1>1 DEF LedgerType
<1> QED  BY <1>2, <1>3, <1>4, RegisterKept

LEMMA SaveAllocationsRegister ==
  ASSUME IInv, RegisterOK, NEW j \in Jobs, NEW want \in [Coils -> 0..MaxKg],
         SaveAllocations(j, want)
  PROVE  RegisterOK'
<1> DEFINE due == Rows(j) \cup {c \in Coils : want[c] > 0}
<1>1. CoilType /\ LedgerType /\ JobType /\ ReservedFits  BY DEF IInv, TypeOK
<1>2. /\ status[j] = "Planned" /\ status' = status
      /\ opening' = [opening EXCEPT ![j] = want]
      /\ \A c \in due : want[c] <= remaining[c] - (reserved[c] - opening[j][c])
      /\ UNCHANGED <<received, parent, ancillary, finishLogged, finishNet, confirmed>>
      /\ UNCHANGED <<remaining, drawn, tail>>
  BY Zenon DEF SaveAllocations, register, ledger
<1>3. \A c \in Coils : want[c] \in Nat  BY CoilAssumption
<1>4. StaysBare
  <2> SUFFICES ASSUME NEW d \in Coils, Bare(d) PROVE Bare(d)'
    BY DEF StaysBare
  <2>1. want[d] = 0
    <3>1. CASE d \in due
      BY <1>1, <1>2, <1>3, <3>1 DEF Bare, CoilType, ReservedFits
    <3>2. CASE d \notin due  BY <1>3, <3>2
    <3> QED  BY <3>1, <3>2
  <2>2. \A i \in Jobs : opening'[i][d] = 0  BY <1>1, <1>2, <2>1 DEF JobType, Bare
  <2> QED  BY <1>2, <2>2 DEF Bare
<1>5. \A i \in Jobs : status'[i] = "none" =>
         status[i] = "none" /\ \A c \in Coils : opening'[i][c] = opening[i][c]
  BY <1>1, <1>2 DEF JobType
<1>6. \A c \in Coils : finishLogged'[c] \/ (~finishLogged[c] /\ finishNet'[c] = finishNet[c])
  BY <1>1, <1>2 DEF LedgerType
<1> QED  BY <1>2, <1>4, <1>5, <1>6, RegisterKept

LEMMA RunningRowsRegister ==
  ASSUME IInv, RegisterOK, NEW j \in Jobs, NEW c \in Coils, NEW d \in Coils,
         (\E kg \in Kg : AppendCoil(j, c, kg)) \/ RunLog(j, c, d)
  PROVE  RegisterOK'
<1>1. CoilType /\ LedgerType /\ JobType /\ ReservedFits  BY DEF IInv, TypeOK
<1>2. /\ status[j] = "Running" /\ status' = status
      /\ UNCHANGED <<received, parent, ancillary, finishLogged, finishNet, confirmed>>
      /\ UNCHANGED <<remaining, drawn, tail>>
  BY Zenon DEF AppendCoil, RunLog, register, ledger
<1>3. /\ \A i \in Jobs \ {j} : opening'[i] = opening[i]
      /\ \A e \in Coils : remaining[e] = 0 /\ opening[j][e] = 0 => opening'[j][e] = 0
  <2>1. CASE \E kg \in Kg : AppendCoil(j, c, kg)
    <3>1. PICK kg \in Kg : /\ opening' = [opening EXCEPT ![j][c] = kg]
                           /\ kg <= remaining[c] - reserved[c]
      BY <2>1, Zenon DEF AppendCoil
    <3>2. kg \in Nat /\ kg > 0  BY CoilAssumption DEF Kg
    <3>3. remaining[c] > 0  BY <1>1, <3>1, <3>2 DEF CoilType
    <3> QED  BY <1>1, <3>1, <3>3 DEF JobType
  <2>2. CASE RunLog(j, c, d)
    <3>1. CASE UNCHANGED opening  BY <3>1
    <3>2. CASE /\ opening' = [opening EXCEPT ![j][c] = 0, ![j][d] = opening[j][c]]
               /\ reserved[d] + opening[j][c] <= remaining[d]
      <4>1. opening[j][c] \in Nat /\ reserved[d] \in Nat /\ remaining[d] \in Nat
        BY <1>1 DEF JobType, CoilType
      <4>2. remaining[d] = 0 => opening[j][c] = 0  BY <3>2, <4>1
      <4> QED  BY <1>1, <3>2, <4>2 DEF JobType
    <3> QED  BY <2>2, <3>1, <3>2, Zenon DEF RunLog
  <2> QED  BY <2>1, <2>2
<1>4. StaysBare  BY <1>2, <1>3 DEF StaysBare, Bare
<1>5. \A i \in Jobs : status'[i] = "none" =>
         status[i] = "none" /\ \A e \in Coils : opening'[i][e] = opening[i][e]
  BY <1>2, <1>3
<1>6. \A e \in Coils : finishLogged'[e] \/ (~finishLogged[e] /\ finishNet'[e] = finishNet[e])
  BY <1>1, <1>2 DEF LedgerType
<1> QED  BY <1>2, <1>4, <1>5, <1>6, RegisterKept

LEMMA CompleteRegister ==
  ASSUME IInv, RegisterOK, NEW j \in Jobs, NEW from \in Postings(j),
         NEW use \in [Coils -> 0..MaxKg], NEW fin \in SUBSET Coils,
         Complete(j, from, use, fin)
  PROVE  RegisterOK'
<1> DEFINE open == [d \in Coils |-> OpeningOf(j, from, d)]
           left == [d \in Coils |-> remaining[d] - use[d]]
           cleared == [d \in Coils |-> IF d \in fin THEN left[d] ELSE 0]
<1>1. CoilType /\ LedgerType /\ JobType  BY DEF IInv, TypeOK
<1>2. /\ status[j] = "Running" /\ status' = [status EXCEPT ![j] = "Completed"]
      /\ \A d \in Coils : Reads(open[d], use[d]) /\ use[d] <= remaining[d]
      /\ MayFinish(open, use, fin)
      /\ remaining' = [d \in Coils |-> IF d \in fin THEN 0 ELSE left[d]]
      /\ UNCHANGED <<received, parent, ancillary, finishLogged, finishNet, confirmed, opening>>
  BY Zenon DEF Complete, register, ledger
<1>3. /\ drawn' = [drawn EXCEPT ![j] = [d \in Coils |-> drawn[j][d] + use[d]]]
      /\ tail' = [tail EXCEPT ![j] = [d \in Coils |-> tail[j][d] + cleared[d]]]
  BY <1>1 DEF Complete, JobType
<1>4. StaysBare
  <2> SUFFICES ASSUME NEW d \in Coils, Bare(d) PROVE Bare(d)'
    BY DEF StaysBare
  <2>1. use[d] = 0 /\ remaining[d] = 0  BY <1>2, CoilAssumption DEF Bare
  <2>2. d \notin fin
    <3>1. Reads(open[d], use[d])  BY <1>2
    <3> HIDE DEF open, left
    <3> QED  BY <1>2, <2>1, <3>1 DEF Reads, MayFinish
  <2>3. left[d] = 0 /\ cleared[d] = 0  BY <2>1, <2>2
  <2>4. remaining'[d] = 0  BY <1>2, <2>3
  <2>5. \A i \in Jobs : drawn'[i][d] = 0 /\ tail'[i][d] = 0
    BY <1>1, <1>3, <2>1, <2>3 DEF Bare, JobType
  <2> QED  BY <1>2, <2>4, <2>5 DEF Bare
<1>5. \A i \in Jobs : status'[i] = "none" =>
         status[i] = "none" /\ \A e \in Coils : opening'[i][e] = opening[i][e]
  BY <1>1, <1>2 DEF JobType
<1>6. \A e \in Coils : finishLogged'[e] \/ (~finishLogged[e] /\ finishNet'[e] = finishNet[e])
  BY <1>1, <1>2 DEF LedgerType
<1> QED  BY <1>2, <1>4, <1>5, <1>6, RegisterKept

LEMMA CorrectRegister ==
  ASSUME IInv, IInv', RegisterOK, NEW j \in Jobs, NEW from \in Postings(j),
         NEW extra \in Coils \cup {NoCoil},
         NEW kg \in Kg, NEW use \in [Coils -> 0..MaxKg], NEW fin \in SUBSET Coils,
         NEW applied \in SUBSET Rows(j), Correct(j, from, extra, kg, use, fin, applied)
  PROVE  RegisterOK'
<1> DEFINE left == [d \in Coils |-> Clamp(BackOn(j)[d] - use[d])]
           cleared == {d \in fin : left[d] > 0}
           net == [d \in Coils |-> NetBack(j)[d] + (IF d \in cleared THEN left[d] ELSE 0)]
<1>1. CoilType /\ LedgerType /\ JobType /\ JobType'  BY DEF IInv, TypeOK
<1>2. PICK touched :
        /\ Rows(j) \subseteq touched /\ \A d \in touched : received[d] > 0
        /\ MayLoosen(touched) /\ MayDrift(touched)
        /\ \A c \in Coils \ touched :
              /\ opening[j][c] = 0 /\ opening'[j][c] = 0
              /\ reserved'[c] = reserved[c] /\ remaining'[c] = remaining[c]
              /\ drawn'[j][c] = drawn[j][c] /\ tail'[j][c] = tail[j][c]
              /\ consumed'[j][c] = 0
              /\ finishLogged'[c] = finishLogged[c] /\ finishNet'[c] = finishNet[c]
  BY CorrectAside
<1>3. /\ status[j] = "Completed"
      /\ UNCHANGED <<received, parent, ancillary, confirmed, status>>
      /\ \E x, y, z : /\ opening' = [opening EXCEPT ![j] = x]
                      /\ drawn' = [drawn EXCEPT ![j] = y]
                      /\ tail' = [tail EXCEPT ![j] = z]
      /\ finishNet' = net
      /\ finishLogged' = [d \in Coils |-> finishLogged[d] \/ d \in Relogged(j) \cup cleared]
  BY Zenon DEF Correct, register
<1>4. \A i \in Jobs \ {j} : opening'[i] = opening[i] /\ drawn'[i] = drawn[i] /\ tail'[i] = tail[i]
  BY <1>1, <1>3 DEF JobType
<1>5. StaysBare
  <2> SUFFICES ASSUME NEW d \in Coils, received[d] = 0, Bare(d) PROVE Bare(d)'
    BY DEF StaysBare
  <2>1. d \notin touched  BY <1>2
  <2> QED  BY <1>2, <1>3, <1>4, <2>1 DEF Bare
<1>6. \A i \in Jobs : status'[i] = "none" =>
         status[i] = "none" /\ \A e \in Coils : opening'[i][e] = opening[i][e]
  BY <1>3, <1>4
<1>7. \A e \in Coils : finishLogged'[e] \/ (~finishLogged[e] /\ finishNet'[e] = finishNet[e])
  <2> HIDE DEF cleared, left
  <2>1. \A e \in Coils : e \notin Relogged(j) \cup cleared => finishNet'[e] = finishNet[e]
    BY <1>1, <1>3 DEF LedgerType, NetBack
  <2>2. \A e \in Coils : finishLogged'[e] = (finishLogged[e] \/ e \in Relogged(j) \cup cleared)
    BY <1>3
  <2> QED  BY <2>1, <2>2, Zenon
<1> QED  BY <1>3, <1>5, <1>6, <1>7, RegisterKept

LEMMA ForceRecallRegister ==
  ASSUME IInv, RegisterOK, NEW j \in Jobs, ForceRecall(j)
  PROVE  RegisterOK'
<1>1. CoilType /\ LedgerType /\ JobType  BY DEF IInv, TypeOK
<1>2. /\ status' = [status EXCEPT ![j] = "gone"]
      /\ opening' = [opening EXCEPT ![j] = [c \in Coils |-> 0]]
      /\ tail' = [tail EXCEPT ![j] = TailBack(j)]
      /\ finishLogged' = [c \in Coils |-> finishLogged[c] \/ c \in Relogged(j)]
      /\ finishNet' = NetBack(j)
      /\ UNCHANGED <<received, parent, ancillary, confirmed>>
  BY Zenon DEF ForceRecall, RowsDeleted, register
<1>3. PICK given :
        /\ \E done : given = GivenBack(BackOn(j), DrawnBack(j), done)
        /\ remaining' = [c \in Coils |-> BackOn(j)[c] + given[c]]
        /\ drawn' = [drawn EXCEPT ![j] = [c \in Coils |-> DrawnBack(j)[c] - given[c]]]
  BY Zenon DEF ForceRecall
<1>4. \A i \in Jobs \ {j} : opening'[i] = opening[i] /\ drawn'[i] = drawn[i] /\ tail'[i] = tail[i]
  BY <1>1, <1>2, <1>3 DEF JobType
<1>5. StaysBare
  <2> SUFFICES ASSUME NEW d \in Coils, Bare(d) PROVE Bare(d)'
    BY DEF StaysBare
  <2>1. d \notin Undone(j) /\ d \notin Relogged(j)  BY DEF Bare, Undone, Rows, Relogged
  <2>2. BackOn(j)[d] = 0 /\ DrawnBack(j)[d] = 0 /\ TailBack(j)[d] = 0
    BY <1>1, <2>1 DEF Bare, BackOn, DrawnBack, TailBack, JobType
  <2>3. given[d] = 0
    <3>1. \A x \in {0} : Clamp(x) = 0 /\ Least(0, Clamp(received[d] - x)) = 0
      BY <1>1 DEF Clamp, Least, CoilType
    <3>2. PICK done : given = GivenBack(BackOn(j), DrawnBack(j), done)  BY <1>3
    <3> QED  BY <2>2, <3>1, <3>2 DEF GivenBack
  <2>4. remaining'[d] = 0 /\ drawn'[j][d] = 0
    BY <1>1, <1>3, <2>2, <2>3 DEF JobType
  <2>5. opening'[j][d] = 0 /\ tail'[j][d] = 0  BY <1>1, <1>2, <2>2 DEF JobType
  <2>6. finishLogged'[d] = FALSE  BY <1>2, <2>1 DEF Bare
  <2> QED  BY <1>2, <1>4, <2>4, <2>5, <2>6 DEF Bare
<1>6. \A i \in Jobs : status'[i] = "none" =>
         status[i] = "none" /\ \A e \in Coils : opening'[i][e] = opening[i][e]
  BY <1>1, <1>2, <1>4 DEF JobType
<1>7. \A e \in Coils : finishLogged'[e] \/ (~finishLogged[e] /\ finishNet'[e] = finishNet[e])
  <2>1. \A e \in Coils : e \notin Relogged(j) => finishNet'[e] = finishNet[e]
    BY <1>1, <1>2 DEF LedgerType, NetBack
  <2>2. \A e \in Coils : finishLogged'[e] = (finishLogged[e] \/ e \in Relogged(j))
    BY <1>2
  <2> QED  BY <2>1, <2>2, Zenon
<1> QED  BY <1>2, <1>5, <1>6, <1>7, RegisterKept

LEMMA DeleteListRegister ==
  ASSUME IInv, RegisterOK, NEW j \in Jobs, DeleteList(j)
  PROVE  RegisterOK'
<1>1. CoilType /\ LedgerType /\ JobType  BY DEF IInv, TypeOK
<1>2. /\ status' = [status EXCEPT ![j] = "gone"]
      /\ UNCHANGED <<received, parent, ancillary, finishLogged, finishNet, confirmed>>
      /\ opening' = [opening EXCEPT ![j] = [c \in Coils |-> 0]]
      /\ tail' = tail
      /\ status[j] # "none"
  BY Zenon DEF DeleteList, RowsDeleted, register, ledger
<1>3. PICK given :
        /\ \E done : given = GivenBack(remaining, drawn[j], done)
        /\ remaining' = [c \in Coils |-> remaining[c] + given[c]]
        /\ drawn' = [drawn EXCEPT ![j] = [c \in Coils |-> drawn[j][c] - given[c]]]
  BY <1>1, Zenon DEF DeleteList, JobType
<1>4. StaysBare
  <2> SUFFICES ASSUME NEW d \in Coils, Bare(d) PROVE Bare(d)'
    BY DEF StaysBare
  <2>1. given[d] = 0
    <3>1. \A x \in {0} : Clamp(x) = 0 /\ Least(0, Clamp(received[d] - x)) = 0
      BY <1>1 DEF Clamp, Least, CoilType
    <3>2. PICK done : given = GivenBack(remaining, drawn[j], done)  BY <1>3
    <3> QED  BY <3>1, <3>2 DEF GivenBack, Bare
  <2>2. /\ remaining'[d] = 0
        /\ \A i \in Jobs : drawn'[i][d] = 0 /\ opening'[i][d] = 0
    BY <1>1, <1>2, <1>3, <2>1 DEF Bare, JobType
  <2> QED  BY <1>2, <2>2 DEF Bare
<1>5. \A i \in Jobs : status'[i] = "none" =>
         status[i] = "none" /\ \A e \in Coils : opening'[i][e] = opening[i][e]
  BY <1>1, <1>2 DEF JobType
<1>6. \A e \in Coils : finishLogged'[e] \/ (~finishLogged[e] /\ finishNet'[e] = finishNet[e])
  BY <1>1, <1>2 DEF LedgerType
<1> QED  BY <1>2, <1>4, <1>5, <1>6, RegisterKept

\* Register postings are on coils with kg on hand or received.
LEMMA PostingRegister ==
  ASSUME IInv, RegisterOK, NEW c \in Coils,
         \/ \E kg \in Kg : Scrap(c, kg) \/ Gain(c, kg)
         \/ \E kg \in 1..TailMax : UndoFinish(c, kg)
         \/ \E confirm \in BOOLEAN : FinishRoll(c, confirm)
  PROVE  RegisterOK'
<1>1. CoilType /\ LedgerType /\ JobType /\ ReservedFits  BY DEF IInv, TypeOK
<1>2. /\ UNCHANGED <<received, parent, opening, drawn, tail, status>>
      /\ \E x : remaining' = [remaining EXCEPT ![c] = x]
      /\ \E x : ancillary' = [ancillary EXCEPT ![c] = x] \/ UNCHANGED ancillary
      /\ \E x : confirmed' = [confirmed EXCEPT ![c] = x] \/ UNCHANGED confirmed
      /\ \/ UNCHANGED <<finishLogged, finishNet>>
         \/ /\ finishLogged' = [finishLogged EXCEPT ![c] = TRUE]
            /\ \E x : finishNet' = [finishNet EXCEPT ![c] = x]
  BY Zenon DEF Scrap, Gain, UndoFinish, FinishRoll, register, rows
<1>3. received[c] > 0 \/ remaining[c] > 0
  <2>1. CASE \E kg \in Kg : Scrap(c, kg)
    <3>1. PICK kg \in Kg : kg \in 1..(remaining[c] - reserved[c])
      BY <2>1, Zenon DEF Scrap
    <3> QED  BY <1>1, <3>1 DEF CoilType
  <2>2. CASE received[c] > 0 \/ remaining[c] > 0  BY <2>2
  <2> QED  BY <2>1, <2>2, Zenon DEF Gain, UndoFinish, FinishRoll
<1>4. StaysBare
  <2> SUFFICES ASSUME NEW d \in Coils, received[d] = 0, Bare(d) PROVE Bare(d)'
    BY DEF StaysBare
  <2>1. d # c  BY <1>3 DEF Bare
  <2>2. remaining'[d] = remaining[d]  BY <1>1, <1>2, <2>1 DEF CoilType
  <2>3. /\ ancillary'[d] = ancillary[d] /\ confirmed'[d] = confirmed[d]
        /\ finishLogged'[d] = finishLogged[d]
    BY <1>1, <1>2, <2>1 DEF LedgerType
  <2> QED  BY <1>2, <2>2, <2>3 DEF Bare
<1>5. \A e \in Coils : finishLogged'[e] \/ (~finishLogged[e] /\ finishNet'[e] = finishNet[e])
  <2>1. CASE UNCHANGED <<finishLogged, finishNet>>  BY <1>1, <2>1 DEF LedgerType
  <2>2. CASE /\ finishLogged' = [finishLogged EXCEPT ![c] = TRUE]
             /\ \E x : finishNet' = [finishNet EXCEPT ![c] = x]
    BY <1>1, <2>2 DEF LedgerType
  <2> QED  BY <1>2, <2>1, <2>2
<1> QED  BY <1>2, <1>4, <1>5, RegisterKept

LEMMA ScrapReservedRegister ==
  ASSUME IInv, RegisterOK, NEW c \in Coils, NEW kg \in Kg, NEW j \in Jobs,
         ScrapReserved(c, kg, j)
  PROVE  RegisterOK'
<1>1. CoilType /\ LedgerType /\ JobType /\ ReservedFits  BY DEF IInv, TypeOK
<1>2. /\ UNCHANGED <<received, parent, finishLogged, finishNet, confirmed>>
      /\ UNCHANGED <<drawn, tail, status>>
      /\ remaining[c] - kg \in 0..(reserved[c] - 1)
      /\ \E x : remaining' = [remaining EXCEPT ![c] = x]
      /\ \E x : ancillary' = [ancillary EXCEPT ![c] = x]
  BY Zenon DEF ScrapReserved, register
<1>3. PICK next \in [Jobs -> 0..MaxKg] :
        /\ \A i \in Jobs : IF status[i] \in OpenStatuses
                           THEN next[i] <= opening[i][c] ELSE next[i] = opening[i][c]
        /\ opening' = [i \in Jobs |-> [opening[i] EXCEPT ![c] = next[i]]]
  BY Zenon DEF ScrapReserved
<1>4. remaining[c] > 0
  <2>1. kg \in Nat  BY CoilAssumption DEF Kg
  <2> QED  BY <1>1, <1>2, <2>1 DEF CoilType, ReservedFits
<1>5. StaysBare
  <2> SUFFICES ASSUME NEW d \in Coils, received[d] = 0, Bare(d) PROVE Bare(d)'
    BY DEF StaysBare
  <2>1. d # c  BY <1>4 DEF Bare
  <2>2. remaining'[d] = remaining[d]  BY <1>1, <1>2, <2>1 DEF CoilType
  <2>3. ancillary'[d] = ancillary[d]  BY <1>1, <1>2, <2>1 DEF LedgerType
  <2>4. \A i \in Jobs : opening'[i][d] = opening[i][d]  BY <1>1, <1>3, <2>1 DEF JobType
  <2> QED  BY <1>2, <2>2, <2>3, <2>4 DEF Bare
<1>6. \A i \in Jobs : status'[i] = "none" =>
         status[i] = "none" /\ \A e \in Coils : opening'[i][e] = opening[i][e]
  <2> SUFFICES ASSUME NEW i \in Jobs, status[i] = "none", NEW e \in Coils
               PROVE  opening'[i][e] = opening[i][e]
    BY <1>2
  <2>1. next[i] = opening[i][c]  BY <1>3 DEF OpenStatuses
  <2> QED  BY <1>1, <1>3, <2>1 DEF JobType
<1>7. \A e \in Coils : finishLogged'[e] \/ (~finishLogged[e] /\ finishNet'[e] = finishNet[e])
  BY <1>1, <1>2 DEF LedgerType
<1> QED  BY <1>2, <1>5, <1>6, <1>7, RegisterKept

LEMMA SplitRegister ==
  ASSUME IInv, RegisterOK, NEW c \in Coils, NEW d \in Coils, NEW kg \in Kg, Split(c, d, kg)
  PROVE  RegisterOK'
<1>1. CoilType /\ LedgerType /\ JobType  BY DEF IInv, TypeOK
<1>2. /\ received[c] > 0 /\ received[d] = 0 /\ kg \in Nat /\ kg > 0
      /\ received' = [received EXCEPT ![d] = kg]
      /\ remaining' = [remaining EXCEPT ![c] = @ - kg, ![d] = kg]
      /\ parent' = [parent EXCEPT ![d] = c]
      /\ UNCHANGED <<ancillary, finishLogged, finishNet, confirmed>>
      /\ UNCHANGED <<opening, drawn, tail, status>>
  <2>1. kg \in Nat /\ kg > 0  BY CoilAssumption DEF Kg
  <2> QED  BY <2>1, Zenon DEF Split, ledger, rows
<1>3. ASSUME NEW e \in Coils, received'[e] = 0 PROVE Unregistered(e)'
  <2>1. e # d /\ received[e] = 0  BY <1>1, <1>2, <1>3 DEF CoilType
  <2>2. e # c /\ Unregistered(e)  BY <1>2, <2>1 DEF RegisterOK
  <2>3. remaining'[e] = remaining[e]  BY <1>1, <1>2, <2>1, <2>2 DEF CoilType
  <2>4. \A x \in Coils : parent'[x] # e
    BY <1>1, <1>2, <2>2 DEF CoilType, Unregistered
  <2> QED  BY <1>2, <2>2, <2>3, <2>4 DEF Unregistered
<1>4. \A e \in Coils : ~finishLogged'[e] => finishNet'[e] = 0  BY <1>2 DEF RegisterOK
<1>5. \A j \in Jobs : status'[j] = "none" => Rows(j)' = {}  BY <1>2 DEF RegisterOK, Rows
<1> QED  BY <1>3, <1>4, <1>5 DEF RegisterOK

\* The kg on hand a recalculation of the register leaves.
LEMMA RecalculateCoilLeaves ==
  ASSUME NEW c \in Coils, RecalculateCoil(c)
  PROVE  \E book, held :
            /\ remaining' = [remaining EXCEPT ![c] =
                  IF book \in held..(remaining[c] + GivenKg(c))
                  THEN book ELSE remaining[c] + GivenKg(c)]
            /\ held = reserved[c] \/
               (held = OpenKg(c) /\ OpenKg(c) \in 0..(remaining[c] + GivenKg(c)))
            /\ book = Expected(c)'
<1> DEFINE holders == {j \in Jobs : c \in Rows(j)}
           heldOf(on, book) ==
             IF holders # {} /\ ~(book # on /\ book < reserved[c]) /\ OpenKg(c) \in 0..on
             THEN OpenKg(c) ELSE reserved[c]
<1>1. \E on \in {remaining[c] + GivenKg(c)}, book \in {Expected(c)'} :
        remaining' = [remaining EXCEPT ![c] = IF book \in heldOf(on, book)..on THEN book ELSE on]
  BY ZenonT(40) DEF RecalculateCoil
<1>2. PICK on \in {remaining[c] + GivenKg(c)}, book \in {Expected(c)'} :
        remaining' = [remaining EXCEPT ![c] = IF book \in heldOf(on, book)..on THEN book ELSE on]
  BY <1>1, Zenon
<1>3. heldOf(on, book) = reserved[c] \/ (heldOf(on, book) = OpenKg(c) /\ OpenKg(c) \in 0..on)
  BY Zenon
<1>4. on = remaining[c] + GivenKg(c) /\ book = Expected(c)'  OBVIOUS
<1> HIDE DEF heldOf
<1> QED  BY <1>2, <1>3, <1>4, Zenon

\* A restore gives nothing back to a coil that was never received.
LEMMA RestoreRegister ==
  ASSUME IInv, RegisterOK, NEW c \in Coils,
         ShowHolders(c) \/ RestoreDies(c) \/ RecalculateCoil(c)
  PROVE  RegisterOK'
<1>1. CoilType /\ LedgerType /\ JobType /\ ReservedFits /\ GivenKg(c) \in Nat
  BY GivenKgNat DEF IInv, TypeOK
<1>2. /\ UNCHANGED <<received, parent, ancillary, finishLogged, finishNet>>
      /\ UNCHANGED <<opening, tail, status>>
  BY Zenon DEF ShowHolders, RestoreDies, RecalculateCoil, register
<1>3. PICK conf \in 0..GivenKg(c), given \in [Jobs -> 0..GivenKg(c)] :
        Posted(c, given, conf)
  BY Zenon DEF ShowHolders, RestoreDies, RecalculateCoil, Restore
<1>4. PICK on : remaining' = [remaining EXCEPT ![c] = on]
  BY Zenon DEF ShowHolders, RestoreDies, RecalculateCoil
<1>5. ASSUME received[c] = 0 PROVE GivenKg(c) = 0 /\ ~RestoreDies(c)
  <2>1. remaining[c] = 0  BY <1>5 DEF RegisterOK, Unregistered
  <2>2. GivenKg(c) = 0  BY <1>1, <1>5, <2>1, GivenKgNat DEF CoilType
  <2>3. 1..GivenKg(c) = {}  BY <2>2
  <2> QED  BY <2>2, <2>3, Zenon DEF RestoreDies
<1>6. ASSUME received[c] = 0, Bare(c) PROVE remaining'[c] = 0
  <2>1. GivenKg(c) = 0 /\ remaining[c] = 0 /\ ~RestoreDies(c)  BY <1>5, <1>6 DEF Bare
  <2>2. CASE ShowHolders(c)
    <3>1. remaining' = [remaining EXCEPT ![c] = @ + GivenKg(c)]
      BY <2>2, Zenon DEF ShowHolders
    <3> QED  BY <1>1, <2>1, <3>1 DEF CoilType
  <2>3. CASE RecalculateCoil(c)
    <3>1. reserved[c] = 0  BY <1>1, <2>1 DEF CoilType, ReservedFits
    <3>2. PICK book, held : /\ remaining' = [remaining EXCEPT ![c] =
                                 IF book \in held..(remaining[c] + GivenKg(c))
                                 THEN book ELSE remaining[c] + GivenKg(c)]
                            /\ held = reserved[c] \/
                               (held = OpenKg(c) /\ OpenKg(c) \in 0..(remaining[c] + GivenKg(c)))
      BY <2>3, RecalculateCoilLeaves
    <3>3. held = 0  BY <2>1, <3>1, <3>2
    <3> QED  BY <1>1, <2>1, <3>2, <3>3 DEF CoilType
  <2> QED  BY <2>1, <2>2, <2>3
<1>7. StaysBare
  <2> SUFFICES ASSUME NEW d \in Coils, received[d] = 0, Bare(d) PROVE Bare(d)'
    BY DEF StaysBare
  <2>1. CASE d # c
    <3>1. remaining'[d] = remaining[d]  BY <1>1, <1>4, <2>1 DEF CoilType
    <3>2. /\ \A i \in Jobs : drawn'[i][d] = drawn[i][d]
          /\ confirmed'[d] = confirmed[d]
      BY <1>1, <1>3, <2>1 DEF JobType, LedgerType, Posted
    <3> QED  BY <1>2, <3>1, <3>2 DEF Bare
  <2>2. CASE d = c
    <3>1. conf = 0 /\ \A i \in Jobs : given[i] = 0
      <4>1. \A x \in 0..GivenKg(c) : x = 0  BY <1>5, <2>2
      <4> QED  BY <4>1
    <3>2. remaining'[d] = 0  BY <1>6, <2>2
    <3>3. /\ \A i \in Jobs : drawn'[i][d] = drawn[i][d]
          /\ confirmed'[d] = confirmed[d]
      BY <1>1, <1>3, <2>2, <3>1 DEF JobType, LedgerType, Posted
    <3> QED  BY <1>2, <3>2, <3>3 DEF Bare
  <2> QED  BY <2>1, <2>2
<1>8. \A e \in Coils : finishLogged'[e] \/ (~finishLogged[e] /\ finishNet'[e] = finishNet[e])
  BY <1>1, <1>2 DEF LedgerType
<1> QED  BY <1>2, <1>7, <1>8, RegisterKept

\* A correction of the kg received leaves a received coil received.
LEMMA PatchReceivedRegister ==
  ASSUME IInv, RegisterOK, NEW c \in Coils, NEW rk, NEW on, PatchReceived(c, rk, on)
  PROVE  RegisterOK'
<1>1. CoilType /\ LedgerType  BY DEF IInv, TypeOK
<1>2. /\ received[c] > 0 /\ rk > 0
      /\ received' = [received EXCEPT ![c] = rk]
      /\ remaining' = [remaining EXCEPT ![c] = on]
      /\ \E x : ancillary' = [ancillary EXCEPT ![c] = x]
      /\ UNCHANGED <<parent, finishLogged, finishNet, confirmed>>
      /\ UNCHANGED <<opening, drawn, tail, status>>
  BY Zenon DEF PatchReceived, rows
<1>3. ASSUME NEW d \in Coils, received'[d] = 0 PROVE Unregistered(d)'
  <2>1. d # c /\ received[d] = 0
    BY <1>1, <1>2, <1>3 DEF CoilType
  <2>2. Unregistered(d)  BY <2>1 DEF RegisterOK
  <2>3. remaining'[d] = remaining[d] /\ ancillary'[d] = ancillary[d]
    BY <1>1, <1>2, <2>1 DEF CoilType, LedgerType
  <2> QED  BY <1>2, <2>2, <2>3 DEF Unregistered
<1> QED  BY <1>2, <1>3 DEF RegisterOK, Rows

LEMMA QuietStep ==
  ASSUME RegisterOK,
         UNCHANGED <<received, parent, ancillary, finishLogged, finishNet, confirmed>>,
         UNCHANGED <<remaining, drawn, tail, opening, status>>
  PROVE  RegisterOK'
  BY DEF RegisterOK, Unregistered, Rows

LEMMA StepRegister ==
  ASSUME IInv, IInv', RegisterOK, [Next]_vars PROVE RegisterOK'
<1>1. ASSUME NEW j \in Jobs, PlanningStep(j) PROVE RegisterOK'
  <2>1. CASE \/ Register(j) \/ Start(j) \/ ReturnToPlanned(j)
             \/ \E next \in {"Planned"} \cup Texts : PatchStatus(j, next)
             \/ \E next \in {"Cancelled", "Returned"} : Unwind(j, next)
             \/ \E extra \in SUBSET (Coils \ Rows(j)) : RecalculateJob(j, extra)
    <3>1. /\ UNCHANGED <<received, parent, ancillary, finishLogged, finishNet, confirmed>>
          /\ UNCHANGED <<remaining, drawn, tail>>
          /\ \/ UNCHANGED opening
             \/ opening' = [opening EXCEPT ![j] = [c \in Coils |-> 0]]
      BY <2>1, Zenon DEF Register, Start, ReturnToPlanned, PatchStatus, Unwind, RowsDeleted,
                         RecalculateJob, register, ledger, rows, stock
    <3>2. \/ UNCHANGED status
          \/ \E st \in Statuses \ {"none"} : status' = [status EXCEPT ![j] = st]
      BY <2>1 DEF Register, Start, ReturnToPlanned, PatchStatus, Unwind, RecalculateJob,
                  Statuses, Texts, OpenStatuses, ClosedStatuses
    <3>3. opening' # opening => status[j] # "none"
      BY <2>1 DEF Register, Start, ReturnToPlanned, PatchStatus, Unwind, RecalculateJob,
                  rows, OpenStatuses
    <3> QED  BY <3>1, <3>2, <3>3, QuietRegister
  <2>2. CASE \E want \in [Coils -> 0..MaxKg] : SaveAllocations(j, want)
    BY <2>2, SaveAllocationsRegister
  <2>3. CASE \E c \in Coils, kg \in Kg : AppendCoil(j, c, kg)
    BY <2>3, RunningRowsRegister
  <2>4. CASE \E c, d \in Coils : RunLog(j, c, d)
    BY <2>4, RunningRowsRegister
  <2> QED  BY <1>1, <2>1, <2>2, <2>3, <2>4, Zenon DEF PlanningStep
<1>2. ASSUME NEW j \in Jobs, CompletionStep(j) PROVE RegisterOK'
  <2>1. CASE CompleteWithoutCoil(j)
    <3>1. /\ UNCHANGED <<received, parent, ancillary, finishLogged, finishNet, confirmed>>
          /\ UNCHANGED <<remaining, drawn, tail, opening>>
      BY <2>1, Zenon DEF CompleteWithoutCoil, register, ledger
    <3>2. \E st \in Statuses \ {"none"} : status' = [status EXCEPT ![j] = st]
      BY <2>1 DEF CompleteWithoutCoil, Statuses
    <3> QED  BY <3>1, <3>2, QuietRegister
  <2> QED  BY <1>2, <2>1, CompleteRegister, CorrectRegister, ForceRecallRegister,
              DeleteListRegister, Zenon DEF CompletionStep
<1>3. ASSUME NEW c \in Coils, RegisterStep(c) PROVE RegisterOK'
  <2>1. CASE ReconcileReservation(c)
    <3>1. UNCHANGED <<received, parent, ancillary, finishLogged, finishNet, confirmed>>
      BY <2>1, Zenon DEF ReconcileReservation, register, ledger
    <3>2. UNCHANGED <<remaining, drawn, tail, opening, status>>
      BY <2>1, Zenon DEF ReconcileReservation, rows
    <3> QED  BY <3>1, <3>2, QuietStep
  <2> QED  BY <1>3, <2>1, PostingRegister, ScrapReservedRegister, SplitRegister,
              PatchReceivedRegister, RestoreRegister, Zenon DEF RegisterStep, ReturnToStock
<1>4. CASE RunDeferred \/ Crash \/ UNCHANGED vars
  <2>1. UNCHANGED <<received, parent, ancillary, finishLogged, finishNet, confirmed>>
    BY <1>4, Zenon DEF RunDeferred, Crash, vars, register, ledger
  <2>2. UNCHANGED <<remaining, drawn, tail, opening, status>>
    BY <1>4, Zenon DEF RunDeferred, Crash, vars, rows, stock
  <2> QED  BY <2>1, <2>2, QuietStep
<1> QED  BY <1>1, <1>2, <1>3, <1>4, Zenon DEF Next

-----------------------------------------------------------------------------
(* The book of a coil.                                                       *)

\* The kg of all jobs drawn from a coil.
DrawnKg(c) == SumFunctionOnSet(Drawn(c), Jobs)

\* The book of a coil whose movements cover its rows.
LEMMA BookIs ==
  TypeOK => \A c \in Coils :
     /\ DrawnKg(c) \in Int /\ SplitOut(c) \in Int /\ FinishTail(c) \in Nat
     /\ Covered(c) => Book(c) = received[c] - (DrawnKg(c) + confirmed[c]) - SplitOut(c)
                                + ancillary[c] - FinishTail(c)
<1> SUFFICES ASSUME TypeOK, NEW c \in Coils
             PROVE  /\ DrawnKg(c) \in Int /\ SplitOut(c) \in Int /\ FinishTail(c) \in Nat
                    /\ Covered(c) => Book(c) = received[c] - (DrawnKg(c) + confirmed[c])
                                               - SplitOut(c) + ancillary[c] - FinishTail(c)
  OBVIOUS
<1>1. CoilType /\ LedgerType /\ JobType  BY DEF TypeOK
<1>2. DrawnKg(c) \in Int
  <2>1. \A j \in Jobs : Drawn(c)[j] \in Int  BY <1>1 DEF Drawn, JobType
  <2> QED  BY <2>1, SumInt, CoilAssumption DEF DrawnKg
<1>3. SplitOut(c) \in Int
  <2>1. \A d \in Coils : SplitFrom(c)[d] \in Int  BY <1>1 DEF SplitFrom, CoilType
  <2>2. SumFunctionOnSet(SplitFrom(c), Coils) \in Int  BY <2>1, SumInt, CoilAssumption
  <2> QED  BY <1>1, <2>2, SplitAsSum
<1>4. FinishTail(c) \in Nat
  <2>1. CASE finishLogged[c]  BY <1>1, <2>1, ClampNat DEF FinishTail, LedgerType
  <2>2. CASE ~finishLogged[c]  BY <1>1, <2>2, TailsAsSum
  <2> QED  BY <2>1, <2>2
<1>5. ASSUME Covered(c) PROVE JobsConsumed(c) = DrawnKg(c) + confirmed[c]
  BY <1>1, <1>5, ConsumedIsDrawn DEF DrawnKg
<1> QED  BY <1>2, <1>3, <1>4, <1>5 DEF Book

LEMMA BookIsNext ==
  (TypeOK => \A c \in Coils :
     /\ DrawnKg(c) \in Int /\ SplitOut(c) \in Int /\ FinishTail(c) \in Nat
     /\ Covered(c) => Book(c) = received[c] - (DrawnKg(c) + confirmed[c]) - SplitOut(c)
                                + ancillary[c] - FinishTail(c))'
  BY BookIs, PTL

\* The book of a coil moves by what the step posts.
LEMMA BookMoves ==
  ASSUME IInv, IInv', NEW c \in Coils, Covered(c), Covered(c)', remaining[c] = Book(c),
         NEW taken \in Int, NEW cleared \in Int, NEW cut \in Int,
         DrawnKg(c)' = DrawnKg(c) + taken,
         FinishTail(c)' = FinishTail(c) + cleared,
         SplitOut(c)' = SplitOut(c) + cut
  PROVE  Book(c)' = remaining[c] + (received'[c] - received[c]) - taken
                    - (confirmed'[c] - confirmed[c]) - cut
                    + (ancillary'[c] - ancillary[c]) - cleared
<1>1. CoilType /\ LedgerType /\ CoilType' /\ LedgerType' /\ TypeOK /\ TypeOK'
  BY DEF IInv, TypeOK
<1>2. /\ received[c] \in Nat /\ received'[c] \in Nat
      /\ confirmed[c] \in Nat /\ confirmed'[c] \in Nat
      /\ ancillary[c] \in Int /\ ancillary'[c] \in Int
  BY <1>1 DEF CoilType, LedgerType
<1>3. /\ DrawnKg(c) \in Int /\ SplitOut(c) \in Int /\ FinishTail(c) \in Nat
      /\ Book(c) = received[c] - (DrawnKg(c) + confirmed[c]) - SplitOut(c)
                   + ancillary[c] - FinishTail(c)
  BY <1>1, BookIs
<1>4. Book(c)' = received'[c] - (DrawnKg(c)' + confirmed'[c]) - SplitOut(c)'
                 + ancillary'[c] - FinishTail(c)'
  BY <1>1, BookIsNext
<1> QED  BY <1>2, <1>3, <1>4

\* Only the coils a step names may come off the book.
KeepsBook(cs) ==
    \A c \in Coils \ cs : remaining[c] = Book(c) /\ Covered(c) =>
                          remaining'[c] = Book(c)' /\ Covered(c)'

LEMMA BookKept ==
  ASSUME BookExact, MovementsCover, NEW cs, KeepsBook(cs),
         MayDrift(cs) \/ (cs = {} /\ drifted' = drifted)
  PROVE  BookExact' /\ MovementsCover'
<1>1. ASSUME NEW c \in Coils, c \notin drifted' PROVE remaining'[c] = Book(c)' /\ Covered(c)'
  <2>1. CASE MayDrift(cs)
    <3>1. c \notin drifted /\ (c \in cs => remaining'[c] = Book(c)' /\ Covered(c)')
      BY <1>1, <2>1 DEF MayDrift
    <3>2. CASE c \in cs  BY <3>1, <3>2
    <3>3. CASE c \notin cs  BY <3>1, <3>3 DEF BookExact, MovementsCover, KeepsBook
    <3> QED  BY <3>2, <3>3
  <2>2. CASE cs = {} /\ drifted' = drifted
    BY <1>1, <2>2 DEF BookExact, MovementsCover, KeepsBook
  <2> QED  BY <2>1, <2>2
<1> QED  BY <1>1 DEF BookExact, MovementsCover

\* A step about one job draws from a coil what that job's movements show.
LEMMA DrawnChange ==
  ASSUME JobType, JobType', NEW j \in Jobs, NEW c \in Coils,
         \A i \in Jobs \ {j} : drawn'[i][c] = drawn[i][c]
  PROVE  DrawnKg(c)' = DrawnKg(c) + (drawn'[j][c] - drawn[j][c])
<1>1. PICK f, g : f = Drawn(c) /\ g = Drawn(c)'
  OBVIOUS
<1>2. \A i \in Jobs : f[i] = drawn[i][c] /\ g[i] = drawn'[i][c]
  BY <1>1 DEF Drawn
<1>3. \A i \in Jobs : f[i] \in Int /\ g[i] \in Int  BY <1>2 DEF JobType
<1>4. \A i \in Jobs \ {j} : f[i] = g[i]  BY <1>2
<1>5. SumFunctionOnSet(g, Jobs) = SumFunctionOnSet(f, Jobs) - f[j] + g[j]
  BY <1>3, <1>4, SumChange, CoilAssumption
<1>6. SumFunctionOnSet(f, Jobs) \in Int  BY <1>3, SumInt, CoilAssumption
<1>7. f[j] = drawn[j][c] /\ g[j] = drawn'[j][c] /\ f[j] \in Int /\ g[j] \in Int
  BY <1>2, <1>3
<1>8. DrawnKg(c) = SumFunctionOnSet(f, Jobs) /\ DrawnKg(c)' = SumFunctionOnSet(g, Jobs)
  BY <1>1 DEF DrawnKg
<1> QED  BY <1>5, <1>6, <1>7, <1>8

\* And clears the tails of that job, where no control event hides them.
LEMMA TailChange ==
  ASSUME JobType, JobType', NEW j \in Jobs, NEW c \in Coils,
         ~finishLogged[c], ~finishLogged'[c],
         \A i \in Jobs \ {j} : tail'[i][c] = tail[i][c]
  PROVE  FinishTail(c)' = FinishTail(c) + (tail'[j][c] - tail[j][c])
<1>1. PICK f, g : f = Tails(c) /\ g = Tails(c)'
  OBVIOUS
<1>2. \A i \in Jobs : f[i] = tail[i][c] /\ g[i] = tail'[i][c]
  BY <1>1 DEF Tails
<1>3. \A i \in Jobs : f[i] \in Int /\ g[i] \in Int  BY <1>2 DEF JobType
<1>4. \A i \in Jobs \ {j} : f[i] = g[i]  BY <1>2
<1>5. SumFunctionOnSet(g, Jobs) = SumFunctionOnSet(f, Jobs) - f[j] + g[j]
  BY <1>3, <1>4, SumChange, CoilAssumption
<1>6. SumFunctionOnSet(f, Jobs) \in Int  BY <1>3, SumInt, CoilAssumption
<1>7. f[j] = tail[j][c] /\ g[j] = tail'[j][c] /\ f[j] \in Int /\ g[j] \in Int
  BY <1>2, <1>3
<1>8. FinishTail(c) = SumFunctionOnSet(f, Jobs)  BY <1>1, TailsAsSum
<1>9. FinishTail(c)' = SumFunctionOnSet(g, Jobs)  BY <1>1, TailsAsSumNext
<1> QED  BY <1>5, <1>6, <1>7, <1>8, <1>9

\* Nothing finished or split off changes.
LEMMA FinishSame ==
  ASSUME NEW c \in Coils, finishLogged'[c] = finishLogged[c], finishNet'[c] = finishNet[c],
         \A j \in Jobs : tail'[j][c] = tail[j][c]
  PROVE  FinishTail(c)' = FinishTail(c)
<1>1. [j \in Jobs |-> tail[j][c]]' = [j \in Jobs |-> tail[j][c]]  OBVIOUS
<1> QED  BY <1>1 DEF FinishTail

LEMMA SplitSame ==
  ASSUME UNCHANGED <<received, parent>>, NEW c
  PROVE  SplitOut(c)' = SplitOut(c)
  BY DEF SplitOut

LEMMA DrawnSame ==
  ASSUME NEW c \in Coils, \A j \in Jobs : drawn'[j][c] = drawn[j][c]
  PROVE  DrawnKg(c)' = DrawnKg(c)
<1>1. Drawn(c)' = Drawn(c)  BY DEF Drawn
<1> QED  BY <1>1 DEF DrawnKg

\* One job's movements on a coil change, and nothing else its book is made of.
LEMMA JobMoves ==
  ASSUME IInv, IInv', NEW j \in Jobs, NEW c \in Coils,
         Covered(c), Covered(c)', remaining[c] = Book(c),
         UNCHANGED <<received, parent, ancillary, confirmed>>,
         finishLogged'[c] = finishLogged[c], finishNet'[c] = finishNet[c],
         \A i \in Jobs \ {j} : drawn'[i][c] = drawn[i][c] /\ tail'[i][c] = tail[i][c],
         tail'[j][c] = tail[j][c] \/ ~finishLogged[c]
  PROVE  Book(c)' = remaining[c] - (drawn'[j][c] - drawn[j][c]) - (tail'[j][c] - tail[j][c])
<1>1. /\ JobType /\ JobType' /\ LedgerType /\ LedgerType' /\ CoilType /\ CoilType'
      /\ TypeOK /\ TypeOK'
  BY DEF IInv, TypeOK
<1>2. /\ drawn[j][c] \in Int /\ drawn'[j][c] \in Int /\ tail[j][c] \in Nat /\ tail'[j][c] \in Nat
  BY <1>1 DEF JobType
<1>3. /\ received[c] \in Nat /\ confirmed[c] \in Nat /\ ancillary[c] \in Int
      /\ remaining[c] \in Nat
  BY <1>1 DEF CoilType, LedgerType
<1> DEFINE taken == drawn'[j][c] - drawn[j][c]
           cleared == tail'[j][c] - tail[j][c]
<1>4. taken \in Int /\ cleared \in Int  BY <1>2
<1>5. DrawnKg(c)' = DrawnKg(c) + taken  BY <1>1, DrawnChange
<1>6. SplitOut(c)' = SplitOut(c) + 0
  BY <1>1, SplitSame, BookIs
<1>7. FinishTail(c)' = FinishTail(c) + cleared
  <2>1. CASE tail'[j][c] = tail[j][c]
    <3>1. FinishTail(c)' = FinishTail(c)  BY <2>1, FinishSame
    <3>2. FinishTail(c) \in Nat  BY <1>1, BookIs
    <3>3. cleared = 0  BY <1>2, <2>1
    <3> QED  BY <3>1, <3>2, <3>3
  <2>2. CASE ~finishLogged[c]
    <3>1. ~finishLogged'[c]  BY <2>2
    <3> QED  BY <1>1, <2>2, <3>1, TailChange
  <2> QED  BY <2>1, <2>2
<1> HIDE DEF taken, cleared
<1>8. 0 \in Int  OBVIOUS
<1>9. Book(c)' = remaining[c] + (received'[c] - received[c]) - taken
                 - (confirmed'[c] - confirmed[c]) - 0
                 + (ancillary'[c] - ancillary[c]) - cleared
  BY <1>4, <1>5, <1>6, <1>7, <1>8, BookMoves
<1>10. Book(c)' = remaining[c] - taken - cleared  BY <1>3, <1>4, <1>9
<1> QED  BY <1>10 DEF taken, cleared

\* Handlers that post nothing and show no more consumed.
LEMMA QuietBook ==
  ASSUME IInv, IInv',
         UNCHANGED <<received, parent, ancillary, finishLogged, finishNet, confirmed>>,
         UNCHANGED <<remaining, drawn, tail>>,
         \A j \in Jobs, c \in Coils : status'[j] = "Completed" =>
            \/ consumed'[j][c] = 0
            \/ status[j] = "Completed" /\ consumed'[j][c] = consumed[j][c]
  PROVE  KeepsBook({})
<1>1. /\ JobType /\ JobType' /\ LedgerType /\ LedgerType' /\ CoilType /\ CoilType'
      /\ TypeOK /\ TypeOK'
  BY DEF IInv, TypeOK
<1>2. ASSUME NEW c \in Coils, remaining[c] = Book(c), Covered(c)
      PROVE  remaining'[c] = Book(c)' /\ Covered(c)'
  <2>1. Covered(c)'  BY <1>1, <1>2 DEF Covered, JobType
  <2>2. DrawnKg(c)' = DrawnKg(c)  BY DrawnSame
  <2>3. FinishTail(c)' = FinishTail(c)  BY FinishSame
  <2>4. SplitOut(c)' = SplitOut(c)  BY SplitSame
  <2>5. Book(c) = received[c] - (DrawnKg(c) + confirmed[c]) - SplitOut(c)
                  + ancillary[c] - FinishTail(c)
    BY <1>1, <1>2, BookIs
  <2>6. Book(c)' = received'[c] - (DrawnKg(c)' + confirmed'[c]) - SplitOut(c)'
                   + ancillary'[c] - FinishTail(c)'
    BY <1>1, <2>1, BookIsNext
  <2>7. Book(c)' = Book(c)  BY <2>2, <2>3, <2>4, <2>5, <2>6
  <2> QED  BY <1>2, <2>1, <2>7
<1> QED  BY <1>2 DEF KeepsBook

\* The kg posted on a coil are posted on its ledger too.
LEMMA AncillaryBook ==
  ASSUME IInv, IInv', NEW c \in Coils, NEW kg \in Int,
         remaining' = [remaining EXCEPT ![c] = @ + kg],
         ancillary' = [ancillary EXCEPT ![c] = @ + kg],
         UNCHANGED <<received, parent, finishLogged, finishNet, confirmed>>,
         UNCHANGED <<consumed, drawn, tail, status>>
  PROVE  KeepsBook({})
<1>1. /\ JobType /\ JobType' /\ LedgerType /\ LedgerType' /\ CoilType /\ CoilType'
      /\ TypeOK /\ TypeOK'
  BY DEF IInv, TypeOK
<1>2. ASSUME NEW d \in Coils, remaining[d] = Book(d), Covered(d)
      PROVE  remaining'[d] = Book(d)' /\ Covered(d)'
  <2>1. Covered(d)'  BY <1>2 DEF Covered
  <2>2. DrawnKg(d)' = DrawnKg(d)  BY DrawnSame
  <2>3. FinishTail(d)' = FinishTail(d)  BY FinishSame
  <2>4. SplitOut(d)' = SplitOut(d)  BY SplitSame
  <2>5. /\ Book(d) = received[d] - (DrawnKg(d) + confirmed[d]) - SplitOut(d)
                     + ancillary[d] - FinishTail(d)
        /\ DrawnKg(d) \in Int /\ SplitOut(d) \in Int /\ FinishTail(d) \in Nat
    BY <1>1, <1>2, BookIs
  <2>6. Book(d)' = received'[d] - (DrawnKg(d)' + confirmed'[d]) - SplitOut(d)'
                   + ancillary'[d] - FinishTail(d)'
    BY <1>1, <2>1, BookIsNext
  <2>7. received[d] \in Nat /\ confirmed[d] \in Nat /\ ancillary[d] \in Int
    BY <1>1 DEF CoilType, LedgerType
  <2>8. Book(d)' = Book(d) + (ancillary'[d] - ancillary[d])
    <3>1. ancillary'[d] \in Int  BY <1>1 DEF LedgerType
    <3> QED  BY <2>2, <2>3, <2>4, <2>5, <2>6, <2>7, <3>1
  <2>9. \/ d = c /\ remaining'[d] = remaining[d] + kg /\ ancillary'[d] = ancillary[d] + kg
        \/ remaining'[d] = remaining[d] /\ ancillary'[d] = ancillary[d]
    BY <1>1 DEF CoilType, LedgerType
  <2>10. Book(d) \in Int  BY <2>5, <2>7
  <2> QED  BY <1>2, <2>1, <2>7, <2>8, <2>9, <2>10
<1> QED  BY <1>2 DEF KeepsBook

LEMMA ScrapGainBook ==
  ASSUME IInv, IInv', NEW c \in Coils, NEW kg \in Kg,
         \/ Scrap(c, kg) \/ Gain(c, kg) \/ \E j \in Jobs : ScrapReserved(c, kg, j)
  PROVE  KeepsBook({})
<1>1. CoilType /\ LedgerType /\ kg \in Int  BY CoilAssumption DEF IInv, TypeOK, Kg
<1>2. /\ UNCHANGED <<received, parent, finishLogged, finishNet, confirmed>>
      /\ UNCHANGED <<consumed, drawn, tail, status>>
  BY Zenon DEF Scrap, Gain, ScrapReserved, register, rows
<1>3. PICK k \in {kg, -kg} : /\ remaining' = [remaining EXCEPT ![c] = @ + k]
                            /\ ancillary' = [ancillary EXCEPT ![c] = @ + k]
  <2>1. CASE Gain(c, kg)  BY <2>1, Zenon DEF Gain
  <2>2. CASE Scrap(c, kg) \/ \E j \in Jobs : ScrapReserved(c, kg, j)
    <3>1. /\ remaining' = [remaining EXCEPT ![c] = @ - kg]
          /\ ancillary' = [ancillary EXCEPT ![c] = @ - kg]
      BY <2>2, Zenon DEF Scrap, ScrapReserved
    <3>2. \A x \in Int : x - kg = x + (-kg)  BY <1>1
    <3> QED  BY <1>1, <3>1, <3>2 DEF CoilType, LedgerType
  <2> QED  BY <2>1, <2>2
<1>4. k \in Int  BY <1>1
<1> QED  BY <1>2, <1>3, <1>4, AncillaryBook

\* A new coil starts with the kg cut from its parent, on both books.
LEMMA SplitBook ==
  ASSUME IInv, IInv', RegisterOK, NEW c \in Coils, NEW d \in Coils, NEW kg \in Kg,
         Split(c, d, kg)
  PROVE  KeepsBook({})
<1>1. /\ JobType /\ LedgerType /\ CoilType /\ CoilType' /\ TypeOK  BY DEF IInv, TypeOK
<1>2. /\ received[c] > 0 /\ received[d] = 0 /\ kg \in Nat /\ kg > 0 /\ c # d
      /\ received' = [received EXCEPT ![d] = kg]
      /\ remaining' = [remaining EXCEPT ![c] = @ - kg, ![d] = kg]
      /\ parent' = [parent EXCEPT ![d] = c]
      /\ UNCHANGED <<ancillary, finishLogged, finishNet, confirmed>>
      /\ UNCHANGED <<consumed, drawn, tail, status>>
  <2>1. kg \in Nat /\ kg > 0  BY CoilAssumption DEF Kg
  <2>2. received[c] > 0 /\ received[d] = 0  BY Zenon DEF Split
  <2>3. c # d  BY <2>2
  <2> QED  BY <2>1, <2>2, <2>3, Zenon DEF Split, ledger, rows
<1>3. remaining[d] = 0 /\ \A e \in Coils : parent[e] # d
  BY <1>2 DEF RegisterOK, Unregistered
<1>4. ASSUME NEW e \in Coils, remaining[e] = Book(e), Covered(e)
      PROVE  remaining'[e] = Book(e)' /\ Covered(e)'
  <2> DEFINE cut == IF e = c THEN kg ELSE 0
  <2>1. cut \in Int  BY <1>2
  <2>2. SplitOut(e)' = SplitOut(e) + cut
    <3>1. PICK f, g : f = SplitFrom(e) /\ g = SplitFrom(e)'
      OBVIOUS
    <3>2. \A x \in Coils : /\ f[x] = IF parent[x] = e THEN received[x] ELSE 0
                           /\ g[x] = IF parent'[x] = e THEN received'[x] ELSE 0
      BY <3>1 DEF SplitFrom
    <3>3. \A x \in Coils : f[x] \in Int /\ g[x] \in Int  BY <1>1, <3>2 DEF CoilType
    <3>4. \A x \in Coils \ {d} : f[x] = g[x]  BY <1>1, <1>2, <3>2 DEF CoilType
    <3>5. f[d] = 0 /\ g[d] = cut
      <4>1. parent'[d] = c /\ received'[d] = kg  BY <1>1, <1>2 DEF CoilType
      <4> QED  BY <1>2, <3>2, <4>1
    <3> HIDE DEF cut
    <3>6. SumFunctionOnSet(g, Coils) = SumFunctionOnSet(f, Coils) - f[d] + g[d]
      BY <3>3, <3>4, SumChange, CoilAssumption
    <3>7. SumFunctionOnSet(f, Coils) \in Int  BY <3>3, SumInt, CoilAssumption
    <3>8. SplitOut(e) = SumFunctionOnSet(f, Coils)  BY <1>1, <3>1, SplitAsSum
    <3>9. SplitOut(e)' = SumFunctionOnSet(g, Coils)  BY <1>1, <3>1, SplitAsSumNext
    <3> QED  BY <2>1, <3>5, <3>6, <3>7, <3>8, <3>9
  <2>3. Covered(e)'  BY <1>2, <1>4 DEF Covered
  <2>4. DrawnKg(e)' = DrawnKg(e) + 0
    <3>1. DrawnKg(e)' = DrawnKg(e)  BY <1>2, DrawnSame
    <3>2. DrawnKg(e) \in Int  BY <1>1, BookIs
    <3> QED  BY <3>1, <3>2
  <2>5. FinishTail(e)' = FinishTail(e) + 0
    <3>1. FinishTail(e)' = FinishTail(e)  BY <1>2, FinishSame
    <3>2. FinishTail(e) \in Nat  BY <1>1, BookIs
    <3> QED  BY <3>1, <3>2
  <2> HIDE DEF cut
  <2>6. 0 \in Int  OBVIOUS
  <2>7. Book(e)' = remaining[e] + (received'[e] - received[e]) - 0
                   - (confirmed'[e] - confirmed[e]) - cut
                   + (ancillary'[e] - ancillary[e]) - 0
    BY <1>4, <2>1, <2>2, <2>3, <2>4, <2>5, <2>6, BookMoves
  <2>8. Book(e)' = remaining[e] + (received'[e] - received[e]) - cut
    BY <1>1, <1>2, <2>1, <2>7 DEF CoilType, LedgerType
  <2>9. remaining'[e] = remaining[e] + (received'[e] - received[e]) - cut
    BY <1>1, <1>2, <1>3 DEF CoilType, cut
  <2> QED  BY <2>3, <2>8, <2>9
<1> QED  BY <1>4 DEF KeepsBook

\* The kg a roll finish clears, or an undo puts back, are what the events net.
LEMMA FinishBook ==
  ASSUME IInv, IInv', RegisterOK, NEW c \in Coils,
         NEW cs, NEW kg \in Int,
         c \notin cs => FinishTail(c)' = FinishTail(c) + kg /\ confirmed'[c] = confirmed[c],
         remaining'[c] = remaining[c] - kg,
         \A d \in Coils \ {c} : /\ remaining'[d] = remaining[d]
                                /\ finishLogged'[d] = finishLogged[d]
                                /\ finishNet'[d] = finishNet[d]
                                /\ confirmed'[d] = confirmed[d],
         UNCHANGED <<received, parent, ancillary, consumed, drawn, tail, status>>
  PROVE  KeepsBook(cs)
<1>1. /\ JobType /\ LedgerType /\ CoilType /\ CoilType' /\ TypeOK  BY DEF IInv, TypeOK
<1>2. ASSUME NEW e \in Coils, e \notin cs, remaining[e] = Book(e), Covered(e)
      PROVE  remaining'[e] = Book(e)' /\ Covered(e)'
  <2> DEFINE cleared == IF e = c THEN kg ELSE 0
  <2>1. cleared \in Int  OBVIOUS
  <2>2. FinishTail(e)' = FinishTail(e) + cleared
    <3>1. CASE e = c  BY <1>2, <3>1
    <3>2. CASE e # c
      <4>1. FinishTail(e)' = FinishTail(e)  BY <3>2, FinishSame
      <4>2. FinishTail(e) \in Nat  BY <1>1, BookIs
      <4> QED  BY <3>2, <4>1, <4>2
    <3> QED  BY <3>1, <3>2
  <2>3. confirmed'[e] = confirmed[e] /\ confirmed[e] \in Nat
    BY <1>1, <1>2 DEF LedgerType
  <2>4. Covered(e)'  BY <1>2 DEF Covered
  <2>5. DrawnKg(e)' = DrawnKg(e) + 0
    <3>1. DrawnKg(e)' = DrawnKg(e)  BY DrawnSame
    <3>2. DrawnKg(e) \in Int  BY <1>1, BookIs
    <3> QED  BY <3>1, <3>2
  <2>6. SplitOut(e)' = SplitOut(e) + 0
    BY <1>1, SplitSame, BookIs
  <2>7. remaining'[e] = remaining[e] - cleared  BY <1>1 DEF CoilType
  <2> HIDE DEF cleared
  <2>8. 0 \in Int  OBVIOUS
  <2>9. Book(e)' = remaining[e] + (received'[e] - received[e]) - 0
                   - (confirmed'[e] - confirmed[e]) - 0
                   + (ancillary'[e] - ancillary[e]) - cleared
    BY <1>2, <2>1, <2>2, <2>4, <2>5, <2>6, <2>8, BookMoves
  <2>10. Book(e)' = remaining[e] - cleared
    BY <1>1, <2>1, <2>3, <2>9 DEF CoilType, LedgerType
  <2> QED  BY <2>4, <2>7, <2>10
<1> QED  BY <1>2 DEF KeepsBook

LEMMA FinishRollBook ==
  ASSUME IInv, IInv', RegisterOK, NEW c \in Coils, NEW confirm \in BOOLEAN,
         FinishRoll(c, confirm)
  PROVE  \E cs : MayDrift(cs) /\ KeepsBook(cs)
<1> DEFINE cs == IF confirm \/ OtherTails(c) \/ finishNet[c] < 0 THEN {c} ELSE {}
<1>1. /\ JobType /\ LedgerType /\ LedgerType' /\ CoilType /\ TypeOK  BY DEF IInv, TypeOK
<1>2. /\ remaining[c] > 0
      /\ remaining' = [remaining EXCEPT ![c] = 0]
      /\ finishLogged' = [finishLogged EXCEPT ![c] = TRUE]
      /\ finishNet' = [finishNet EXCEPT ![c] = @ + remaining[c]]
      /\ confirmed' = [confirmed EXCEPT ![c] = @ + IF confirm THEN remaining[c] ELSE 0]
      /\ UNCHANGED <<received, parent, ancillary, consumed, drawn, tail, status>>
      /\ MayDrift(cs)
  BY Zenon DEF FinishRoll, register, rows
<1>3. remaining[c] \in Nat  BY <1>1 DEF CoilType
<1>4. \A d \in Coils \ {c} : /\ remaining'[d] = remaining[d]
                             /\ finishLogged'[d] = finishLogged[d]
                             /\ finishNet'[d] = finishNet[d]
                             /\ confirmed'[d] = confirmed[d]
  BY <1>1, <1>2 DEF LedgerType, CoilType
<1>5. ASSUME c \notin cs
      PROVE  /\ FinishTail(c)' = FinishTail(c) + remaining[c]
             /\ confirmed'[c] = confirmed[c]
  <2>1. ~confirm /\ ~OtherTails(c) /\ finishNet[c] \in Nat
    <3>1. finishNet[c] \in Int  BY <1>1 DEF LedgerType
    <3> QED  BY <1>5, <3>1
  <2>2. confirmed'[c] = confirmed[c]  BY <1>1, <1>2, <2>1 DEF LedgerType
  <2>3. FinishTail(c)' = finishNet[c] + remaining[c]
    <3>1. finishLogged'[c] /\ finishNet'[c] = finishNet[c] + remaining[c]
      BY <1>1, <1>2 DEF LedgerType
    <3> QED  BY <1>3, <2>1, <3>1 DEF FinishTail, Clamp
  <2>4. FinishTail(c) = finishNet[c]
    <3>1. CASE finishLogged[c]  BY <2>1, <3>1 DEF FinishTail, Clamp
    <3>2. CASE ~finishLogged[c]
      <4>1. finishNet[c] = 0  BY <3>2 DEF RegisterOK
      <4>2. \A i \in Jobs : tail[i][c] = 0  BY <1>1, <2>1, <3>2 DEF OtherTails, JobType
      <4>3. \A i \in Jobs : Tails(c)[i] = 0  BY <4>2 DEF Tails
      <4>4. SumFunctionOnSet(Tails(c), Jobs) = 0  BY <4>3, SumZero, CoilAssumption
      <4> QED  BY <1>1, <3>2, <4>1, <4>4, TailsAsSum
    <3> QED  BY <3>1, <3>2
  <2> QED  BY <2>2, <2>3, <2>4
<1>6. remaining'[c] = remaining[c] - remaining[c]  BY <1>1, <1>2, <1>3 DEF CoilType
<1>7. remaining[c] \in Int  BY <1>3
<1> HIDE DEF cs
<1>8. PICK kg \in Int : kg = remaining[c]  BY <1>7
<1>9. KeepsBook(cs)
  <2>1. remaining'[c] = remaining[c] - kg  BY <1>6, <1>8
  <2>2. c \notin cs => FinishTail(c)' = FinishTail(c) + kg /\ confirmed'[c] = confirmed[c]
    BY <1>5, <1>8
  <2> QED  BY <1>2, <1>4, <2>1, <2>2, FinishBook
<1> QED  BY <1>2, <1>9

LEMMA UndoFinishBook ==
  ASSUME IInv, IInv', RegisterOK, NEW c \in Coils, NEW kg \in 1..TailMax, UndoFinish(c, kg)
  PROVE  \E cs : MayDrift(cs) /\ KeepsBook(cs)
<1> DEFINE cs == IF kg = FinishTail(c) THEN {} ELSE {c}
<1>1. /\ JobType /\ LedgerType /\ LedgerType' /\ CoilType /\ TypeOK  BY DEF IInv, TypeOK
<1>2. /\ remaining' = [remaining EXCEPT ![c] = @ + kg]
      /\ finishLogged' = [finishLogged EXCEPT ![c] = TRUE]
      /\ finishNet' = [finishNet EXCEPT ![c] = @ - kg]
      /\ UNCHANGED <<received, parent, ancillary, confirmed, consumed, drawn, tail, status>>
      /\ MayDrift(cs)
  BY Zenon DEF UndoFinish, register, rows
<1>3. kg \in Nat /\ kg > 0  BY CoilAssumption
<1>4. \A d \in Coils \ {c} : /\ remaining'[d] = remaining[d]
                             /\ finishLogged'[d] = finishLogged[d]
                             /\ finishNet'[d] = finishNet[d]
                             /\ confirmed'[d] = confirmed[d]
  BY <1>1, <1>2 DEF LedgerType, CoilType
<1>5. ASSUME c \notin cs PROVE FinishTail(c)' = FinishTail(c) + (-kg)
  <2>1. kg = FinishTail(c)  BY <1>5
  <2>2. finishLogged'[c] /\ finishNet'[c] = finishNet[c] - kg /\ finishNet[c] \in Int
    BY <1>1, <1>2 DEF LedgerType
  <2>3. finishNet[c] - kg \notin Nat \/ finishNet[c] - kg = 0
    <3>1. CASE finishLogged[c]  BY <1>3, <2>1, <2>2, <3>1 DEF FinishTail, Clamp
    <3>2. CASE ~finishLogged[c]
      <4>1. finishNet[c] = 0  BY <3>2 DEF RegisterOK
      <4> QED  BY <1>3, <4>1
    <3> QED  BY <3>1, <3>2
  <2>4. FinishTail(c)' = 0  BY <2>2, <2>3 DEF FinishTail, Clamp
  <2> QED  BY <1>3, <2>1, <2>4
<1>6. PICK back \in Int : back = -kg  BY <1>3
<1>7. remaining'[c] = remaining[c] - back
  BY <1>1, <1>2, <1>3, <1>6 DEF CoilType
<1> HIDE DEF cs
<1>8. c \notin cs => FinishTail(c)' = FinishTail(c) + back /\ confirmed'[c] = confirmed[c]
  BY <1>2, <1>5, <1>6
<1>9. KeepsBook(cs)  BY <1>2, <1>4, <1>7, <1>8, FinishBook
<1> QED  BY <1>2, <1>9

\* What a restore posts, it takes off the movements of deleted jobs and of
\* confirmations; the book of the coil rises by as much.
LEMMA PostedMoves ==
  ASSUME IInv, IInv', NEW c \in Coils, NEW kg \in Nat, NEW conf \in Nat,
         NEW given, given \in [Jobs -> Nat],
         \A j \in Jobs : given[j] <= Owed(j, c),
         conf <= confirmed[c], SumFunction(given) + conf = kg,
         Posted(c, given, conf),
         UNCHANGED <<received, parent, ancillary, finishLogged, finishNet>>,
         UNCHANGED <<consumed, tail, status>>
  PROVE  /\ \A d \in Coils \ {c} :
               remaining'[d] = remaining[d] /\ remaining[d] = Book(d) /\ Covered(d) =>
               remaining'[d] = Book(d)' /\ Covered(d)'
         /\ remaining[c] = Book(c) /\ Covered(c) =>
               Book(c)' = remaining[c] + kg /\ Covered(c)'
<1>1. /\ JobType /\ JobType' /\ LedgerType /\ CoilType /\ TypeOK /\ TypeOK'
  BY DEF IInv, TypeOK
<1>2. /\ \A j \in Jobs : drawn'[j][c] = drawn[j][c] - given[j]
      /\ confirmed'[c] = confirmed[c] - conf
  BY PostedType
<1>3. \A j \in Jobs : given[j] \in Nat  OBVIOUS
<1>4. PICK drew : drew = SumFunctionOnSet(given, Jobs)  OBVIOUS
<1>5. drew \in Nat /\ drew + conf = kg
  <2>1. drew \in Nat  BY <1>3, <1>4, SumNat, CoilAssumption
  <2>2. SumFunction(given) = drew  BY <1>4 DEF SumFunction
  <2> QED  BY <2>1, <2>2
<1>6. DrawnKg(c)' = DrawnKg(c) + (-drew)
  <2>1. PICK f, h : f = Drawn(c) /\ h = Drawn(c)'
    OBVIOUS
  <2>2. \A j \in Jobs : f[j] = drawn[j][c] /\ h[j] = drawn'[j][c]  BY <2>1 DEF Drawn
  <2>3. \A j \in Jobs : f[j] \in Int /\ h[j] \in Int /\ given[j] \in Int /\ f[j] = h[j] + given[j]
    BY <1>1, <1>2, <1>3, <2>2 DEF JobType
  <2>4. SumFunctionOnSet(f, Jobs) = SumFunctionOnSet(h, Jobs) + SumFunctionOnSet(given, Jobs)
    BY <2>3, SumPlus, CoilAssumption
  <2>5. SumFunctionOnSet(h, Jobs) \in Int  BY <2>3, SumInt, CoilAssumption
  <2>6. DrawnKg(c) = SumFunctionOnSet(f, Jobs) /\ DrawnKg(c)' = SumFunctionOnSet(h, Jobs)
    BY <2>1 DEF DrawnKg
  <2> QED  BY <1>4, <1>5, <2>4, <2>5, <2>6
<1>7. ASSUME remaining[c] = Book(c), Covered(c)
      PROVE  Book(c)' = remaining[c] + kg /\ Covered(c)'
  <2>1. ASSUME NEW j \in Jobs
        PROVE  drawn'[j][c] >= IF status'[j] = "Completed" THEN consumed'[j][c] ELSE 0
    <3>1. /\ drawn[j][c] \in Int /\ given[j] \in Nat /\ consumed[j][c] \in Nat
          /\ drawn[j][c] >= IF status[j] = "Completed" THEN consumed[j][c] ELSE 0
      BY <1>1, <1>3, <1>7 DEF JobType, Covered
    <3>2. given[j] <= IF status[j] = "gone" THEN Clamp(drawn[j][c]) ELSE 0
      BY DEF Owed
    <3>3. CASE status[j] = "gone"  BY <1>2, <3>1, <3>2, <3>3 DEF Clamp
    <3>4. CASE status[j] # "gone"  BY <1>2, <3>1, <3>2, <3>4
    <3> QED  BY <3>3, <3>4
  <2>2. Covered(c)'  BY <2>1 DEF Covered
  <2>3. FinishTail(c)' = FinishTail(c) + 0
    <3>1. FinishTail(c)' = FinishTail(c)  BY FinishSame
    <3>2. FinishTail(c) \in Nat  BY <1>1, BookIs
    <3> QED  BY <3>1, <3>2
  <2>4. SplitOut(c)' = SplitOut(c) + 0  BY <1>1, SplitSame, BookIs
  <2>5. PICK taken \in Int : taken = -drew  BY <1>5
  <2>6. 0 \in Int  OBVIOUS
  <2>7. DrawnKg(c)' = DrawnKg(c) + taken  BY <1>6, <2>5
  <2>8. Book(c)' = remaining[c] + (received'[c] - received[c]) - taken
                   - (confirmed'[c] - confirmed[c]) - 0
                   + (ancillary'[c] - ancillary[c]) - 0
    BY <1>7, <2>2, <2>3, <2>4, <2>6, <2>7, BookMoves
  <2>9. Book(c)' = remaining[c] + kg
    BY <1>1, <1>2, <1>5, <2>5, <2>8 DEF CoilType, LedgerType
  <2> QED  BY <2>2, <2>9
<1>8. ASSUME NEW d \in Coils, d # c, remaining'[d] = remaining[d], remaining[d] = Book(d),
             Covered(d)
      PROVE  remaining'[d] = Book(d)' /\ Covered(d)'
  <2>1. /\ \A j \in Jobs : drawn'[j][d] = drawn[j][d]
        /\ confirmed'[d] = confirmed[d]
    BY <1>1, <1>8 DEF JobType, LedgerType, Posted
  <2>2. Covered(d)'  BY <1>8, <2>1 DEF Covered
  <2>3. /\ DrawnKg(d)' = DrawnKg(d) /\ FinishTail(d)' = FinishTail(d)
        /\ SplitOut(d)' = SplitOut(d)
    BY <2>1, DrawnSame, FinishSame, SplitSame
  <2>4. Book(d) = received[d] - (DrawnKg(d) + confirmed[d]) - SplitOut(d)
                  + ancillary[d] - FinishTail(d)
    BY <1>1, <1>8, BookIs
  <2>5. Book(d)' = received'[d] - (DrawnKg(d)' + confirmed'[d]) - SplitOut(d)'
                   + ancillary'[d] - FinishTail(d)'
    BY <1>1, <2>2, BookIsNext
  <2>6. Book(d)' = Book(d)  BY <2>1, <2>3, <2>4, <2>5
  <2> QED  BY <1>8, <2>2, <2>6
<1> QED  BY <1>7, <1>8

LEMMA RestoreMoves ==
  ASSUME IInv, IInv', NEW c \in Coils, NEW conf \in 0..GivenKg(c),
         NEW given \in [Jobs -> 0..GivenKg(c)], Restore(c, given, conf),
         UNCHANGED <<received, parent, ancillary, finishLogged, finishNet>>,
         UNCHANGED <<consumed, tail, status>>
  PROVE  /\ GivenKg(c) \in Nat
         /\ \A d \in Coils \ {c} :
               remaining'[d] = remaining[d] /\ remaining[d] = Book(d) /\ Covered(d) =>
               remaining'[d] = Book(d)' /\ Covered(d)'
         /\ remaining[c] = Book(c) /\ Covered(c) =>
               Book(c)' = remaining[c] + GivenKg(c) /\ Covered(c)'
<1>1. GivenKg(c) \in Nat  BY GivenKgNat
<1>2. conf \in Nat /\ given \in [Jobs -> Nat]  BY <1>1
<1>3. PICK kg \in Nat : kg = GivenKg(c)  BY <1>1
<1>4. /\ \A j \in Jobs : given[j] <= Owed(j, c)
      /\ conf <= confirmed[c] /\ SumFunction(given) + conf = kg
      /\ Posted(c, given, conf)
  BY <1>3 DEF Restore
<1> QED  BY <1>2, <1>3, <1>4, PostedMoves

LEMMA ShowHoldersBook ==
  ASSUME IInv, IInv', NEW c \in Coils, ShowHolders(c)
  PROVE  KeepsBook({})
<1>1. CoilType  BY DEF IInv, TypeOK
<1>2. /\ UNCHANGED <<received, parent, ancillary, finishLogged, finishNet>>
      /\ UNCHANGED <<consumed, tail, status>>
      /\ remaining' = [remaining EXCEPT ![c] = @ + GivenKg(c)]
  BY Zenon DEF ShowHolders, register
<1>3. PICK conf \in 0..GivenKg(c), given \in [Jobs -> 0..GivenKg(c)] : Restore(c, given, conf)
  BY Zenon DEF ShowHolders
<1>4. /\ \A d \in Coils \ {c} :
            remaining'[d] = remaining[d] /\ remaining[d] = Book(d) /\ Covered(d) =>
            remaining'[d] = Book(d)' /\ Covered(d)'
      /\ remaining[c] = Book(c) /\ Covered(c) =>
            Book(c)' = remaining[c] + GivenKg(c) /\ Covered(c)'
  BY <1>2, <1>3, RestoreMoves
<1>5. /\ remaining'[c] = remaining[c] + GivenKg(c)
      /\ \A d \in Coils \ {c} : remaining'[d] = remaining[d]
  BY <1>1, <1>2 DEF CoilType
<1> QED  BY <1>4, <1>5 DEF KeepsBook

\* Where the book is right, the recalculation leaves the kg the restore gave.
LEMMA RecalculateCoilBook ==
  ASSUME IInv, IInv', NEW c \in Coils, RecalculateCoil(c)
  PROVE  KeepsBook({})
<1>1. CoilType  BY DEF IInv, TypeOK
<1>2. /\ UNCHANGED <<received, parent, ancillary, finishLogged, finishNet>>
      /\ UNCHANGED <<consumed, tail, status>>
  BY Zenon DEF RecalculateCoil, register
<1>3. PICK conf \in 0..GivenKg(c), given \in [Jobs -> 0..GivenKg(c)] : Restore(c, given, conf)
  BY Zenon DEF RecalculateCoil
<1>4. /\ \A d \in Coils \ {c} :
            remaining'[d] = remaining[d] /\ remaining[d] = Book(d) /\ Covered(d) =>
            remaining'[d] = Book(d)' /\ Covered(d)'
      /\ remaining[c] = Book(c) /\ Covered(c) =>
            Book(c)' = remaining[c] + GivenKg(c) /\ Covered(c)'
      /\ GivenKg(c) \in Nat
  BY <1>2, <1>3, RestoreMoves
<1>5. PICK x \in {Expected(c)', remaining[c] + GivenKg(c)} :
        remaining' = [remaining EXCEPT ![c] = x]
  BY RecalculateCoilLeaves
<1>6. /\ remaining'[c] = x
      /\ \A d \in Coils \ {c} : remaining'[d] = remaining[d]
  BY <1>1, <1>5 DEF CoilType
<1>7. Book(c)' = remaining[c] + GivenKg(c) => x = remaining[c] + GivenKg(c)
  BY <1>1, <1>4, <1>5 DEF Expected, Clamp, CoilType
<1> QED  BY <1>4, <1>6, <1>7 DEF KeepsBook

\* A process that dies in a restore leaves the book of that coil off, no other.
LEMMA RestoreDiesBook ==
  ASSUME IInv, IInv', NEW c \in Coils, RestoreDies(c)
  PROVE  \E cs : MayDrift(cs) /\ KeepsBook(cs)
<1>1. CoilType /\ JobType /\ GivenKg(c) \in Nat  BY GivenKgNat DEF IInv, TypeOK
<1>2. /\ UNCHANGED <<received, parent, ancillary, finishLogged, finishNet>>
      /\ UNCHANGED <<consumed, tail, status>> /\ MayDrift({c})
      /\ \E x : remaining' = [remaining EXCEPT ![c] = x]
  BY Zenon DEF RestoreDies, register
<1>3. PICK conf \in 0..GivenKg(c), given \in [Jobs -> 0..GivenKg(c)] :
        /\ \A j \in Jobs : given[j] \in {0, Owed(j, c)}
        /\ conf <= confirmed[c] /\ Posted(c, given, conf)
  BY Zenon DEF RestoreDies
<1>4. conf \in Nat /\ given \in [Jobs -> Nat]  BY <1>1
<1>5. \A j \in Jobs : given[j] <= Owed(j, c)
  <2>1. \A j \in Jobs : Owed(j, c) \in Nat  BY <1>1, ClampNat DEF Owed, JobType
  <2> QED  BY <1>3, <2>1
<1>6. PICK kg \in Nat : SumFunction(given) + conf = kg
  <2>1. SumFunctionOnSet(given, Jobs) \in Nat  BY <1>4, SumNat, CoilAssumption
  <2>2. SumFunction(given) \in Nat  BY <1>4, <2>1 DEF SumFunction
  <2> QED  BY <1>4, <2>2
<1>7. \A d \in Coils \ {c} :
        remaining'[d] = remaining[d] /\ remaining[d] = Book(d) /\ Covered(d) =>
        remaining'[d] = Book(d)' /\ Covered(d)'
  BY <1>2, <1>3, <1>4, <1>5, <1>6, PostedMoves
<1>8. \A d \in Coils \ {c} : remaining'[d] = remaining[d]  BY <1>1, <1>2 DEF CoilType
<1>9. KeepsBook({c})  BY <1>7, <1>8 DEF KeepsBook
<1> QED  BY <1>2, <1>9

\* A correction of the kg received leaves off the book of the coil and of the
\* coil it was split from, no other.
LEMMA PatchReceivedBook ==
  ASSUME IInv, IInv', NEW c \in Coils, NEW rk, NEW on, PatchReceived(c, rk, on)
  PROVE  \E cs : MayDrift(cs) /\ KeepsBook(cs)
<1> DEFINE cs == {c} \cup {d \in Coils : parent[c] = d}
<1>1. /\ JobType /\ LedgerType /\ CoilType /\ CoilType' /\ TypeOK /\ TypeOK'
  BY DEF IInv, TypeOK
<1>2. /\ received' = [received EXCEPT ![c] = rk]
      /\ \E x : remaining' = [remaining EXCEPT ![c] = x]
      /\ \E x : ancillary' = [ancillary EXCEPT ![c] = x]
      /\ UNCHANGED <<parent, finishLogged, finishNet, confirmed>>
      /\ UNCHANGED <<consumed, drawn, tail, status>>
      /\ MayDrift(cs)
  BY Zenon DEF PatchReceived, rows
<1>3. ASSUME NEW d \in Coils, d # c, parent[c] # d, remaining[d] = Book(d), Covered(d)
      PROVE  remaining'[d] = Book(d)' /\ Covered(d)'
  <2>1. /\ remaining'[d] = remaining[d] /\ ancillary'[d] = ancillary[d]
        /\ received'[d] = received[d]
    BY <1>1, <1>2, <1>3 DEF CoilType, LedgerType
  <2>2. Covered(d)'  BY <1>2, <1>3 DEF Covered
  <2>3. DrawnKg(d)' = DrawnKg(d) /\ FinishTail(d)' = FinishTail(d)
    BY <1>2, DrawnSame, FinishSame
  <2>4. SplitOut(d)' = SplitOut(d)
    <3>1. SplitFrom(d)' = SplitFrom(d)  BY <1>1, <1>2, <1>3 DEF SplitFrom, CoilType
    <3> QED  BY <1>1, <3>1, SplitAsSum, SplitAsSumNext
  <2>5. Book(d) = received[d] - (DrawnKg(d) + confirmed[d]) - SplitOut(d)
                  + ancillary[d] - FinishTail(d)
    BY <1>1, <1>3, BookIs
  <2>6. Book(d)' = received'[d] - (DrawnKg(d)' + confirmed'[d]) - SplitOut(d)'
                   + ancillary'[d] - FinishTail(d)'
    BY <1>1, <2>2, BookIsNext
  <2>7. Book(d)' = Book(d)  BY <1>2, <2>1, <2>3, <2>4, <2>5, <2>6
  <2> QED  BY <1>3, <2>1, <2>2, <2>7
<1>4. KeepsBook(cs)  BY <1>3 DEF KeepsBook
<1> HIDE DEF cs
<1> QED  BY <1>2, <1>4

LEMMA DeleteListBook ==
  ASSUME IInv, IInv', NEW j \in Jobs, DeleteList(j)
  PROVE  KeepsBook({})
<1>1. CoilType /\ JobType /\ JobType' /\ LedgerType  BY DEF IInv, TypeOK
<1>2. /\ status' = [status EXCEPT ![j] = "gone"]
      /\ UNCHANGED <<received, parent, ancillary, finishLogged, finishNet, confirmed>>
      /\ consumed' = [consumed EXCEPT ![j] = [c \in Coils |-> 0]]
      /\ tail' = tail
  BY Zenon DEF DeleteList, RowsDeleted, register, ledger
<1>3. PICK done :
        /\ remaining' = [c \in Coils |-> remaining[c] + GivenBack(remaining, drawn[j], done)[c]]
        /\ drawn' = [drawn EXCEPT ![j] = [c \in Coils |->
              @[c] - GivenBack(remaining, drawn[j], done)[c]]]
  BY Zenon DEF DeleteList
<1>4. ASSUME NEW c \in Coils, remaining[c] = Book(c), Covered(c)
      PROVE  remaining'[c] = Book(c)' /\ Covered(c)'
  <2>1. PICK g : g = GivenBack(remaining, drawn[j], done)[c]  OBVIOUS
  <2>2. /\ drawn[j][c] \in Int /\ remaining[c] \in Nat /\ received[c] \in Nat
        /\ drawn[j][c] >= 0
    <3>1. drawn[j][c] \in Nat  BY <1>1, <1>4, ConsumedIsDrawn
    <3> QED  BY <1>1, <3>1 DEF CoilType
  <2>3. g \in 0..drawn[j][c]
    <3>1. g = IF c \in done THEN Least(Clamp(drawn[j][c]), Clamp(received[c] - remaining[c]))
              ELSE 0
      BY <2>1 DEF GivenBack
    <3> QED  BY <2>2, <3>1 DEF Least, Clamp
  <2>4. /\ remaining'[c] = remaining[c] + g
        /\ drawn'[j][c] = drawn[j][c] - g
        /\ \A i \in Jobs \ {j} : drawn'[i][c] = drawn[i][c]
    BY <1>1, <1>3, <2>1 DEF JobType
  <2>5. Covered(c)'
    <3>1. \A i \in Jobs \ {j} : status'[i] = status[i] /\ consumed'[i] = consumed[i]
      BY <1>1, <1>2 DEF JobType
    <3>2. status'[j] = "gone" /\ drawn'[j][c] >= 0  BY <1>1, <1>2, <2>2, <2>3, <2>4 DEF JobType
    <3> QED  BY <1>4, <2>4, <3>1, <3>2 DEF Covered
  <2>6. Book(c)' = remaining[c] - (drawn'[j][c] - drawn[j][c]) - (tail'[j][c] - tail[j][c])
    BY <1>2, <1>4, <2>4, <2>5, JobMoves
  <2>7. tail[j][c] \in Nat /\ tail'[j][c] = tail[j][c]  BY <1>1, <1>2 DEF JobType
  <2> QED  BY <2>2, <2>3, <2>4, <2>5, <2>6, <2>7
<1> QED  BY <1>4 DEF KeepsBook

LEMMA ForceRecallBook ==
  ASSUME IInv, IInv', NEW j \in Jobs, ForceRecall(j)
  PROVE  \E cs : MayDrift(cs) /\ KeepsBook(cs)
<1>1. CoilType /\ JobType /\ JobType' /\ LedgerType  BY DEF IInv, TypeOK
<1>2. /\ status' = [status EXCEPT ![j] = "gone"]
      /\ UNCHANGED <<received, parent, ancillary, confirmed>>
      /\ consumed' = [consumed EXCEPT ![j] = [c \in Coils |-> 0]]
      /\ tail' = [tail EXCEPT ![j] = TailBack(j)]
      /\ finishLogged' = [c \in Coils |-> finishLogged[c] \/ c \in Relogged(j)]
      /\ finishNet' = NetBack(j)
      /\ MayDrift(Undone(j))
  BY Zenon DEF ForceRecall, RowsDeleted, register
<1>3. PICK done :
        /\ remaining' = [c \in Coils |->
              BackOn(j)[c] + GivenBack(BackOn(j), DrawnBack(j), done)[c]]
        /\ drawn' = [drawn EXCEPT ![j] = [c \in Coils |->
              DrawnBack(j)[c] - GivenBack(BackOn(j), DrawnBack(j), done)[c]]]
  BY Zenon DEF ForceRecall
<1>4. ASSUME NEW c \in Coils, c \notin Undone(j), remaining[c] = Book(c), Covered(c)
      PROVE  remaining'[c] = Book(c)' /\ Covered(c)'
  <2>1. PICK g : g = GivenBack(BackOn(j), DrawnBack(j), done)[c]  OBVIOUS
  <2>2. /\ drawn[j][c] \in Int /\ remaining[c] \in Nat /\ received[c] \in Nat
        /\ drawn[j][c] >= 0
    <3>1. drawn[j][c] \in Nat  BY <1>1, <1>4, ConsumedIsDrawn
    <3> QED  BY <1>1, <3>1 DEF CoilType
  <2>3. BackOn(j)[c] = remaining[c] /\ DrawnBack(j)[c] = drawn[j][c]
    BY <1>4, <2>2 DEF BackOn, DrawnBack
  <2>4. /\ TailBack(j)[c] = tail[j][c] /\ c \notin Relogged(j)
        /\ finishNet'[c] = finishNet[c] /\ finishLogged'[c] = finishLogged[c]
    BY <1>1, <1>2, <1>4 DEF TailBack, Relogged, NetBack, LedgerType
  <2>5. g \in 0..drawn[j][c]
    <3>1. g = IF c \in done THEN Least(Clamp(drawn[j][c]), Clamp(received[c] - remaining[c]))
              ELSE 0
      BY <2>1, <2>3 DEF GivenBack
    <3> QED  BY <2>2, <3>1 DEF Least, Clamp
  <2>6. /\ remaining'[c] = remaining[c] + g
        /\ drawn'[j][c] = drawn[j][c] - g
        /\ \A i \in Jobs \ {j} : drawn'[i][c] = drawn[i][c] /\ tail'[i][c] = tail[i][c]
    BY <1>1, <1>2, <1>3, <2>1, <2>3 DEF JobType
  <2>7. Covered(c)'
    <3>1. \A i \in Jobs \ {j} : status'[i] = status[i] /\ consumed'[i] = consumed[i]
      BY <1>1, <1>2 DEF JobType
    <3>2. status'[j] = "gone" /\ drawn'[j][c] >= 0  BY <1>1, <1>2, <2>2, <2>5, <2>6 DEF JobType
    <3> QED  BY <1>4, <2>6, <3>1, <3>2 DEF Covered
  <2>8. tail[j][c] \in Nat /\ tail'[j][c] = tail[j][c]  BY <1>1, <1>2, <2>4 DEF JobType
  <2>9. Book(c)' = remaining[c] - (drawn'[j][c] - drawn[j][c]) - (tail'[j][c] - tail[j][c])
    BY <1>2, <1>4, <2>4, <2>6, <2>7, <2>8, JobMoves
  <2> QED  BY <2>2, <2>5, <2>6, <2>7, <2>8, <2>9
<1>5. KeepsBook(Undone(j))  BY <1>4 DEF KeepsBook
<1> QED  BY <1>2, <1>5

\* A completed job's rows show the kg its movements draw, coil by coil, unless
\* the screen charged another coil than the row holds.
LEMMA StraightUse ==
  ASSUME NEW j \in Jobs, NEW from \in Postings(j), NEW use, NEW c \in Rows(j), from[c] = c
  PROVE  use[CHOOSE d \in Coils : from[d] = c] = use[c]
<1>1. PICK d \in Coils : {e \in Coils : from[e] = c} = {d}  BY DEF Postings
<1>2. c \in Coils  BY DEF Rows
<1>3. \A e \in Coils : from[e] = c => e = c  BY <1>1, <1>2
<1>4. (CHOOSE e \in Coils : from[e] = c) = c  BY <1>2, <1>3
<1> QED  BY <1>4

LEMMA CompleteBook ==
  ASSUME IInv, IInv', NEW j \in Jobs, NEW from \in Postings(j),
         NEW use \in [Coils -> 0..MaxKg], NEW fin \in SUBSET Coils,
         Complete(j, from, use, fin)
  PROVE  \E cs : MayDrift(cs) /\ KeepsBook(cs)
<1> DEFINE open == [d \in Coils |-> OpeningOf(j, from, d)]
           left == [d \in Coils |-> remaining[d] - use[d]]
           cleared == [d \in Coils |-> IF d \in fin THEN left[d] ELSE 0]
           shown == [c \in Coils |->
              IF c \in Rows(j) THEN use[CHOOSE d \in Coils : from[d] = c] ELSE 0]
           off == {d \in Coils : from[d] # Straight(j)[d]}
           cs == off \cup {d \in fin : finishLogged[d]}
<1>1. CoilType /\ LedgerType /\ JobType /\ JobType'  BY DEF IInv, TypeOK
<1>2. /\ status[j] = "Running" /\ status' = [status EXCEPT ![j] = "Completed"]
      /\ \A d \in Coils : Reads(open[d], use[d]) /\ use[d] <= remaining[d]
      /\ remaining' = [d \in Coils |-> IF d \in fin THEN 0 ELSE left[d]]
      /\ consumed' = [consumed EXCEPT ![j] = shown]
      /\ UNCHANGED <<received, parent, ancillary, finishLogged, finishNet, confirmed>>
      /\ MayDrift(cs)
  BY Zenon DEF Complete, register, ledger
<1>3. /\ drawn' = [drawn EXCEPT ![j] = [d \in Coils |-> drawn[j][d] + use[d]]]
      /\ tail' = [tail EXCEPT ![j] = [d \in Coils |-> tail[j][d] + cleared[d]]]
  <2>1. /\ drawn' = [drawn EXCEPT ![j] = [d \in Coils |-> drawn[j][d] + use[d]]]
        /\ tail' = [tail EXCEPT ![j] = [d \in Coils |->
                       tail[j][d] + (IF d \in fin THEN left[d] ELSE 0)]]
    BY Zenon DEF Complete
  <2>2. [d \in Coils |-> tail[j][d] + (IF d \in fin THEN left[d] ELSE 0)]
          = [d \in Coils |-> tail[j][d] + cleared[d]]
    OBVIOUS
  <2> QED  BY <2>1, <2>2, Zenon
<1>4. ASSUME NEW c \in Coils, c \notin off, c \in fin => ~finishLogged[c],
             remaining[c] = Book(c), Covered(c)
      PROVE  remaining'[c] = Book(c)' /\ Covered(c)'
  <2>1. use[c] \in Nat /\ remaining[c] \in Nat /\ use[c] <= remaining[c]
    BY <1>1, <1>2, CoilAssumption DEF CoilType
  <2>2. left[c] \in Nat /\ left[c] = remaining[c] - use[c] /\ cleared[c] \in Nat
    BY <2>1
  <2>3. shown[c] <= use[c]
    <3>1. CASE c \in Rows(j)
      <4>1. from[c] = c  BY <1>4, <3>1 DEF Straight
      <4>2. use[CHOOSE d \in Coils : from[d] = c] = use[c]  BY <3>1, <4>1, StraightUse
      <4> QED  BY <2>1, <3>1, <4>2
    <3>2. CASE c \notin Rows(j)  BY <2>1, <3>2
    <3> QED  BY <3>1, <3>2
  <2>4. remaining'[c] = remaining[c] - use[c] - cleared[c]
    BY <1>2, <2>1, <2>2
  <2>5. cleared[c] = 0 \/ ~finishLogged[c]  BY <1>4
  <2> HIDE DEF cleared, shown, left, open, off, cs
  <2>6. /\ drawn'[j][c] = drawn[j][c] + use[c] /\ tail'[j][c] = tail[j][c] + cleared[c]
        /\ consumed'[j][c] = shown[c]
        /\ \A i \in Jobs \ {j} : /\ drawn'[i] = drawn[i] /\ tail'[i] = tail[i]
                                 /\ consumed'[i] = consumed[i] /\ status'[i] = status[i]
    BY <1>1, <1>2, <1>3 DEF JobType
  <2>7. drawn[j][c] \in Nat /\ tail[j][c] \in Nat
    BY <1>1, <1>4, ConsumedIsDrawn DEF JobType
  <2>8. shown[c] \in Nat  BY <1>1, <2>6 DEF JobType
  <2>9. Covered(c)'
    <3>1. drawn'[j][c] >= consumed'[j][c] /\ drawn'[j][c] >= 0
      BY <2>1, <2>3, <2>6, <2>7, <2>8
    <3> QED  BY <1>4, <2>6, <3>1 DEF Covered
  <2>10. tail'[j][c] = tail[j][c] \/ ~finishLogged[c]  BY <2>5, <2>6, <2>7
  <2>11. Book(c)' = remaining[c] - (drawn'[j][c] - drawn[j][c]) - (tail'[j][c] - tail[j][c])
    BY <1>2, <1>4, <2>6, <2>9, <2>10, JobMoves
  <2> QED  BY <2>1, <2>2, <2>4, <2>6, <2>7, <2>9, <2>11
<1>5. KeepsBook(cs)
  <2> HIDE DEF off
  <2> QED  BY <1>4 DEF KeepsBook
<1> QED  BY <1>2, <1>5

LEMMA CorrectBook ==
  ASSUME IInv, IInv', NEW j \in Jobs, NEW from \in Postings(j),
         NEW extra \in Coils \cup {NoCoil},
         NEW kg \in Kg, NEW use \in [Coils -> 0..MaxKg], NEW fin \in SUBSET Coils,
         NEW applied \in SUBSET Rows(j), Correct(j, from, extra, kg, use, fin, applied)
  PROVE  \E cs : MayDrift(cs) /\ KeepsBook(cs)
<1>1. CoilType /\ JobType /\ JobType' /\ LedgerType  BY DEF IInv, TypeOK
<1>2. PICK touched :
        /\ Rows(j) \subseteq touched /\ \A d \in touched : received[d] > 0
        /\ MayLoosen(touched) /\ MayDrift(touched)
        /\ \A c \in Coils \ touched :
              /\ opening[j][c] = 0 /\ opening'[j][c] = 0
              /\ reserved'[c] = reserved[c] /\ remaining'[c] = remaining[c]
              /\ drawn'[j][c] = drawn[j][c] /\ tail'[j][c] = tail[j][c]
              /\ consumed'[j][c] = 0
              /\ finishLogged'[c] = finishLogged[c] /\ finishNet'[c] = finishNet[c]
  BY CorrectAside
<1>3. UNCHANGED <<received, parent, ancillary, confirmed, status>>
  BY Zenon DEF Correct, register
<1>4. \E x, y, z : /\ consumed' = [consumed EXCEPT ![j] = x]
                   /\ drawn' = [drawn EXCEPT ![j] = y]
                   /\ tail' = [tail EXCEPT ![j] = z]
  BY Zenon DEF Correct
<1>5. \A i \in Jobs \ {j} : /\ drawn'[i] = drawn[i] /\ tail'[i] = tail[i]
                            /\ consumed'[i] = consumed[i]
  BY <1>1, <1>4 DEF JobType
<1>6. ASSUME NEW c \in Coils, c \notin touched, remaining[c] = Book(c), Covered(c)
      PROVE  remaining'[c] = Book(c)' /\ Covered(c)'
  <2>1. /\ remaining'[c] = remaining[c] /\ consumed'[j][c] = 0
        /\ drawn'[j][c] = drawn[j][c] /\ tail'[j][c] = tail[j][c]
        /\ finishLogged'[c] = finishLogged[c] /\ finishNet'[c] = finishNet[c]
    BY <1>2, <1>6
  <2>2. drawn[j][c] \in Nat /\ tail[j][c] \in Nat /\ remaining[c] \in Nat
    BY <1>1, <1>6, ConsumedIsDrawn DEF JobType, CoilType
  <2>3. Covered(c)'
    <3>1. drawn'[j][c] >= consumed'[j][c] /\ drawn'[j][c] >= 0  BY <2>1, <2>2
    <3> QED  BY <1>3, <1>5, <1>6, <3>1 DEF Covered
  <2>4. Book(c)' = remaining[c] - (drawn'[j][c] - drawn[j][c]) - (tail'[j][c] - tail[j][c])
    BY <1>3, <1>5, <1>6, <2>1, <2>3, JobMoves
  <2> QED  BY <2>1, <2>2, <2>3, <2>4
<1>7. KeepsBook(touched)  BY <1>6 DEF KeepsBook
<1> QED  BY <1>2, <1>7

\* Planning, waiting and recounting post nothing.
LEMMA PlanningBook ==
  ASSUME IInv, IInv', NEW j \in Jobs, PlanningStep(j) \/ CompleteWithoutCoil(j)
  PROVE  KeepsBook({}) /\ (MayDrift({}) \/ drifted' = drifted)
<1>1. JobType /\ JobType'  BY DEF IInv, TypeOK
<1>2. ASSUME UNCHANGED <<received, parent, ancillary, finishLogged, finishNet, confirmed>>,
             UNCHANGED <<remaining, drawn, tail>>,
             \A i \in Jobs \ {j} : status'[i] = status[i] /\ consumed'[i] = consumed[i],
             \/ status'[j] # "Completed"
             \/ \A c \in Coils : consumed'[j][c] = 0
             \/ status'[j] = status[j] /\ consumed'[j] = consumed[j],
             MayDrift({}) \/ drifted' = drifted
      PROVE  KeepsBook({}) /\ (MayDrift({}) \/ drifted' = drifted)
  <2>1. \A i \in Jobs, c \in Coils : status'[i] = "Completed" =>
            \/ consumed'[i][c] = 0
            \/ status[i] = "Completed" /\ consumed'[i][c] = consumed[i][c]
    BY <1>2
  <2> QED  BY <1>2, <2>1, QuietBook
<1>3. CASE \/ Register(j) \/ Start(j) \/ ReturnToPlanned(j)
           \/ \E next \in {"Planned"} \cup Texts : PatchStatus(j, next)
  <2>1. /\ UNCHANGED <<received, parent, ancillary, finishLogged, finishNet, confirmed>>
        /\ UNCHANGED <<remaining, drawn, tail, consumed>>
        /\ MayDrift({}) \/ drifted' = drifted
    BY <1>3, Zenon DEF Register, Start, ReturnToPlanned, PatchStatus, register, ledger, rows,
                       stock
  <2>2. /\ \A i \in Jobs \ {j} : status'[i] = status[i]
        /\ status'[j] # "Completed"
    BY <1>1, <1>3 DEF JobType, Register, Start, ReturnToPlanned, PatchStatus, Texts
  <2> QED  BY <1>2, <2>1, <2>2
<1>4. CASE \/ \E want \in [Coils -> 0..MaxKg] : SaveAllocations(j, want)
           \/ \E c \in Coils, kg \in Kg : AppendCoil(j, c, kg)
           \/ \E c, d \in Coils : RunLog(j, c, d)
  <2>1. /\ UNCHANGED <<received, parent, ancillary, finishLogged, finishNet, confirmed>>
        /\ UNCHANGED <<remaining, drawn, tail, status>>
        /\ MayDrift({})
        /\ status[j] \in OpenStatuses
    BY <1>4, Zenon DEF SaveAllocations, AppendCoil, RunLog, register, ledger, Clean,
                       OpenStatuses
  <2>2. \A i \in Jobs \ {j} : consumed'[i] = consumed[i]
    BY <1>1, <1>4 DEF JobType, SaveAllocations, AppendCoil, RunLog
  <2>3. status'[j] # "Completed"  BY <2>1 DEF OpenStatuses
  <2> QED  BY <1>2, <2>1, <2>2, <2>3
<1>5. CASE \/ \E next \in {"Cancelled", "Returned"} : Unwind(j, next)
           \/ CompleteWithoutCoil(j)
  <2>1. /\ UNCHANGED <<received, parent, ancillary, finishLogged, finishNet, confirmed>>
        /\ UNCHANGED <<remaining, drawn, tail>>
        /\ MayDrift({})
        /\ consumed' = [consumed EXCEPT ![j] = [c \in Coils |-> 0]]
        /\ \E next : status' = [status EXCEPT ![j] = next]
    BY <1>5, Zenon DEF Unwind, CompleteWithoutCoil, RowsDeleted, register, ledger, Clean
  <2>2. /\ \A i \in Jobs \ {j} : status'[i] = status[i] /\ consumed'[i] = consumed[i]
        /\ \A c \in Coils : consumed'[j][c] = 0
    BY <1>1, <2>1 DEF JobType
  <2> QED  BY <1>2, <2>1, <2>2
<1>6. CASE \E extra \in SUBSET (Coils \ Rows(j)) : RecalculateJob(j, extra)
  <2>1. /\ UNCHANGED <<received, parent, ancillary, finishLogged, finishNet, confirmed>>
        /\ UNCHANGED <<remaining, drawn, tail, consumed, status>>
        /\ MayDrift({})
    BY <1>6, Zenon DEF RecalculateJob, register, ledger, rows, Clean
  <2> QED  BY <1>2, <2>1
<1> QED  BY <1>3, <1>4, <1>5, <1>6, Zenon DEF PlanningStep

\* So do the callbacks, their crash, and a step that changes nothing.
LEMMA QuietStepBook ==
  ASSUME IInv, IInv',
         RunDeferred \/ Crash \/ UNCHANGED vars \/ \E c \in Coils : ReconcileReservation(c)
  PROVE  KeepsBook({}) /\ (MayDrift({}) \/ drifted' = drifted)
<1>1. /\ UNCHANGED <<received, parent, ancillary, finishLogged, finishNet, confirmed>>
      /\ UNCHANGED <<remaining, drawn, tail, consumed, status>>
      /\ MayDrift({}) \/ drifted' = drifted
  BY Zenon DEF RunDeferred, Crash, ReconcileReservation, vars, register, ledger, rows, stock,
               Clean
<1>2. \A i \in Jobs, c \in Coils : status'[i] = "Completed" =>
         \/ consumed'[i][c] = 0
         \/ status[i] = "Completed" /\ consumed'[i][c] = consumed[i][c]
  BY <1>1
<1> QED  BY <1>1, <1>2, QuietBook

LEMMA StepBook ==
  ASSUME IInv, IInv', RegisterOK, BookExact, MovementsCover, [Next]_vars
  PROVE  BookExact' /\ MovementsCover'
<1>1. ASSUME \E cs : MayDrift(cs) /\ KeepsBook(cs) PROVE BookExact' /\ MovementsCover'
  BY <1>1, BookKept
<1>2. ASSUME KeepsBook({}), MayDrift({}) \/ drifted' = drifted
      PROVE  BookExact' /\ MovementsCover'
  BY <1>2, BookKept
<1>3. CASE \E j \in Jobs : PlanningStep(j) \/ CompleteWithoutCoil(j)
  BY <1>2, <1>3, PlanningBook
<1>4. CASE \E j \in Jobs : CompletionStep(j) /\ ~CompleteWithoutCoil(j)
  <2>1. PICK j \in Jobs : CompletionStep(j) /\ ~CompleteWithoutCoil(j)  BY <1>4
  <2>2. CASE \E from \in Postings(j) : \E use \in [Coils -> 0..MaxKg], fin \in SUBSET Coils :
                Complete(j, from, use, fin)
    BY <1>1, <2>2, CompleteBook
  <2>3. CASE \E from \in Postings(j), extra \in Coils \cup {NoCoil}, kg \in Kg :
                \E use \in [Coils -> 0..MaxKg], fin \in SUBSET Coils, applied \in SUBSET Rows(j) :
                   Correct(j, from, extra, kg, use, fin, applied)
    BY <1>1, <2>3, CorrectBook
  <2>4. CASE ForceRecall(j)  BY <1>1, <2>4, ForceRecallBook
  <2>5. CASE DeleteList(j)
    <3>1. MayDrift({})  BY <2>5, Zenon DEF DeleteList, Clean
    <3> QED  BY <1>2, <2>5, <3>1, DeleteListBook
  <2> QED  BY <2>1, <2>2, <2>3, <2>4, <2>5, Zenon DEF CompletionStep
<1>5. ASSUME NEW c \in Coils, RegisterStep(c) PROVE BookExact' /\ MovementsCover'
  <2>1. CASE \E kg \in Kg : \/ Scrap(c, kg) \/ Gain(c, kg)
                            \/ \E j \in Jobs : ScrapReserved(c, kg, j)
    <3>1. MayDrift({})  BY <2>1, Zenon DEF Scrap, Gain, ScrapReserved, Clean
    <3> QED  BY <1>2, <2>1, <3>1, ScrapGainBook
  <2>2. CASE \E kg \in Kg, d \in Coils : Split(c, d, kg)
    <3>1. MayDrift({})  BY <2>2, Zenon DEF Split, Clean
    <3> QED  BY <1>2, <2>2, <3>1, SplitBook
  <2>3. CASE \E kg \in 1..TailMax : UndoFinish(c, kg)  BY <1>1, <2>3, UndoFinishBook
  <2>4. CASE \E confirm \in BOOLEAN : FinishRoll(c, confirm)  BY <1>1, <2>4, FinishRollBook
  <2>5. CASE ReconcileReservation(c)  BY <1>2, <2>5, QuietStepBook
  <2>6. CASE ShowHolders(c)
    <3>1. MayDrift({})  BY <2>6, Zenon DEF ShowHolders, Clean
    <3> QED  BY <1>2, <2>6, <3>1, ShowHoldersBook
  <2>7. CASE RecalculateCoil(c)
    <3>1. MayDrift({})  BY <2>7, Zenon DEF RecalculateCoil, Clean
    <3> QED  BY <1>2, <2>7, <3>1, RecalculateCoilBook
  <2>8. CASE RestoreDies(c)  BY <1>1, <2>8, RestoreDiesBook
  <2>9. CASE \E rk, on : PatchReceived(c, rk, on)  BY <1>1, <2>9, PatchReceivedBook
  <2> QED  BY <1>5, <2>1, <2>2, <2>3, <2>4, <2>5, <2>6, <2>7, <2>8, <2>9, Zenon
           DEF RegisterStep, ReturnToStock
<1>6. CASE RunDeferred \/ Crash \/ UNCHANGED vars  BY <1>2, <1>6, QuietStepBook
<1> QED  BY <1>3, <1>4, <1>5, <1>6, Zenon DEF Next

LEMMA InitBook == Init => BookInv
<1> SUFFICES ASSUME Init PROVE BookInv  OBVIOUS
<1>1. IInv  BY InitIInv
<1>2. TypeOK /\ CoilType /\ LedgerType /\ JobType  BY <1>1 DEF IInv, TypeOK
<1>3. RegisterOK
  BY <1>2, CoilAssumption DEF Init, RegisterOK, Unregistered, Rows, CoilType
<1>4. ASSUME NEW c \in Coils PROVE reserved[c] = OpenKg(c)
  <2>1. \A j \in Jobs : Holding(c)[j] = 0  BY DEF Init, Holding, Holds
  <2>2. SumFunctionOnSet(Holding(c), Jobs) = 0  BY <2>1, SumZero, CoilAssumption
  <2>3. reserved[c] = 0  BY DEF Init
  <2> QED  BY <1>2, <2>2, <2>3, HeldAsSum
<1>5. ASSUME NEW c \in Coils PROVE Covered(c) /\ remaining[c] = Book(c)
  <2>1. Covered(c)  BY DEF Init, Covered, Statuses
  <2>2. DrawnKg(c) = 0
    <3>1. \A j \in Jobs : Drawn(c)[j] = 0  BY DEF Init, Drawn
    <3> QED  BY <3>1, SumZero, CoilAssumption DEF DrawnKg
  <2>3. SplitOut(c) = 0
    <3>1. \A d \in Coils : SplitFrom(c)[d] = 0  BY CoilAssumption DEF Init, SplitFrom
    <3>2. SumFunctionOnSet(SplitFrom(c), Coils) = 0  BY <3>1, SumZero, CoilAssumption
    <3> QED  BY <1>2, <3>2, SplitAsSum
  <2>4. FinishTail(c) = 0
    <3>1. \A j \in Jobs : Tails(c)[j] = 0  BY DEF Init, Tails
    <3>2. SumFunctionOnSet(Tails(c), Jobs) = 0  BY <3>1, SumZero, CoilAssumption
    <3>3. ~finishLogged[c]  BY DEF Init
    <3> QED  BY <1>2, <3>2, <3>3, TailsAsSum
  <2>5. /\ confirmed[c] = 0 /\ ancillary[c] = 0 /\ remaining[c] = received[c]
        /\ received[c] \in Nat
    BY <1>2 DEF Init, CoilType
  <2>6. Book(c) = received[c] - (DrawnKg(c) + confirmed[c]) - SplitOut(c)
                  + ancillary[c] - FinishTail(c)
    BY <1>2, <2>1, BookIs
  <2> QED  BY <2>1, <2>2, <2>3, <2>4, <2>5, <2>6
<1> QED  BY <1>1, <1>3, <1>4, <1>5 DEF BookInv, ReservedExact, BookExact, MovementsCover

LEMMA StepBookInv == BookInv /\ [Next]_vars => BookInv'
<1> SUFFICES ASSUME BookInv, [Next]_vars PROVE BookInv'  OBVIOUS
<1>1. IInv /\ RegisterOK /\ ReservedExact /\ BookExact /\ MovementsCover  BY DEF BookInv
<1>2. IInv'  BY <1>1, StepKeeps DEF Keeps
<1> QED  BY <1>1, <1>2, StepRegister, StepReserved, StepBook DEF BookInv

\* The kg reserved on a coil are what the rows of open jobs hold, what
\* expectedCoilReservedKgFromJobs would write, whatever handlers run and die;
\* only the coils that a loosening step left off (loose) may differ.
THEOREM ReservationsExact == Spec => []ReservedExact
<1>1. BookInv => ReservedExact  BY DEF BookInv
<1> QED  BY InitBook, StepBookInv, <1>1, PTL DEF Spec

\* The kg on hand are what reconcileCoilBookFromProductionHolders rebuilds from
\* job rows, movements, splits and control events; only the coils on which a step
\* left the book off or its movements short of the rows (drifted) may differ.
THEOREM BooksExact == Spec => []BookExact
<1>1. BookInv => BookExact  BY DEF BookInv
<1> QED  BY InitBook, StepBookInv, <1>1, PTL DEF Spec

\* The movements of a job cover what its completed row shows as consumed, and no
\* job that is not completed was given back more than it drew, through recalls,
\* deletions and restores in any order; the same coils (drifted) excepted.
THEOREM MovementsStayCovering == Spec => []MovementsCover
<1>1. BookInv => MovementsCover  BY DEF BookInv
<1> QED  BY InitBook, StepBookInv, <1>1, PTL DEF Spec
==============================================================================
