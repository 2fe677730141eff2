------------------------- MODULE BankDepositProofs --------------------------
(***************************************************************************)
(* Theorems about the pool of bank deposits, for any deposits, entries,     *)
(* users, months and amounts.  The inductive invariant PoolInv ties the     *)
(* rows to their links and to the cash lines; the action properties follow  *)
(* from the guards of the steps that add a link, a line or a journal.       *)
(***************************************************************************)
EXTENDS BankDeposit, SumTheorems

RowType == [st : Statuses, amount : Nat, alloc : Nat, month : Months \cup {0},
            by : Users \cup {NoUser}, expired : BOOLEAN]
RowsTyped == /\ dep \in [Deposits -> RowType]
             /\ ent \in [Entries -> [st : {"none", "posted", "reversed"}, amount : Nat]]

\* Status, amount and allocated amount of a row go together.
RowOK(row) ==
    /\ row.alloc <= row.amount
    /\ row.st = "ALLOCATED" <=> row.amount > 0 /\ row.alloc = row.amount
    /\ row.st = "PARTIAL" => row.alloc > 0
    /\ row.st \in Terminal \cup {"OPEN", "none"} => row.alloc = 0
    /\ row.st # "none" => row.amount > 0
RowsOK == \A d \in Deposits : RowOK(dep[d])

LinksOK == \A l \in links : l.dep \in Deposits => dep[l.dep].alloc > 0

LineFields == {"src", "i", "amount", "month", "offset"}
Shaped(v) == DOMAIN v = LineFields
LinesShaped == \A v \in lines : Shaped(v)
LinesOwned == \A v \in lines :
                 /\ v.src \in Deposits => dep[v.src].st # "none"
                 /\ v.src \in Entries => ent[v.src].st # "none"
EntriesOK == \A e \in Entries : ent[e].st # "none" => ent[e].amount > 0

ReversedHasNoCash == \A d \in Deposits : dep[d].st = "REVERSED" => LiveLines(d) = {}
Counted(d) == dep[d].st \notin {"none", "REVERSED"}
ReferencesOnce == \A c, d \in SameLine : Counted(c) /\ Counted(d) => c = d

PoolInv == /\ RowsTyped /\ RowsOK /\ EntriesOK /\ LinksOK
           /\ LinesShaped /\ LinesOwned /\ ReversedHasNoCash /\ ReferencesOnce

-----------------------------------------------------------------------------
(* What the operators of the model return.                                   *)

LEMMA OffsetFields ==
    ASSUME NEW v, Shaped(v), NEW m
    PROVE  /\ Shaped(Offset(v, m)) /\ Offset(v, m).src = v.src /\ Offset(v, m).i = v.i
           /\ Offset(v, m).month = m /\ Offset(v, m).offset = TRUE
BY DEF Offset, Shaped, LineFields

\* A reversal only adds offsets of its source, and offsets every live line of it.
LEMMA ReverseCashLines ==
    ASSUME NEW src, NEW m, LinesShaped, ReverseCash(src, m)
    PROVE  /\ lines \subseteq lines' /\ LinesShaped'
           /\ \A w \in lines' \ lines : w.src = src /\ w.offset = TRUE /\ w.month = m
           /\ LiveLines(src)' = {}
<1>1. lines' = lines \cup {Offset(v, m) : v \in LiveLines(src)}
  BY DEF ReverseCash
<1>2. \A v \in LiveLines(src) : v \in lines /\ Shaped(v) /\ v.src = src
  BY DEF LiveLines, LinesShaped
<1>3. \A v \in LiveLines(src) :
         /\ Shaped(Offset(v, m)) /\ Offset(v, m).src = src /\ Offset(v, m).i = v.i
         /\ Offset(v, m).month = m /\ Offset(v, m).offset = TRUE
  <2> TAKE v \in LiveLines(src)
  <2>1. Shaped(v) /\ v.src = src
    BY <1>2
  <2>. QED BY <2>1, OffsetFields
<1>4. lines \subseteq lines' /\ LinesShaped'
  BY <1>1, <1>3 DEF LinesShaped
<1>5. \A w \in lines' \ lines : w.src = src /\ w.offset = TRUE /\ w.month = m
  BY <1>1, <1>3
<1>6. LiveLines(src)' = {}
  <2> SUFFICES ASSUME NEW v \in LiveLines(src)' PROVE FALSE
    OBVIOUS
  <2>1. v \in lines' /\ v.src = src /\ ~v.offset
        /\ ~\E w \in lines' : w.offset /\ w.src = src /\ w.i = v.i
    BY DEF LiveLines
  <2>2. v \in lines
    BY <2>1, <1>5
  <2>3. v \in LiveLines(src)
    BY <2>1, <2>2, <1>4 DEF LiveLines
  <2>4. Offset(v, m) \in lines'
    BY <2>3, <1>1
  <2>. QED BY <2>1, <2>3, <2>4, <1>3
<1>. QED BY <1>4, <1>5, <1>6

\* Lines of other sources and offsets bring no deposit back into the account.
LEMMA DeadStaysDead ==
    ASSUME NEW d, lines \subseteq lines', LiveLines(d) = {},
           \A w \in lines' \ lines : w.src = d => w.offset = TRUE
    PROVE  LiveLines(d)' = {}
<1> SUFFICES ASSUME NEW v \in LiveLines(d)' PROVE FALSE
  OBVIOUS
<1>1. v \in lines' /\ v.src = d /\ ~v.offset
      /\ ~\E w \in lines' : w.offset /\ w.src = d /\ w.i = v.i
  BY DEF LiveLines
<1>2. v \in lines
  BY <1>1
<1>. QED BY <1>1, <1>2 DEF LiveLines

LEMMA RefreshedRow ==
    ASSUME NEW row \in RowType, row.alloc <= row.amount, row.amount > 0
    PROVE  /\ Refreshed(row) \in RowType /\ RowOK(Refreshed(row))
           /\ Refreshed(row).alloc = row.alloc /\ Refreshed(row).amount = row.amount
           /\ Refreshed(row).st \in {"OPEN", "PARTIAL", "ALLOCATED"}
<1>1. Refreshed(row) = [row EXCEPT !.st = StatusOf(row.amount, row.alloc),
                                   !.by = NoUser, !.expired = FALSE]
  BY DEF Refreshed
<1>2. StatusOf(row.amount, row.alloc) \in {"OPEN", "PARTIAL", "ALLOCATED"}
  BY DEF StatusOf
<1>3. /\ Refreshed(row).alloc = row.alloc /\ Refreshed(row).amount = row.amount
      /\ Refreshed(row).st = StatusOf(row.amount, row.alloc)
      /\ Refreshed(row) \in RowType
  BY <1>1, <1>2 DEF RowType, Statuses
<1>4. RowOK(Refreshed(row))
  BY <1>3 DEF RowOK, StatusOf, Terminal, RowType
<1>. QED BY <1>2, <1>3, <1>4

\* The smaller of two positive numbers.
LEMMA MinOfTwo ==
    ASSUME NEW a \in Int, NEW b \in Int
    PROVE  Min({a, b}) \in Int /\ Min({a, b}) <= a /\ Min({a, b}) <= b
           /\ Min({a, b}) \in {a, b}
<1>1. \E x \in {a, b} : \A y \in {a, b} : x <= y
  <2>1. CASE a <= b
    BY <2>1
  <2>2. CASE ~(a <= b)
    BY <2>2
  <2>. QED BY <2>1, <2>2
<1>2. /\ Min({a, b}) \in {a, b}
      /\ \A y \in {a, b} : Min({a, b}) <= y
  BY <1>1 DEF Min
<1>. QED BY <1>2

\* Linking adds to the row and leaves the others alone.
LEMMA AllocateRow ==
    ASSUME NEW d \in Deposits, NEW e \in Entries, NEW u \in Users, NEW amt \in Nat,
           amt > 0, RowsTyped, RowsOK, Allocate(d, e, u, amt)
    PROVE  /\ dep' \in [Deposits -> RowType] /\ RowOK(dep'[d]) /\ dep'[d].alloc > 0
           /\ Counted(d) /\ dep'[d].st \in {"OPEN", "PARTIAL", "ALLOCATED"}
           /\ \A x \in Deposits \ {d} : dep'[x] = dep[x]
<1> DEFINE row == [dep[d] EXCEPT !.alloc = @ + amt]
<1>1. dep[d] \in RowType /\ RowOK(dep[d])
  BY DEF RowsTyped, RowsOK
<1>2. amt <= dep[d].amount - dep[d].alloc /\ Counted(d)
  BY DEF Allocate, Linkable, Remaining, Counted, Terminal
<1>3. dep' = [dep EXCEPT ![d] = Refreshed(row)]
  BY DEF Allocate, Allocated
<1>4. row \in RowType /\ row.alloc = dep[d].alloc + amt /\ row.amount = dep[d].amount
  BY <1>1 DEF RowType
<1>5. row.alloc <= row.amount /\ row.amount > 0
  BY <1>1, <1>2, <1>4 DEF RowType
<1>6. /\ Refreshed(row) \in RowType /\ RowOK(Refreshed(row))
      /\ Refreshed(row).alloc = row.alloc
      /\ Refreshed(row).st \in {"OPEN", "PARTIAL", "ALLOCATED"}
  BY <1>4, <1>5, RefreshedRow
<1>7. dep'[d] = Refreshed(row)
  BY <1>3 DEF RowsTyped
<1>8. row.alloc > 0
  BY <1>1, <1>4 DEF RowType
<1>9. dep' \in [Deposits -> RowType] /\ \A x \in Deposits \ {d} : dep'[x] = dep[x]
  BY <1>3, <1>6 DEF RowsTyped
<1>. QED BY <1>2, <1>6, <1>7, <1>8, <1>9

-----------------------------------------------------------------------------
(* The invariant is established and kept by every step.                      *)

LEMMA InitPool == Init => PoolInv
<1> SUFFICES ASSUME Init PROVE PoolInv
  OBVIOUS
<1>1. NewDeposit \in RowType /\ RowOK(NewDeposit) /\ NewDeposit.st = "none"
  BY DEF NewDeposit, RowType, RowOK, Statuses, Terminal
<1>2. \A d \in Deposits : dep[d] = NewDeposit
  BY DEF Init
<1>3. RowsTyped /\ RowsOK
  BY <1>1, <1>2 DEF Init, RowsTyped, RowsOK, NewEntry
<1>4. EntriesOK /\ LinksOK /\ LinesShaped /\ LinesOwned
  BY DEF Init, EntriesOK, LinksOK, LinesShaped, LinesOwned, NewEntry
<1>5. ReversedHasNoCash /\ ReferencesOnce
  BY <1>1, <1>2, PoolAssumption DEF ReversedHasNoCash, ReferencesOnce, Counted, PoolAssumption
<1>. QED BY <1>3, <1>4, <1>5 DEF PoolInv

\* A step that changes rows of open deposits only by their status or reservation,
\* and neither links nor cash lines.
LEMMA RowStepPool ==
    ASSUME PoolInv, NEW d \in Deposits, NEW row \in RowType, RowOK(row),
           dep' = [dep EXCEPT ![d] = row], row.alloc = dep[d].alloc,
           row.st \notin {"none", "REVERSED"}, Counted(d),
           UNCHANGED <<ent, links, lines>>
    PROVE  PoolInv'
<1>1. /\ dep' \in [Deposits -> RowType] /\ dep'[d] = row
      /\ \A x \in Deposits \ {d} : dep'[x] = dep[x]
  BY DEF PoolInv, RowsTyped
<1>2. RowsTyped' /\ RowsOK'
  BY <1>1 DEF PoolInv, RowsTyped, RowsOK
<1>3. EntriesOK' /\ LinksOK'
  BY <1>1 DEF PoolInv, EntriesOK, LinksOK
<1>4. LinesShaped' /\ LinesOwned'
  BY <1>1 DEF PoolInv, LinesShaped, LinesOwned
<1>5. ReversedHasNoCash'
  BY <1>1 DEF PoolInv, ReversedHasNoCash, LiveLines
<1>6. ReferencesOnce'
  BY <1>1, PoolAssumption DEF PoolInv, ReferencesOnce, Counted
<1>. QED BY <1>2, <1>3, <1>4, <1>5, <1>6 DEF PoolInv

LEMMA ReservationPool ==
    ASSUME PoolInv, NEW d \in Deposits, NEW u \in Users,
           Reserve(d, u) \/ ReleaseReservation(d, u)
    PROVE  PoolInv'
<1>0. dep[d] \in RowType /\ RowOK(dep[d])
  BY DEF PoolInv, RowsTyped, RowsOK
<1>1. CASE Reserve(d, u)
  <2> DEFINE row == [dep[d] EXCEPT !.st = "RESERVED", !.by = u, !.expired = FALSE]
  <2>1. dep' = [dep EXCEPT ![d] = row]
    BY <1>1 DEF Reserve, PoolInv, RowsTyped
  <2>2. row \in RowType /\ row.alloc = dep[d].alloc /\ row.amount = dep[d].amount
        /\ row.st = "RESERVED"
    BY <1>0 DEF RowType, Statuses
  <2>3. Counted(d) /\ dep[d].amount - dep[d].alloc > 0
    BY <1>1 DEF Reserve, Linkable, Counted, Terminal, Remaining
  <2>4. RowOK(row)
    BY <1>0, <2>2, <2>3 DEF RowOK, RowType, Terminal
  <2>. QED BY <1>1, <2>1, <2>2, <2>3, <2>4, RowStepPool DEF Reserve
<1>2. CASE ReleaseReservation(d, u)
  <2>1. dep' = [dep EXCEPT ![d] = Refreshed(dep[d])]
    BY <1>2 DEF ReleaseReservation
  <2>2. Counted(d) /\ dep[d].amount > 0 /\ dep[d].alloc <= dep[d].amount
    BY <1>0, <1>2 DEF ReleaseReservation, Counted, RowOK
  <2>3. /\ Refreshed(dep[d]) \in RowType /\ RowOK(Refreshed(dep[d]))
        /\ Refreshed(dep[d]).alloc = dep[d].alloc
        /\ Refreshed(dep[d]).st \notin {"none", "REVERSED"}
    BY <1>0, <2>2, RefreshedRow
  <2>. QED BY <1>2, <2>1, <2>2, <2>3, RowStepPool DEF ReleaseReservation
<1>. QED BY <1>1, <1>2

LEMMA LapsePool ==
    ASSUME PoolInv, NEW d \in Deposits, ReservationLapses(d)
    PROVE  PoolInv'
<1> DEFINE row == [dep[d] EXCEPT !.expired = TRUE]
<1>1. dep[d] \in RowType /\ RowOK(dep[d])
  BY DEF PoolInv, RowsTyped, RowsOK
<1>2. dep' = [dep EXCEPT ![d] = row]
  BY DEF ReservationLapses, PoolInv, RowsTyped
<1>3. row \in RowType /\ row.alloc = dep[d].alloc /\ row.amount = dep[d].amount
      /\ row.st = "RESERVED" /\ dep[d].st = "RESERVED"
  BY <1>1 DEF RowType, ReservationLapses
<1>4. RowOK(row) /\ Counted(d)
  BY <1>1, <1>3 DEF RowOK, Counted
<1>. QED BY <1>2, <1>3, <1>4, RowStepPool DEF ReservationLapses

LEMMA RegisterPool ==
    ASSUME PoolInv, NEW d \in Deposits, NEW amt \in DepositAmounts, NEW m \in Months,
           Register(d, amt, m)
    PROVE  PoolInv'
<1> DEFINE row == [NewDeposit EXCEPT !.st = "OPEN", !.amount = amt, !.month = m]
<1> DEFINE v == CashLine(d, 1, amt, m)
<1>1. amt \in Nat /\ amt > 0
  BY PoolAssumption DEF PoolAssumption
<1>2. row \in RowType /\ RowOK(row) /\ row.st = "OPEN"
  <2>1. NewDeposit \in RowType /\ NewDeposit.alloc = 0
    BY DEF NewDeposit, RowType, Statuses
  <2>2. row \in RowType /\ row.st = "OPEN" /\ row.amount = amt /\ row.alloc = 0
    BY <1>1, <2>1 DEF RowType, Statuses
  <2>. QED BY <1>1, <2>2 DEF RowOK
<1>3. /\ dep' \in [Deposits -> RowType] /\ dep'[d] = row
      /\ \A x \in Deposits \ {d} : dep'[x] = dep[x]
  BY <1>2 DEF Register, PoolInv, RowsTyped
<1>4. lines' = lines \cup {v} /\ Shaped(v) /\ v.src = d
  <2>1. lines' = lines \cup {v}
    BY DEF Register
  <2>2. Shaped(v) /\ v.src = d
    BY DEF CashLine, Shaped, LineFields
  <2>. QED BY <2>1, <2>2
<1>5. dep[d].st = "none" /\ dep[d].alloc = 0
  BY DEF Register, PoolInv, RowsOK, RowOK
<1>6. RowsTyped' /\ RowsOK' /\ EntriesOK'
  BY <1>2, <1>3 DEF PoolInv, RowsTyped, RowsOK, EntriesOK, Register
<1>7. LinksOK'
  <2>1. \A l \in links : l.dep \in Deposits => l.dep # d
    BY <1>5 DEF PoolInv, LinksOK
  <2>. QED BY <2>1, <1>3 DEF PoolInv, LinksOK, Register
<1>8. LinesShaped' /\ LinesOwned'
  BY <1>2, <1>3, <1>4, PoolAssumption
  DEF PoolInv, LinesShaped, LinesOwned, Register, PoolAssumption
<1>9. ReversedHasNoCash'
  <2> SUFFICES ASSUME NEW x \in Deposits, dep'[x].st = "REVERSED" PROVE LiveLines(x)' = {}
    BY DEF ReversedHasNoCash
  <2>1. x # d /\ LiveLines(x) = {}
    BY <1>2, <1>3 DEF PoolInv, ReversedHasNoCash
  <2>. QED BY <2>1, <1>4, DeadStaysDead
<1>10. ReferencesOnce'
  BY <1>3, <1>5, PoolAssumption DEF PoolInv, ReferencesOnce, Counted, Register, ReferenceFree,
     PoolAssumption
<1>. QED BY <1>6, <1>7, <1>8, <1>9, <1>10 DEF PoolInv

\* What a step on deposits of the pool may do: rows keep their links, new links
\* are counted in their row, new lines of deposits are offsets, and a deposit that
\* becomes reversed keeps no cash.
PoolStep ==
    /\ dep' \in [Deposits -> RowType]
    /\ \A x \in Deposits :
          \/ dep'[x] = dep[x]
          \/ /\ Counted(x) /\ RowOK(dep'[x]) /\ dep'[x].st # "none"
             /\ dep[x].alloc > 0 => dep'[x].alloc > 0
             /\ dep'[x].st = "REVERSED" => LiveLines(x)' = {}
    /\ \A l \in links' \ links : l.dep \in Deposits => dep'[l.dep].alloc > 0
    /\ lines \subseteq lines'
    /\ \A w \in lines' \ lines :
          /\ Shaped(w)
          /\ w.src \in Deposits => w.offset = TRUE /\ dep[w.src].st # "none"
          /\ w.src \in Entries => ent'[w.src].st # "none"
EntriesStep ==
    /\ ent' \in [Entries -> [st : {"none", "posted", "reversed"}, amount : Nat]]
    /\ \A e \in Entries :
          \/ ent'[e] = ent[e]
          \/ ent'[e].st # "none" /\ ent'[e].amount > 0

LEMMA PoolStepKeeps ==
    ASSUME PoolInv, PoolStep, EntriesStep
    PROVE  PoolInv'
<1>1. \A x \in Deposits : dep'[x].st = "none" <=> dep[x].st = "none"
  BY DEF PoolStep, Counted
<1>2. RowsTyped' /\ RowsOK' /\ EntriesOK'
  BY DEF PoolInv, RowsTyped, RowsOK, EntriesOK, PoolStep, EntriesStep
<1>3. LinksOK'
  <2> SUFFICES ASSUME NEW l \in links', l.dep \in Deposits PROVE dep'[l.dep].alloc > 0
    BY DEF LinksOK
  <2>1. CASE l \in links
    BY <2>1 DEF PoolInv, LinksOK, PoolStep
  <2>2. CASE l \notin links
    BY <2>2 DEF PoolStep
  <2>. QED BY <2>1, <2>2
<1>4. LinesShaped' /\ LinesOwned'
  <2> SUFFICES ASSUME NEW v \in lines'
               PROVE  /\ Shaped(v)
                      /\ v.src \in Deposits => dep'[v.src].st # "none"
                      /\ v.src \in Entries => ent'[v.src].st # "none"
    BY DEF LinesShaped, LinesOwned
  <2>1. CASE v \in lines
    BY <1>1, <2>1 DEF PoolInv, LinesShaped, LinesOwned, EntriesStep
  <2>2. CASE v \notin lines
    BY <1>1, <2>2 DEF PoolStep
  <2>. QED BY <2>1, <2>2
<1>5. ReversedHasNoCash'
  <2> SUFFICES ASSUME NEW x \in Deposits, dep'[x].st = "REVERSED" PROVE LiveLines(x)' = {}
    BY DEF ReversedHasNoCash
  <2>1. CASE dep[x].st = "REVERSED"
    <3>1. LiveLines(x) = {}
      BY <2>1 DEF PoolInv, ReversedHasNoCash
    <3>2. lines \subseteq lines' /\ \A w \in lines' \ lines : w.src = x => w.offset = TRUE
      BY DEF PoolStep
    <3>. QED BY <3>1, <3>2, DeadStaysDead
  <2>2. CASE dep[x].st # "REVERSED"
    BY <2>2 DEF PoolStep
  <2>. QED BY <2>1, <2>2
<1>6. ReferencesOnce'
  <2>1. \A x \in Deposits : dep'[x].st \notin {"none", "REVERSED"} => Counted(x)
    BY <1>1 DEF PoolStep, Counted
  <2>. QED BY <2>1, PoolAssumption DEF PoolInv, ReferencesOnce, Counted, PoolAssumption
<1>. QED BY <1>2, <1>3, <1>4, <1>5, <1>6 DEF PoolInv

\* Linking a positive amount is a pool step as far as rows and links go.
LEMMA AllocateStep ==
    ASSUME PoolInv, NEW d \in Deposits, NEW e \in Entries, NEW u \in Users,
           NEW amt \in Nat, amt > 0, Allocate(d, e, u, amt)
    PROVE  /\ dep' \in [Deposits -> RowType]
           /\ \A x \in Deposits :
                 \/ dep'[x] = dep[x]
                 \/ /\ Counted(x) /\ RowOK(dep'[x]) /\ dep'[x].st \notin {"none", "REVERSED"}
                    /\ dep'[x].alloc > 0
           /\ \A l \in links' \ links : l.dep = d /\ l.by = u
           /\ dep'[d].alloc > 0
<1>1. /\ dep' \in [Deposits -> RowType] /\ RowOK(dep'[d]) /\ dep'[d].alloc > 0
      /\ Counted(d) /\ dep'[d].st \in {"OPEN", "PARTIAL", "ALLOCATED"}
      /\ \A x \in Deposits \ {d} : dep'[x] = dep[x]
  BY AllocateRow DEF PoolInv
<1>2. \A l \in links' \ links : l.dep = d /\ l.by = u
  BY DEF Allocate
<1>. QED BY <1>1, <1>2

LEMMA PostPool ==
    ASSUME PoolInv, NEW e \in Entries, NEW u \in Users, NEW d \in Deposits \cup {NoId},
           NEW amt \in EntryAmounts, NEW m \in Months, NEW parts, Post(e, u, d, amt, m, parts)
    PROVE  PoolInv'
<1>1. amt \in Nat /\ amt > 0
  BY PoolAssumption DEF PoolAssumption
<1>2. EntriesStep /\ ent'[e].st = "posted"
  BY <1>1 DEF Post, PostCovered, EntriesStep, PoolInv, RowsTyped
<1>3. lines' = lines \cup {CashLine(e, i, parts[i], m) : i \in DOMAIN parts}
  BY DEF Post, PostCovered
<1>4. \A w \in lines' \ lines : Shaped(w) /\ w.src = e
  <2>1. \A i \in DOMAIN parts : /\ Shaped(CashLine(e, i, parts[i], m))
                                /\ CashLine(e, i, parts[i], m).src = e
    BY DEF CashLine, Shaped, LineFields
  <2>. QED BY <1>3, <2>1
<1>5. e \notin Deposits
  BY PoolAssumption DEF PoolAssumption
<1>6. CASE d = NoId
  <2>1. dep' = dep /\ links' = links
    BY <1>6 DEF Post, PostCovered
  <2>2. PoolStep
    BY <2>1, <1>2, <1>3, <1>4, <1>5 DEF PoolStep, PoolInv, RowsTyped
  <2>. QED BY <1>2, <2>2, PoolStepKeeps
<1>7. CASE d # NoId
  <2> DEFINE c == Cover(d, amt)
  <2>1. d \in Deposits /\ c > 0 /\ Allocate(d, e, u, c)
    BY <1>7 DEF Post, PostCovered
  <2>2. c \in Nat
    <3>1. dep[d] \in RowType
      BY <2>1 DEF PoolInv, RowsTyped
    <3>2. Remaining(d) \in Int
      BY <3>1 DEF Remaining, RowType
    <3>3. c = Min({amt, Remaining(d)})
      BY <1>7 DEF Cover
    <3>4. Min({amt, Remaining(d)}) \in Int
      <4>1. amt \in Int
        BY <1>1
      <4>. QED BY <4>1, <3>2, MinOfTwo, Zenon
    <3>5. c \in Int
      BY <3>3, <3>4
    <3> HIDE DEF c
    <3>. QED BY <2>1, <3>5
  <2> HIDE DEF c
  <2>3. PoolStep
    BY <2>1, <2>2, <1>2, <1>3, <1>4, <1>5, AllocateStep DEF PoolStep
  <2>. QED BY <1>2, <2>3, PoolStepKeeps
<1>. QED BY <1>6, <1>7

LEMMA ReverseEntryPool ==
    ASSUME PoolInv, NEW e \in Entries, NEW m \in Months, ReverseEntry(e, m)
    PROVE  PoolInv'
<1>1. EntriesStep /\ ent'[e].st # "none"
  BY DEF ReverseEntry, EntriesStep, PoolInv, RowsTyped, EntriesOK
<1>2. ReverseCash(e, m)
  BY DEF ReverseEntry
<1>3. /\ lines \subseteq lines' /\ LinesShaped'
      /\ \A w \in lines' \ lines : w.src = e /\ w.offset = TRUE
  BY <1>2, ReverseCashLines DEF PoolInv
<1>4. e \notin Deposits
  BY PoolAssumption DEF PoolAssumption
<1>5. PoolStep
  BY <1>1, <1>3, <1>4 DEF PoolStep, PoolInv, RowsTyped, ReverseEntry, LinesShaped
<1>. QED BY <1>1, <1>5, PoolStepKeeps

LEMMA MergePool ==
    ASSUME PoolInv, NEW d \in Deposits, NEW e \in Entries, NEW u \in Users, Merge(d, e, u)
    PROVE  PoolInv'
<1> DEFINE amt == Min({Remaining(d), ent[e].amount})
<1>1. Allocate(d, e, u, amt) /\ Mergeable(d, e) /\ ReverseCash(e, dep[d].month) /\ ent' = ent
  BY DEF Merge
<1>2. dep[d] \in RowType /\ ent[e].amount \in Nat
  BY DEF PoolInv, RowsTyped
<1>3. Remaining(d) \in Int /\ Remaining(d) > 0
  BY <1>1, <1>2 DEF Remaining, RowType, Mergeable
<1>4. ent[e].st # "none"
  <2>1. PICK v \in LiveLines(e) : TRUE
    BY <1>1 DEF Mergeable
  <2>. QED BY <2>1 DEF LiveLines, PoolInv, LinesOwned
<1>5. ent[e].amount > 0
  BY <1>4 DEF PoolInv, EntriesOK
<1>6. amt \in Nat /\ amt > 0
  <2>1. /\ Min({Remaining(d), ent[e].amount}) \in Int
        /\ Min({Remaining(d), ent[e].amount}) \in {Remaining(d), ent[e].amount}
    <3>1. ent[e].amount \in Int
      BY <1>2
    <3>. QED BY <1>3, <3>1, MinOfTwo, Zenon
  <2>. QED BY <2>1, <1>3, <1>5
<1> HIDE DEF amt
<1>7. /\ lines \subseteq lines' /\ LinesShaped'
      /\ \A w \in lines' \ lines : w.src = e /\ w.offset = TRUE
  BY <1>1, ReverseCashLines DEF PoolInv
<1>8. e \notin Deposits
  BY PoolAssumption DEF PoolAssumption
<1>9. EntriesStep
  BY <1>1 DEF EntriesStep, PoolInv, RowsTyped
<1>10. PoolStep
  BY <1>1, <1>4, <1>6, <1>7, <1>8, AllocateStep DEF PoolStep, LinesShaped
<1>. QED BY <1>9, <1>10, PoolStepKeeps

\* Closing a deposit without links, with or without its cash.
LEMMA ClosePool ==
    ASSUME PoolInv, NEW d \in Deposits, NEW st \in Terminal, Closable(d),
           dep' = Closed(d, st), UNCHANGED <<ent, links>>,
           \/ st = "RECLASSED" /\ lines' = lines
           \/ ReverseCash(d, dep[d].month)
    PROVE  PoolInv'
<1>1. dep[d] \in RowType /\ RowOK(dep[d]) /\ Counted(d) /\ dep[d].alloc = 0
  BY DEF PoolInv, RowsTyped, RowsOK, Closable, Counted, Terminal
<1> DEFINE row == [dep[d] EXCEPT !.st = st, !.by = NoUser, !.expired = FALSE]
<1>2. /\ dep' = [dep EXCEPT ![d] = row]
  BY DEF Closed, PoolInv, RowsTyped
<1>3. /\ row \in RowType /\ row.st = st /\ row.alloc = 0 /\ row.amount = dep[d].amount
  BY <1>1 DEF RowType, Statuses
<1>4. RowOK(row)
  BY <1>1, <1>3 DEF RowOK, Terminal, RowType, Counted
<1> HIDE DEF row
<1>5. /\ dep' \in [Deposits -> RowType] /\ dep'[d] = row
      /\ \A x \in Deposits \ {d} : dep'[x] = dep[x]
  BY <1>2, <1>3 DEF PoolInv, RowsTyped
<1>6. /\ lines \subseteq lines'
      /\ \A w \in lines' \ lines : Shaped(w) /\ w.src = d /\ w.offset = TRUE
      /\ st = "REVERSED" => LiveLines(d)' = {}
  BY ReverseCashLines DEF PoolInv, LinesShaped
<1>7. EntriesStep
  BY DEF EntriesStep, PoolInv, RowsTyped
<1>8. d \notin Entries
  BY PoolAssumption DEF PoolAssumption
<1>9. PoolStep
  BY <1>1, <1>3, <1>4, <1>5, <1>6, <1>8 DEF PoolStep, Terminal, Counted
<1>. QED BY <1>7, <1>9, PoolStepKeeps

LEMMA SpendPool ==
    ASSUME PoolInv, NEW p \in Payouts, NEW amt \in PayoutAmounts, NEW m \in Months,
           Spend(p, amt, m)
    PROVE  PoolInv'
<1> DEFINE v == CashLine(p, 1, -amt, m)
<1>1. lines' = lines \cup {v} /\ UNCHANGED <<dep, ent, links>>
  BY DEF Spend
<1>2. Shaped(v) /\ v.src = p
  BY DEF CashLine, Shaped, LineFields
<1>3. p \notin Deposits \cup Entries
  BY PoolAssumption DEF PoolAssumption
<1>4. PoolStep /\ EntriesStep
  BY <1>1, <1>2, <1>3 DEF PoolStep, EntriesStep, PoolInv, RowsTyped
<1>. QED BY <1>4, PoolStepKeeps

LEMMA NextPool == PoolInv /\ [Next]_vars => PoolInv'
<1> SUFFICES ASSUME PoolInv, [Next]_vars PROVE PoolInv'
  OBVIOUS
<1>1. ASSUME NEW d \in Deposits, NEW amt \in DepositAmounts, NEW m \in Months,
             Register(d, amt, m)
      PROVE  PoolInv'
  BY <1>1, RegisterPool
<1>2. ASSUME NEW d \in Deposits, NEW u \in Users, Reserve(d, u) \/ ReleaseReservation(d, u)
      PROVE  PoolInv'
  BY <1>2, ReservationPool
<1>3. ASSUME NEW d \in Deposits, ReservationLapses(d)
      PROVE  PoolInv'
  BY <1>3, LapsePool
<1>4. ASSUME NEW e \in Entries, NEW u \in Users, NEW d \in Deposits \cup {NoId},
             NEW amt \in EntryAmounts, NEW m \in Months, NEW parts,
             Post(e, u, d, amt, m, parts)
      PROVE  PoolInv'
  BY <1>4, PostPool
<1>5. ASSUME NEW e \in Entries, NEW m \in Months, ReverseEntry(e, m)
      PROVE  PoolInv'
  BY <1>5, ReverseEntryPool
<1>6. ASSUME NEW d \in Deposits, NEW e \in Entries, NEW u \in Users, Merge(d, e, u)
      PROVE  PoolInv'
  BY <1>6, MergePool
<1>7. ASSUME NEW d \in Deposits, NEW m \in Months,
             ReverseDeposit(d, m) \/ Reclass(d, m) \/ ReclassRefundOut(d, m)
      PROVE  PoolInv'
  <2>1. "REVERSED" \in Terminal /\ "RECLASSED" \in Terminal
    BY DEF Terminal
  <2>2. CASE ReverseDeposit(d, m)
    BY <2>1, <2>2, ClosePool DEF ReverseDeposit
  <2>3. CASE Reclass(d, m)
    BY <2>1, <2>3, ClosePool DEF Reclass
  <2>4. CASE ReclassRefundOut(d, m)
    BY <2>1, <2>4, ClosePool DEF ReclassRefundOut
  <2>. QED BY <1>7, <2>2, <2>3, <2>4
<1>8. ASSUME NEW p \in Payouts, NEW amt \in PayoutAmounts, NEW m \in Months, Spend(p, amt, m)
      PROVE  PoolInv'
  BY <1>8, SpendPool
<1>9. ASSUME UNCHANGED <<dep, ent, links, lines>>
      PROVE  PoolInv'
  BY <1>9 DEF PoolInv, RowsTyped, RowsOK, EntriesOK, LinksOK, LinesShaped, LinesOwned,
     ReversedHasNoCash, LiveLines, ReferencesOnce, Counted
<1>10. ASSUME NEW m \in Months, Lock(m) \/ Unlock(m)
       PROVE  PoolInv'
  BY <1>9, <1>10 DEF Lock, Unlock
<1>11. CASE UNCHANGED vars
  BY <1>9, <1>11 DEF vars
<1>. QED BY <1>1, <1>2, <1>3, <1>4, <1>5, <1>6, <1>7, <1>8, <1>10, <1>11 DEF Next

(* Every reachable state satisfies PoolInv: a row's status, amount and allocated
   amount go together, every link is counted in its deposit, every cash line has
   its deposit or entry, a reversed deposit has no live cash line, and of the
   deposits under one bank reference at most one counts (bankDepositOps.js). *)
THEOREM PoolInvariant == Spec => []PoolInv
BY InitPool, NextPool, PTL DEF Spec

-----------------------------------------------------------------------------
(* The properties.                                                           *)

LEMMA LineOnceFromPool == PoolInv => StatementLineOnce
<1> SUFFICES ASSUME PoolInv, NEW c \in SameLine, NEW d \in SameLine,
                    LiveLines(c) # {}, LiveLines(d) # {}
             PROVE  c = d
  BY DEF StatementLineOnce
<1>1. ASSUME NEW x \in Deposits, LiveLines(x) # {} PROVE Counted(x)
  <2>1. \E v \in lines : v.src = x
    BY <1>1 DEF LiveLines
  <2>. QED BY <1>1, <2>1 DEF PoolInv, LinesOwned, ReversedHasNoCash, Counted
<1>2. Counted(c) /\ Counted(d)
  BY <1>1, PoolAssumption DEF PoolAssumption
<1>. QED BY <1>2 DEF PoolInv, ReferencesOnce

(* However often a bank reference is registered, reversed and registered again,
   the account holds its money at most once: assertReferenceUnique lets a new
   deposit in only after the reversal that offsets every line of the old one. *)
THEOREM StatementLineCounted == Spec => []StatementLineOnce
BY PoolInvariant, LineOnceFromPool, PTL

LEMMA StatusFromPool == PoolInv => StatusAgrees
<1> SUFFICES ASSUME PoolInv, NEW d \in Deposits
             PROVE  /\ dep[d].alloc <= dep[d].amount
                    /\ dep[d].st = "ALLOCATED" <=> dep[d].amount > 0
                                                   /\ dep[d].alloc = dep[d].amount
                    /\ dep[d].st = "PARTIAL" => dep[d].alloc > 0
                    /\ dep[d].st \in Terminal \cup {"OPEN"} => LinksOf(d) = {}
  BY DEF StatusAgrees
<1>1. RowOK(dep[d])
  BY DEF PoolInv, RowsOK
<1>2. dep[d].alloc = 0 => LinksOf(d) = {}
  BY DEF PoolInv, LinksOK, LinksOf
<1>. QED BY <1>1, <1>2 DEF RowOK

(* No deposit is linked beyond its amount, its status follows from what is
   linked, and what was reversed or reclassified has no link to any receipt. *)
THEOREM StatusAlwaysAgrees == Spec => []StatusAgrees
BY PoolInvariant, StatusFromPool, PTL

LEMMA AllocateRespectsReservation ==
    ASSUME NEW d \in Deposits, NEW e \in Entries, NEW u \in Users, NEW amt,
           Allocate(d, e, u, amt)
    PROVE  \A l \in links' \ links : ~RunningReservation(l.dep, l.by)
<1>1. \A l \in links' \ links : l.dep = d /\ l.by = u
  BY DEF Allocate
<1>2. ~RunningReservation(d, u)
  BY DEF Allocate, Linkable, RunningReservation
<1>. QED BY <1>1, <1>2

LEMMA StepRespectsReservation ==
    [Next]_vars => \A l \in links' \ links : ~RunningReservation(l.dep, l.by)
<1> SUFFICES ASSUME [Next]_vars
             PROVE  \A l \in links' \ links : ~RunningReservation(l.dep, l.by)
  OBVIOUS
<1>1. ASSUME NEW e \in Entries, NEW u \in Users, NEW d \in Deposits \cup {NoId},
             NEW amt, NEW m, NEW parts, Post(e, u, d, amt, m, parts)
      PROVE  \A l \in links' \ links : ~RunningReservation(l.dep, l.by)
  <2>1. CASE d = NoId
    BY <1>1, <2>1 DEF Post, PostCovered
  <2>2. CASE d # NoId
    BY <1>1, <2>2, AllocateRespectsReservation DEF Post, PostCovered
  <2>. QED BY <2>1, <2>2
<1>2. ASSUME NEW d \in Deposits, NEW e \in Entries, NEW u \in Users, Merge(d, e, u)
      PROVE  \A l \in links' \ links : ~RunningReservation(l.dep, l.by)
  BY <1>2, AllocateRespectsReservation DEF Merge
<1>3. CASE links' = links
  BY <1>3
<1>. QED BY <1>1, <1>2, <1>3
     DEF Next, vars, Register, Reserve, ReleaseReservation, ReservationLapses, ReverseEntry,
         ReverseDeposit, Reclass, ReclassRefundOut, Spend, Lock, Unlock

(* Between the reservation of a deposit and its lapse nobody but its holder adds
   a link to it, by posting or by merging (assertDepositLinkable). *)
THEOREM ReservationAlwaysHolds == Spec => ReservationHolds
BY StepRespectsReservation, PTL DEF Spec, ReservationHolds

-----------------------------------------------------------------------------
(* Locked months.                                                            *)

\* Journals of open months, and lines of open months or offsets of deposits, are
\* all that is written.
WritesKeepLocked ==
    /\ journals \subseteq journals' /\ lines \subseteq lines'
    /\ \A j \in journals' \ journals : j.month \notin locks
    /\ \A v \in lines' \ lines :
          v.month \notin locks \/ (v.offset = TRUE /\ v.src \in Deposits)

LEMMA WritesKeep == ASSUME WritesKeepLocked PROVE KeepsLockedMonths
BY DEF WritesKeepLocked, KeepsLockedMonths

LEMMA PostKeepsLocked ==
    ASSUME NEW e \in Entries, NEW u \in Users, NEW d \in Deposits \cup {NoId},
           NEW amt, NEW m, NEW parts, Post(e, u, d, amt, m, parts)
    PROVE  WritesKeepLocked
<1>1. m \notin locks
  BY DEF Post, PostCovered, Open
<1>2. lines \subseteq lines' /\ \A v \in lines' \ lines : v.month = m
  BY DEF Post, PostCovered, CashLine
<1>3. journals \subseteq journals' /\ \A j \in journals' \ journals : j.month \notin locks
  <2>1. CASE d = NoId
    BY <1>1, <2>1 DEF Post, PostCovered, Journal
  <2>2. CASE d # NoId
    <3>1. dep[d].month \notin locks
      BY <2>2 DEF Post, PostCovered, Allocate, Open
    <3>. QED BY <1>1, <2>2, <3>1 DEF Post, PostCovered, Journal, AllocationJournal
  <2>. QED BY <2>1, <2>2
<1>. QED BY <1>1, <1>2, <1>3 DEF WritesKeepLocked

LEMMA ReverseEntryKeepsLocked ==
    ASSUME PoolInv, NEW e \in Entries, NEW m, ReverseEntry(e, m)
    PROVE  WritesKeepLocked
<1>1. lines \subseteq lines' /\ \A v \in lines' \ lines : v.month = m
  BY ReverseCashLines DEF ReverseEntry, PoolInv
<1>. QED BY <1>1 DEF ReverseEntry, WritesKeepLocked, Open, Journal

LEMMA MergeKeepsLocked ==
    ASSUME PoolInv, NEW d \in Deposits, NEW e \in Entries, NEW u \in Users, Merge(d, e, u)
    PROVE  WritesKeepLocked
<1>1. dep[d].month \notin locks
  BY DEF Merge, Allocate, Open
<1>2. lines \subseteq lines' /\ \A v \in lines' \ lines : v.month = dep[d].month
  BY ReverseCashLines DEF Merge, PoolInv
<1>3. journals \subseteq journals' /\ \A j \in journals' \ journals : j.month = dep[d].month
  BY DEF Merge, AllocationJournal, Journal
<1>. QED BY <1>1, <1>2, <1>3 DEF WritesKeepLocked

LEMMA ClosingKeepsLocked ==
    ASSUME PoolInv, NEW d \in Deposits, NEW m,
           ReverseDeposit(d, m) \/ Reclass(d, m) \/ ReclassRefundOut(d, m)
    PROVE  WritesKeepLocked
<1>1. CASE ReverseDeposit(d, m)
  <2>1. lines \subseteq lines' /\ \A v \in lines' \ lines : v.src = d /\ v.offset = TRUE
    BY <1>1, ReverseCashLines DEF ReverseDeposit, PoolInv
  <2>. QED BY <1>1, <2>1 DEF ReverseDeposit, WritesKeepLocked, Open, Journal
<1>2. CASE Reclass(d, m)
  BY <1>2 DEF Reclass, WritesKeepLocked, Open, Journal
<1>3. CASE ReclassRefundOut(d, m)
  <2>1. lines \subseteq lines' /\ \A v \in lines' \ lines : v.src = d /\ v.offset = TRUE
    BY <1>3, ReverseCashLines DEF ReclassRefundOut, PoolInv
  <2>. QED BY <1>3, <2>1 DEF ReclassRefundOut, WritesKeepLocked, Open, Journal
<1>. QED BY <1>1, <1>2, <1>3

LEMMA StepKeepsLocked == PoolInv /\ [Next]_vars => [KeepsLockedMonths]_vars
<1> SUFFICES ASSUME PoolInv, Next PROVE KeepsLockedMonths
  OBVIOUS
<1>1. ASSUME NEW d \in Deposits, NEW amt, NEW m, Register(d, amt, m)
      PROVE  WritesKeepLocked
  BY <1>1 DEF Register, WritesKeepLocked, Open, CashLine, Journal
<1>2. ASSUME NEW d \in Deposits, NEW u,
             Reserve(d, u) \/ ReleaseReservation(d, u) \/ ReservationLapses(d)
      PROVE  WritesKeepLocked
  BY <1>2 DEF Reserve, ReleaseReservation, ReservationLapses, WritesKeepLocked
<1>3. ASSUME NEW p \in Payouts, NEW amt, NEW m, Spend(p, amt, m)
      PROVE  WritesKeepLocked
  BY <1>3 DEF Spend, WritesKeepLocked, Open, CashLine, Journal
<1>4. ASSUME NEW m, Lock(m) \/ Unlock(m)
      PROVE  WritesKeepLocked
  BY <1>4 DEF Lock, Unlock, WritesKeepLocked
<1>5. ASSUME NEW d \in Deposits, NEW m,
             ReverseDeposit(d, m) \/ Reclass(d, m) \/ ReclassRefundOut(d, m)
      PROVE  WritesKeepLocked
  BY <1>5, ClosingKeepsLocked
<1>. QED BY <1>1, <1>2, <1>3, <1>4, <1>5, PostKeepsLocked, ReverseEntryKeepsLocked,
     MergeKeepsLocked, WritesKeep DEF Next

(* Whatever is posted, linked, merged, reversed or reclassified, a locked month
   gains no journal and loses none, and its cash lines change only by the offset
   that a deposit's reversal dates like the deposit (assertPeriodOpen). *)
THEOREM LockedLedgerStaysFrozen == Spec => LockedLedgerIsFrozen
BY PoolInvariant, StepKeepsLocked, PTL DEF Spec, LockedLedgerIsFrozen

-----------------------------------------------------------------------------
(* The money: links, cash lines and journals of each deposit and entry.      *)

\* An entry is linked to a deposit at most once.
LinkRows ==
    /\ links \subseteq [dep : Deposits, ent : Entries, amount : Nat, by : Users]
    /\ IsFiniteSet(links)
    /\ \A l \in links : ent[l.ent].st # "none"
    /\ \A l, k \in links : l.ent = k.ent => l = k

LineRows ==
    /\ IsFiniteSet(lines)
    /\ \A v \in lines : /\ v.src \in Sources /\ v.amount \in Int /\ v.month \in Months
                        /\ v.offset \in BOOLEAN
                        /\ v.src \in Entries /\ v.offset = FALSE => v.amount \in Nat

\* What the journals say has happened to deposits and entries.
Closings == {"reverse", "reclass", "refundOut"}
JournalRow(j) ==
    /\ j.kind \in Kinds /\ j.amount \in Nat /\ j.month \in Months
    /\ j.dep \in Deposits => dep[j.dep].st # "none"
    /\ j.dep \in Deposits /\ j.kind \in Closings => dep[j.dep].st \in Terminal
    /\ j.dep \in Deposits /\ j.kind = "refundOut" => dep[j.dep].st = "RECLASSED"
    /\ j.kind = "alloc" => \E l \in links : l.ent = j.ent
JournalRows == IsFiniteSet(journals) /\ \A j \in journals : JournalRow(j)

\* The cash lines of a deposit: its own, and the offset once the money is gone.
CashOf(d) == {v \in lines : v.src = d}
Returned(d) == dep[d].st = "REVERSED" \/ Refunded(d)
DepositLine(d) == CashLine(d, 1, dep[d].amount, dep[d].month)
Cashed(d) ==
    CashOf(d) = IF dep[d].st = "none" THEN {}
                ELSE IF Returned(d) THEN {DepositLine(d), Offset(DepositLine(d), dep[d].month)}
                ELSE {DepositLine(d)}

Dated == \A d \in Deposits : IF dep[d].st = "none" THEN dep[d].amount = 0
                             ELSE dep[d].month \in Months

MoneyInv == /\ LinkRows /\ LineRows /\ JournalRows /\ Dated
            /\ LinksAddUp /\ SuspenseIsUnclaimed /\ NotBackedTwice
            /\ \A d \in Deposits : Cashed(d)
            /\ till \in Nat /\ locks \subseteq Months

-----------------------------------------------------------------------------
(* Lines of one source.                                                      *)

LEMMA LineFieldValues ==
    ASSUME NEW s, NEW i, NEW amt, NEW m
    PROVE  /\ CashLine(s, i, amt, m).src = s /\ CashLine(s, i, amt, m).i = i
           /\ CashLine(s, i, amt, m).amount = amt /\ CashLine(s, i, amt, m).month = m
           /\ CashLine(s, i, amt, m).offset = FALSE /\ Shaped(CashLine(s, i, amt, m))
BY DEF CashLine, Shaped, LineFields

LEMMA OffsetAmount ==
    ASSUME NEW v, Shaped(v), NEW m
    PROVE  Offset(v, m).amount = -v.amount
BY DEF Offset, Shaped, LineFields

\* Lines of other sources leave a source's lines as they are.
LEMMA OtherSource ==
    ASSUME NEW x, lines \subseteq lines', \A w \in lines' \ lines : w.src # x
    PROVE  CashOf(x)' = CashOf(x) /\ LiveLines(x)' = LiveLines(x)
<1>1. \A v : v \in lines' /\ v.src = x <=> v \in lines /\ v.src = x
  OBVIOUS
<1>2. \A v \in CashOf(x)' : v \in CashOf(x)
  BY <1>1 DEF CashOf
<1>3. \A v \in CashOf(x) : v \in CashOf(x)'
  BY <1>1 DEF CashOf
<1>4. \A v \in LiveLines(x)' : v \in LiveLines(x)
  BY <1>1 DEF LiveLines
<1>5. \A v \in LiveLines(x) : v \in LiveLines(x)'
  BY <1>1 DEF LiveLines
<1>. QED BY <1>2, <1>3, <1>4, <1>5

\* Live lines have amounts, those of an entry none below zero.
LEMMA LiveAmounts ==
    ASSUME LineRows, NEW x
    PROVE  /\ HasAmounts(LiveLines(x)) /\ Total(LiveLines(x)) \in Int
           /\ x \in Entries => Total(LiveLines(x)) \in Nat
<1>1. HasAmounts(lines) /\ LiveLines(x) \subseteq lines
  BY DEF LineRows, HasAmounts, LiveLines
<1>2. HasAmounts(LiveLines(x)) /\ Total(LiveLines(x)) \in Int
  BY <1>1, PartHasAmounts, TotalInt
<1>3. ASSUME x \in Entries PROVE Total(LiveLines(x)) \in Nat
  <2> DEFINE f == [v \in LiveLines(x) |-> v.amount]
  <2>1. \A v \in LiveLines(x) : f[v] \in Nat
    BY <1>3 DEF LiveLines, LineRows
  <2>2. Total(LiveLines(x)) = SumFunctionOnSet(f, LiveLines(x))
    BY <1>2, TotalAsSum
  <2> HIDE DEF f
  <2>. QED BY <1>2, <2>1, <2>2, SumNat DEF HasAmounts
<1>. QED BY <1>2, <1>3

\* The offsets of a reversal, and the balance after it.
LEMMA ReverseCashRows ==
    ASSUME NEW src, NEW m \in Months, LinesShaped, LineRows, till \in Nat, ReverseCash(src, m)
    PROVE  LineRows' /\ till' \in Nat
<1> DEFINE b == [v \in LiveLines(src) |-> Offset(v, m)]
           N == {b[v] : v \in LiveLines(src)}
<1>1. Total(LiveLines(src)) \in Int /\ IsFiniteSet(LiveLines(src))
  BY LiveAmounts DEF HasAmounts
<1>2. till' \in Nat
  BY <1>1 DEF ReverseCash
<1>3. \A v \in LiveLines(src) : /\ b[v].src = v.src /\ b[v].amount = -v.amount
                                /\ b[v].month = m /\ b[v].offset = TRUE /\ v \in lines
  <2> TAKE v \in LiveLines(src)
  <2>1. v \in lines /\ Shaped(v)
    BY DEF LiveLines, LinesShaped
  <2>. QED BY <2>1, OffsetFields, OffsetAmount
<1>4. lines' = lines \cup N
  BY DEF ReverseCash
<1>5. IsFiniteSet(N)
  <2> HIDE DEF b
  <2>. QED BY <1>1, FiniteImage
<1>6. IsFiniteSet(lines')
  BY <1>4, <1>5, FS_Union DEF LineRows
<1>7. \A v \in N : /\ v.src \in Sources /\ v.amount \in Int /\ v.month \in Months
                   /\ v.offset = TRUE
  BY <1>3 DEF LineRows
<1> HIDE DEF N, b
<1>8. LineRows'
  BY <1>4, <1>6, <1>7 DEF LineRows, Sources
<1>. QED BY <1>2, <1>8

-----------------------------------------------------------------------------
(* Links.                                                                    *)

BackedBy(e) == {l \in links : l.ent = e}

\* The amounts of the rows after linking.
LEMMA AllocateAmounts ==
    ASSUME NEW d \in Deposits, NEW e \in Entries, NEW u \in Users, NEW amt \in Nat,
           amt > 0, RowsTyped, RowsOK, Allocate(d, e, u, amt)
    PROVE  /\ dep'[d].alloc = dep[d].alloc + amt /\ dep'[d].amount = dep[d].amount
           /\ dep'[d].month = dep[d].month
           /\ dep[d].st \notin Terminal \cup {"none"} /\ dep'[d].st \notin Terminal \cup {"none"}
           /\ \A x \in Deposits \ {d} : dep'[x] = dep[x]
<1>1. dep[d] \in RowType /\ dep' = [dep EXCEPT ![d] = Allocated(d, amt)]
  BY DEF RowsTyped, Allocate
<1>2. dep'[d] = Allocated(d, amt) /\ \A x \in Deposits \ {d} : dep'[x] = dep[x]
  BY <1>1 DEF RowsTyped
<1>3. /\ Allocated(d, amt).alloc = dep[d].alloc + amt
      /\ Allocated(d, amt).amount = dep[d].amount /\ Allocated(d, amt).month = dep[d].month
      /\ Allocated(d, amt).st \in {"OPEN", "PARTIAL", "ALLOCATED"}
  BY <1>1 DEF Allocated, Refreshed, RowType, StatusOf
<1>4. dep[d].st \notin Terminal \cup {"none"}
  BY DEF Allocate, Linkable
<1>. QED BY <1>2, <1>3, <1>4 DEF Terminal

\* Rows whose links and allocated amounts stay.
LEMMA LinksStay ==
    ASSUME LinkRows, LinksAddUp, links' = links,
           \A x \in Deposits : dep'[x].alloc = dep[x].alloc,
           \A x \in Entries : ent[x].st # "none" => ent'[x].st # "none"
    PROVE  /\ LinkRows' /\ LinksAddUp'
           /\ \A x : BackedBy(x)' = BackedBy(x)
<1>1. LinkRows'
  BY DEF LinkRows
<1>2. \A x : LinksOf(x)' = LinksOf(x)
  BY DEF LinksOf
<1>3. LinksAddUp'
  BY <1>2 DEF LinksAddUp
<1>4. \A x : BackedBy(x)' = BackedBy(x)
  BY DEF BackedBy
<1>. QED BY <1>1, <1>3, <1>4

\* Linking a deposit to an entry without links.
LEMMA LinksGrow ==
    ASSUME RowsTyped, RowsOK, LinkRows, LinksAddUp,
           NEW d \in Deposits, NEW e \in Entries, NEW u \in Users, NEW amt \in Nat, amt > 0,
           Allocate(d, e, u, amt), \A l \in links : l.ent # e, ent'[e].st # "none",
           \A x \in Entries : ent[x].st # "none" => ent'[x].st # "none"
    PROVE  /\ LinkRows' /\ LinksAddUp'
           /\ \A x \in Entries \ {e} : BackedBy(x)' = BackedBy(x)
           /\ Total(BackedBy(e)') = amt
           /\ \A l \in links : l \in links'
           /\ \E l \in links' : l.ent = e
<1> DEFINE new == [dep |-> d, ent |-> e, amount |-> amt, by |-> u]
<1>1. links' = links \cup {new}
  BY DEF Allocate
<1>2. new.dep = d /\ new.ent = e /\ new.amount = amt /\ new.by = u
      /\ new \in [dep : Deposits, ent : Entries, amount : Nat, by : Users]
  OBVIOUS
<1> HIDE DEF new
<1>3. new \notin links
  BY <1>2
<1>4. LinkRows'
  <2>1. IsFiniteSet(links')
    BY <1>1, FS_AddElement DEF LinkRows
  <2>2. links' \subseteq [dep : Deposits, ent : Entries, amount : Nat, by : Users]
    BY <1>1, <1>2 DEF LinkRows
  <2>3. \A l \in links' : ent'[l.ent].st # "none"
    BY <1>1, <1>2 DEF LinkRows
  <2>4. \A l, k \in links' : l.ent = k.ent => l = k
    BY <1>1, <1>2 DEF LinkRows
  <2>. QED BY <2>1, <2>2, <2>3, <2>4 DEF LinkRows
<1>5. HasAmounts(links) /\ HasAmounts({new}) /\ Total({new}) = amt
  <2>1. \A l \in links : l.amount \in Int
    BY DEF LinkRows
  <2>. QED BY <1>2, <2>1, TotalOne DEF HasAmounts, LinkRows
<1>6. \A x \in Deposits \ {d} : LinksOf(x)' = LinksOf(x)
  BY <1>1, <1>2 DEF LinksOf
<1>7. LinksOf(d)' = LinksOf(d) \cup {new} /\ LinksOf(d) \cap {new} = {}
  BY <1>1, <1>2, <1>3 DEF LinksOf
<1>8. Total(LinksOf(d)') = dep'[d].alloc
  <2>1. HasAmounts(LinksOf(d))
    BY <1>5, PartHasAmounts DEF LinksOf
  <2>2. Total(LinksOf(d)') = Total(LinksOf(d)) + amt
    BY <1>5, <1>7, <2>1, TotalUnion
  <2>3. dep[d].alloc = Total(LinksOf(d))
    BY DEF LinksAddUp
  <2>4. dep'[d].alloc = dep[d].alloc + amt
    BY AllocateAmounts
  <2>. QED BY <2>2, <2>3, <2>4
<1>9. LinksAddUp'
  <2> SUFFICES ASSUME NEW x \in Deposits PROVE dep'[x].alloc = Total(LinksOf(x)')
    BY DEF LinksAddUp
  <2>1. CASE x = d
    BY <1>8, <2>1
  <2>2. CASE x # d
    <3>1. dep'[x] = dep[x]
      BY <2>2, AllocateAmounts
    <3>. QED BY <1>6, <2>2, <3>1 DEF LinksAddUp
  <2>. QED BY <2>1, <2>2
<1>10. \A x \in Entries \ {e} : BackedBy(x)' = BackedBy(x)
  BY <1>1, <1>2 DEF BackedBy
<1>11. BackedBy(e)' = {new}
  BY <1>1, <1>2 DEF BackedBy
<1>12. Total(BackedBy(e)') = amt
  BY <1>5, <1>11
<1>. QED BY <1>1, <1>2, <1>4, <1>9, <1>10, <1>12

-----------------------------------------------------------------------------
(* Suspense.                                                                 *)

\* What a set of journals holds in suspense.
Held(S) == SumFunction([j \in S |-> IF j.kind = "register" THEN j.amount ELSE -j.amount])
Suspending(d) == {i \in journals : i.dep = d /\ i.kind # "merge"}

LEMMA SuspenseIsHeld ==
    ASSUME NEW d
    PROVE  Suspense(d) = Held(Suspending(d)) /\ Suspense(d)' = Held(Suspending(d)')
BY DEF Suspense, Held, Suspending

LEMMA HeldNothing == Held({}) = 0
<1>1. Held({}) = SumFunctionOnSet([j \in {} |-> IF j.kind = "register" THEN j.amount
                                               ELSE -j.amount], {})
  BY DEF Held, SumFunction
<1>. QED BY <1>1, SumEmpty

LEMMA HeldOneMore ==
    ASSUME NEW S, HasAmounts(S), NEW x, x \notin S, x.amount \in Int
    PROVE  /\ Held(S) \in Int
           /\ Held(S \cup {x}) = Held(S) + (IF x.kind = "register" THEN x.amount ELSE -x.amount)
<1> DEFINE T == S \cup {x}
           f == [j \in S |-> IF j.kind = "register" THEN j.amount ELSE -j.amount]
           g == [j \in T |-> IF j.kind = "register" THEN j.amount ELSE -j.amount]
<1>1. Held(S) = SumFunctionOnSet(f, S) /\ Held(T) = SumFunctionOnSet(g, T)
  BY DEF Held, SumFunction
<1>2. /\ IsFiniteSet(S) /\ \A j \in S : f[j] \in Int /\ f[j] = g[j]
      /\ g[x] = IF x.kind = "register" THEN x.amount ELSE -x.amount
  BY DEF HasAmounts
<1>3. g[x] \in Int
  BY <1>2
<1> HIDE DEF f, g
<1>4. SumFunctionOnSet(f, S) \in Int
  BY <1>2, SumInt
<1>5. SumFunctionOnSet(f, S) = SumFunctionOnSet(g, S)
  BY <1>2, SumEqual
<1>6. SumFunctionOnSet(g, S \cup {x}) = g[x] + SumFunctionOnSet(g, S)
  BY <1>2, <1>3, SumAdd
<1>. QED BY <1>1, <1>2, <1>3, <1>4, <1>5, <1>6

\* Journals of other deposits, and of merges, leave a deposit's suspense.
LEMMA SuspenseStays ==
    ASSUME NEW d, journals \subseteq journals',
           \A j \in journals' \ journals : j.dep = d => j.kind = "merge"
    PROVE  Suspense(d)' = Suspense(d)
<1>1. Suspending(d)' = Suspending(d)
  BY DEF Suspending
<1>. QED BY <1>1, SuspenseIsHeld

\* One more journal of a deposit.
LEMMA SuspenseChanges ==
    ASSUME JournalRows, NEW d, NEW x, x \notin journals, x \in journals', x.dep = d,
           x.kind # "merge", x.amount \in Int, journals \subseteq journals',
           \A j \in journals' \ journals : j.dep = d /\ j.kind # "merge" => j = x
    PROVE  /\ Suspense(d) \in Int
           /\ Suspense(d)' = Suspense(d) + (IF x.kind = "register" THEN x.amount ELSE -x.amount)
<1>1. Suspending(d)' = Suspending(d) \cup {x}
  BY DEF Suspending
<1>2. HasAmounts(journals) /\ Suspending(d) \subseteq journals
  BY DEF JournalRows, JournalRow, HasAmounts, Suspending
<1>3. HasAmounts(Suspending(d)) /\ x \notin Suspending(d)
  BY <1>2, PartHasAmounts
<1>. QED BY <1>1, <1>3, HeldOneMore, SuspenseIsHeld

-----------------------------------------------------------------------------
(* What a step leaves alone.                                                 *)

\* A row that keeps its money: rows of the pool once registered, whatever happens
\* to their status.
Keeps(x) == /\ dep'[x].amount = dep[x].amount /\ dep'[x].month = dep[x].month
            /\ dep[x].st = "none" <=> dep'[x].st = "none"
            /\ dep[x].st \in Terminal => dep'[x].st = dep[x].st

LEMMA JournalsGrow ==
    ASSUME JournalRows, NEW N, IsFiniteSet(N), journals' = journals \cup N,
           \A j \in N : JournalRow(j)', links \subseteq links',
           \A x \in Deposits : /\ dep[x].st # "none" => dep'[x].st # "none"
                               /\ dep[x].st \in Terminal => dep'[x].st = dep[x].st
    PROVE  JournalRows'
<1>1. IsFiniteSet(journals')
  BY FS_Union DEF JournalRows
<1>2. ASSUME NEW j \in journals PROVE JournalRow(j)'
  <2>1. JournalRow(j)
    BY DEF JournalRows
  <2>. QED BY <2>1 DEF JournalRow, Terminal
<1>. QED BY <1>1, <1>2 DEF JournalRows

LEMMA CashedStays ==
    ASSUME NEW d \in Deposits, Cashed(d), CashOf(d)' = CashOf(d), Keeps(d),
           Returned(d)' <=> Returned(d)
    PROVE  Cashed(d)'
<1>1. CashOf(d)' = IF dep[d].st = "none" THEN {}
                   ELSE IF Returned(d)
                   THEN {DepositLine(d), Offset(DepositLine(d), dep[d].month)}
                   ELSE {DepositLine(d)}
  BY DEF Cashed
<1>2. DepositLine(d)' = DepositLine(d) /\ dep'[d].month = dep[d].month
  BY DEF DepositLine, Keeps
<1>3. dep'[d].st = "none" <=> dep[d].st = "none"
  BY DEF Keeps
<1>. QED BY <1>1, <1>2, <1>3 DEF Cashed

\* Neither a refund nor a reversal of the deposit.
LEMMA ReturnedStays ==
    ASSUME NEW d \in Deposits, journals \subseteq journals',
           \A j \in journals' \ journals : j.dep = d => j.kind # "refundOut",
           dep'[d].st = "REVERSED" <=> dep[d].st = "REVERSED"
    PROVE  Returned(d)' <=> Returned(d)
<1>1. Refunded(d)' <=> Refunded(d)
  BY DEF Refunded
<1>. QED BY <1>1 DEF Returned

\* Steps that leave links, lines and journals: reservations and period locks.
LEMMA QuietMoney ==
    ASSUME MoneyInv, UNCHANGED <<ent, links, lines, till, journals>>, locks' \subseteq Months,
           \A x \in Deposits : /\ Keeps(x) /\ dep'[x].alloc = dep[x].alloc
                               /\ dep'[x].st \in Terminal => dep[x].st = dep'[x].st
    PROVE  MoneyInv'
<1>1. LinkRows' /\ LinksAddUp'
  BY LinksStay DEF MoneyInv
<1>2. LineRows'
  BY DEF MoneyInv, LineRows
<1>3. JournalRows'
  <2>1. journals' = journals \cup {} /\ IsFiniteSet({})
    BY FS_EmptySet
  <2>. QED BY <2>1, JournalsGrow DEF MoneyInv, Keeps
<1>4. Dated'
  BY DEF MoneyInv, Dated, Keeps
<1>5. SuspenseIsUnclaimed'
  <2> SUFFICES ASSUME NEW d \in Deposits
               PROVE  Suspense(d)' = IF dep'[d].st \in Terminal THEN 0 ELSE Remaining(d)'
    BY DEF SuspenseIsUnclaimed
  <2>1. Suspense(d)' = Suspense(d)
    BY SuspenseStays
  <2>2. Remaining(d)' = Remaining(d) /\ (dep'[d].st \in Terminal <=> dep[d].st \in Terminal)
    BY DEF Remaining, Keeps
  <2>3. Suspense(d) = IF dep[d].st \in Terminal THEN 0 ELSE Remaining(d)
    BY DEF MoneyInv, SuspenseIsUnclaimed
  <2>. QED BY <2>1, <2>2, <2>3
<1>6. NotBackedTwice'
  <2>1. \A e : LiveLines(e)' = LiveLines(e)
    BY DEF LiveLines
  <2>. QED BY <2>1 DEF MoneyInv, NotBackedTwice
<1>7. \A d \in Deposits : Cashed(d)'
  <2> TAKE d \in Deposits
  <2>1. CashOf(d)' = CashOf(d)
    BY DEF CashOf
  <2>2. Returned(d)' <=> Returned(d)
    BY ReturnedStays DEF Keeps, Terminal
  <2>. QED BY <2>1, <2>2, CashedStays DEF MoneyInv
<1>. QED BY <1>1, <1>2, <1>3, <1>4, <1>5, <1>6, <1>7 DEF MoneyInv

LEMMA ReservationMoney ==
    ASSUME PoolInv, MoneyInv, NEW d \in Deposits, NEW u \in Users,
           Reserve(d, u) \/ ReleaseReservation(d, u) \/ ReservationLapses(d)
    PROVE  MoneyInv'
<1>1. dep[d] \in RowType /\ dep \in [Deposits -> RowType]
  BY DEF PoolInv, RowsTyped
<1>2. PICK row : /\ dep' = [dep EXCEPT ![d] = row] /\ row.amount = dep[d].amount
                 /\ row.alloc = dep[d].alloc /\ row.month = dep[d].month
                 /\ row.st \notin Terminal \cup {"none"}
                 /\ dep[d].st \notin Terminal \cup {"none"}
  <2>1. CASE Reserve(d, u)
    <3> DEFINE row == [dep[d] EXCEPT !.st = "RESERVED", !.by = u, !.expired = FALSE]
    <3>1. dep' = [dep EXCEPT ![d] = row] /\ dep[d].st \notin Terminal \cup {"none"}
      BY <1>1, <2>1 DEF Reserve, Linkable
    <3>2. /\ row.amount = dep[d].amount /\ row.alloc = dep[d].alloc
          /\ row.month = dep[d].month /\ row.st \notin Terminal \cup {"none"}
      BY <1>1 DEF RowType, Terminal
    <3>. QED BY <3>1, <3>2
  <2>2. CASE ReleaseReservation(d, u)
    <3>1. dep' = [dep EXCEPT ![d] = Refreshed(dep[d])] /\ dep[d].st = "RESERVED"
      BY <2>2 DEF ReleaseReservation
    <3>2. /\ Refreshed(dep[d]).amount = dep[d].amount /\ Refreshed(dep[d]).alloc = dep[d].alloc
          /\ Refreshed(dep[d]).month = dep[d].month
          /\ Refreshed(dep[d]).st \notin Terminal \cup {"none"}
      BY <1>1 DEF Refreshed, RowType, Terminal, StatusOf
    <3>. QED BY <3>1, <3>2 DEF Terminal
  <2>3. CASE ReservationLapses(d)
    <3> DEFINE row == [dep[d] EXCEPT !.expired = TRUE]
    <3>1. dep' = [dep EXCEPT ![d] = row] /\ dep[d].st = "RESERVED"
      BY <1>1, <2>3 DEF ReservationLapses
    <3>2. /\ row.amount = dep[d].amount /\ row.alloc = dep[d].alloc
          /\ row.month = dep[d].month /\ row.st = dep[d].st
      BY <1>1 DEF RowType
    <3>. QED BY <3>1, <3>2 DEF Terminal
  <2>. QED BY <2>1, <2>2, <2>3
<1>3. dep'[d] = row /\ \A x \in Deposits \ {d} : dep'[x] = dep[x]
  BY <1>1, <1>2
<1>4. \A x \in Deposits : /\ Keeps(x) /\ dep'[x].alloc = dep[x].alloc
                          /\ dep'[x].st \in Terminal => dep[x].st = dep'[x].st
  BY <1>2, <1>3 DEF Keeps
<1>5. UNCHANGED <<ent, links, lines, till, journals, locks>>
  BY DEF Reserve, ReleaseReservation, ReservationLapses
<1>. QED BY <1>4, <1>5, QuietMoney DEF MoneyInv

-----------------------------------------------------------------------------
(* Registering.                                                              *)

LEMMA RegisterMoney ==
    ASSUME PoolInv, MoneyInv, NEW d \in Deposits, NEW amt \in DepositAmounts, NEW m \in Months,
           Register(d, amt, m)
    PROVE  MoneyInv'
<1> DEFINE row == [NewDeposit EXCEPT !.st = "OPEN", !.amount = amt, !.month = m]
           v == CashLine(d, 1, amt, m)
           j == Journal("register", d, NoId, amt, m)
<1>1. amt \in Nat /\ amt > 0 /\ d \notin Entries /\ NoId # d
  BY PoolAssumption DEF PoolAssumption
<1>2. /\ row.st = "OPEN" /\ row.amount = amt /\ row.alloc = 0 /\ row.month = m
  BY DEF NewDeposit
<1>3. dep'[d] = row /\ \A x \in Deposits \ {d} : dep'[x] = dep[x]
  BY DEF Register, PoolInv, RowsTyped
<1>4. dep[d].st = "none" /\ dep[d].alloc = 0 /\ dep[d].amount = 0
  BY DEF Register, PoolInv, RowsOK, RowOK, MoneyInv, Dated
<1>5. v.src = d /\ v.amount = amt /\ v.month = m /\ v.offset = FALSE
  BY DEF CashLine
<1>6. lines' = lines \cup {v} /\ journals' = journals \cup {j} /\ ent' = ent /\ links' = links
      /\ till' = till + amt /\ locks' = locks
  BY DEF Register
<1>7. /\ j.kind = "register" /\ j.dep = d /\ j.amount = amt /\ j.month = m
  BY DEF Journal
<1>8. DepositLine(d)' = v
  BY <1>2, <1>3 DEF DepositLine
<1> HIDE DEF row, v, j
<1>9. LinkRows' /\ LinksAddUp' /\ \A x : BackedBy(x)' = BackedBy(x)
  <2>1. \A x \in Deposits : dep'[x].alloc = dep[x].alloc
    BY <1>2, <1>3, <1>4
  <2>2. LinkRows /\ LinksAddUp
    BY DEF MoneyInv
  <2>. QED BY <1>6, <2>1, <2>2, LinksStay
<1>10. LineRows'
  <2>1. IsFiniteSet(lines')
    BY <1>6, FS_AddElement DEF MoneyInv, LineRows
  <2>2. /\ v.src \in Sources /\ v.amount \in Int /\ v.month \in Months /\ v.offset \in BOOLEAN
        /\ v.src \notin Entries
    <3>1. v.offset \in BOOLEAN
      BY <1>5, Zenon
    <3>2. v.src \in Sources /\ v.src \notin Entries
      BY <1>1, <1>5 DEF Sources
    <3>. QED BY <1>1, <1>5, <3>1, <3>2
  <2>3. \A w \in lines : /\ w.src \in Sources /\ w.amount \in Int /\ w.month \in Months
                         /\ w.offset \in BOOLEAN
                         /\ w.src \in Entries /\ w.offset = FALSE => w.amount \in Nat
    BY DEF MoneyInv, LineRows
  <2>4. Sources' = Sources
    BY DEF Sources
  <2>. QED BY <1>6, <2>1, <2>2, <2>3, <2>4 DEF LineRows
<1>11. Dated'
  BY <1>2, <1>3 DEF MoneyInv, Dated
<1>12. j \notin journals /\ \A i \in journals : i.dep # d
  BY <1>4, <1>7 DEF MoneyInv, JournalRows, JournalRow
<1>13. JournalRows'
  <2>1. JournalRow(j)'
    BY <1>1, <1>2, <1>3, <1>7 DEF JournalRow, Kinds, Closings
  <2>2. \A x \in Deposits : /\ dep[x].st # "none" => dep'[x].st # "none"
                            /\ dep[x].st \in Terminal => dep'[x].st = dep[x].st
    BY <1>3, <1>4 DEF Terminal
  <2>3. IsFiniteSet({j})
    BY FS_Singleton
  <2>. QED BY <1>6, <2>1, <2>2, <2>3, JournalsGrow DEF MoneyInv
<1>14. SuspenseIsUnclaimed'
  <2> SUFFICES ASSUME NEW x \in Deposits
               PROVE  Suspense(x)' = IF dep'[x].st \in Terminal THEN 0 ELSE Remaining(x)'
    BY DEF SuspenseIsUnclaimed
  <2>1. CASE x = d
    <3>1. Suspense(d) = 0
      <4>1. Suspending(d) = {}
        BY <1>12 DEF Suspending
      <4>. QED BY <4>1, HeldNothing, SuspenseIsHeld
    <3>2. Suspense(d)' = Suspense(d) + amt
      <4>1. JournalRows /\ j.amount \in Int
        BY <1>1, <1>7 DEF MoneyInv
      <4>. QED BY <1>6, <1>7, <1>12, <4>1, SuspenseChanges
    <3>. QED BY <1>1, <1>2, <1>3, <2>1, <3>1, <3>2 DEF Remaining, Terminal
  <2>2. CASE x # d
    <3>1. Suspense(x)' = Suspense(x)
      BY <1>6, <1>7, <2>2, SuspenseStays
    <3>. QED BY <1>3, <2>2, <3>1 DEF MoneyInv, SuspenseIsUnclaimed, Remaining
  <2>. QED BY <2>1, <2>2
<1>15. NotBackedTwice'
  <2> SUFFICES ASSUME NEW e \in Entries
               PROVE  Total(LiveLines(e)') + Total(BackedBy(e)') <= ent'[e].amount
    BY DEF NotBackedTwice, BackedBy
  <2>1. LiveLines(e)' = LiveLines(e)
    BY <1>1, <1>5, <1>6, OtherSource
  <2>. QED BY <1>6, <1>9, <2>1 DEF MoneyInv, NotBackedTwice, BackedBy
<1>16. \A x \in Deposits : Cashed(x)'
  <2> TAKE x \in Deposits
  <2>1. CASE x = d
    <3>1. CashOf(d) = {}
      BY <1>4 DEF MoneyInv, Cashed
    <3>2. CashOf(d)' = {v}
      BY <1>5, <1>6, <3>1 DEF CashOf
    <3>3. ~Returned(d)'
      BY <1>2, <1>3, <1>6, <1>7, <1>12 DEF Returned, Refunded
    <3>4. dep'[d].st # "none"
      BY <1>2, <1>3
    <3>. QED BY <1>8, <2>1, <3>2, <3>3, <3>4 DEF Cashed
  <2>2. CASE x # d
    <3>1. CashOf(x)' = CashOf(x)
      BY <1>5, <1>6, <2>2, OtherSource
    <3>2. Returned(x)' <=> Returned(x)
      BY <1>3, <1>6, <1>7, <2>2, ReturnedStays
    <3>3. Keeps(x) /\ Cashed(x)
      BY <1>3, <2>2 DEF Keeps, MoneyInv
    <3>. QED BY <3>1, <3>2, <3>3, CashedStays
  <2>. QED BY <2>1, <2>2
<1>17. till' \in Nat /\ locks' \subseteq Months
  BY <1>1, <1>6 DEF MoneyInv
<1>. QED BY <1>9, <1>10, <1>11, <1>13, <1>14, <1>15, <1>16, <1>17 DEF MoneyInv

-----------------------------------------------------------------------------
(* Entries and payouts.                                                      *)

\* New lines of one source that is no deposit leave the deposits' lines, and the
\* live lines of the other entries.
LEMMA LinesElsewhere ==
    ASSUME NEW s, s \notin Deposits, lines \subseteq lines',
           \A w \in lines' \ lines : w.src = s
    PROVE  /\ \A x \in Deposits : CashOf(x)' = CashOf(x)
           /\ \A x \in Entries \ {s} : LiveLines(x)' = LiveLines(x)
<1>1. ASSUME NEW x \in Deposits PROVE CashOf(x)' = CashOf(x)
  BY <1>1, OtherSource
<1>2. ASSUME NEW x \in Entries \ {s} PROVE LiveLines(x)' = LiveLines(x)
  BY <1>2, OtherSource
<1>. QED BY <1>1, <1>2

\* Steps that touch no deposit: one journal, and lines of one source.
LEMMA OutsideMoney ==
    ASSUME PoolInv, MoneyInv, UNCHANGED <<dep, links, locks>>,
           NEW s, s \notin Deposits, lines \subseteq lines', \A w \in lines' \ lines : w.src = s,
           LineRows', till' \in Nat,
           NEW k, journals' = journals \cup {k}, k.dep = NoId, k.amount \in Nat, k.month \in Months,
           k.kind \in {"receipt", "receiptReversal", "spend"},
           \A x \in Entries : ent[x].st # "none" => ent'[x].st # "none",
           \A x \in Entries \ {s} : ent'[x] = ent[x],
           s \in Entries => Total(LiveLines(s)') + Total(BackedBy(s)) <= ent'[s].amount
    PROVE  MoneyInv'
<1>1. NoId \notin Deposits
  BY PoolAssumption DEF PoolAssumption
<1>2. LinkRows' /\ LinksAddUp' /\ \A x : BackedBy(x)' = BackedBy(x)
  BY LinksStay DEF MoneyInv
<1>3. JournalRows'
  <2>1. JournalRow(k)'
    BY <1>1 DEF JournalRow, Kinds
  <2>2. IsFiniteSet({k})
    BY FS_Singleton
  <2>. QED BY <2>1, <2>2, JournalsGrow DEF MoneyInv
<1>4. Dated'
  BY DEF MoneyInv, Dated
<1>5. SuspenseIsUnclaimed'
  <2>1. \A x \in Deposits : Suspense(x)' = Suspense(x)
    BY <1>1, SuspenseStays
  <2>. QED BY <2>1 DEF MoneyInv, SuspenseIsUnclaimed, Remaining
<1>6. NotBackedTwice'
  <2> SUFFICES ASSUME NEW e \in Entries
               PROVE  Total(LiveLines(e)') + Total(BackedBy(e)') <= ent'[e].amount
    BY DEF NotBackedTwice, BackedBy
  <2>1. CASE e = s
    BY <1>2, <2>1
  <2>2. CASE e # s
    <3>1. LiveLines(e)' = LiveLines(e)
      BY <2>2, LinesElsewhere
    <3>. QED BY <1>2, <2>2, <3>1 DEF MoneyInv, NotBackedTwice, BackedBy
  <2>. QED BY <2>1, <2>2
<1>7. \A x \in Deposits : Cashed(x)'
  <2> TAKE x \in Deposits
  <2>1. CashOf(x)' = CashOf(x)
    BY LinesElsewhere
  <2>2. Returned(x)' <=> Returned(x)
    BY <1>1, ReturnedStays
  <2>3. Keeps(x) /\ Cashed(x)
    BY DEF Keeps, MoneyInv
  <2>. QED BY <2>1, <2>2, <2>3, CashedStays
<1>. QED BY <1>2, <1>3, <1>4, <1>5, <1>6, <1>7 DEF MoneyInv

\* Steps that link a deposit to an entry: the journal of the link and another one,
\* and lines of the entry.
LEMMA LinkingMoney ==
    ASSUME PoolInv, MoneyInv, locks' = locks,
           NEW d \in Deposits, NEW e \in Entries, NEW u \in Users, NEW amt \in Nat, amt > 0,
           Allocate(d, e, u, amt), \A l \in links : l.ent # e,
           lines \subseteq lines', \A w \in lines' \ lines : w.src = e, LineRows', till' \in Nat,
           NEW k, journals' = journals \cup {AllocationJournal(d, e, amt), k},
           k.amount \in Nat, k.month \in Months,
           \/ k.kind = "receipt" /\ k.dep = NoId
           \/ k.kind = "merge" /\ k.dep = d,
           \A x \in Entries : ent[x].st # "none" => ent'[x].st # "none",
           ent'[e].st # "none", \A x \in Entries \ {e} : ent'[x] = ent[x],
           Total(LiveLines(e)') + amt <= ent'[e].amount
    PROVE  MoneyInv'
<1>0. PICK j : j = AllocationJournal(d, e, amt)
  OBVIOUS
<1>1. NoId \notin Deposits /\ e \notin Deposits
  BY PoolAssumption DEF PoolAssumption
<1>2. RowsTyped /\ RowsOK
  BY DEF PoolInv
<1>3. /\ dep'[d].alloc = dep[d].alloc + amt /\ dep'[d].amount = dep[d].amount
      /\ dep'[d].month = dep[d].month
      /\ dep[d].st \notin Terminal \cup {"none"} /\ dep'[d].st \notin Terminal \cup {"none"}
      /\ \A x \in Deposits \ {d} : dep'[x] = dep[x]
  BY <1>2, AllocateAmounts
<1>4. /\ LinkRows' /\ LinksAddUp' /\ Total(BackedBy(e)') = amt
      /\ \A x \in Entries \ {e} : BackedBy(x)' = BackedBy(x)
      /\ links \subseteq links' /\ \E l \in links' : l.ent = e
  BY <1>2, LinksGrow DEF MoneyInv
<1>5. /\ j.kind = "alloc" /\ j.dep = d /\ j.ent = e /\ j.amount = amt
      /\ j.month = dep[d].month
  BY <1>0 DEF AllocationJournal, Journal
<1>6. dep[d].month \in Months
  BY <1>3 DEF MoneyInv, Dated
<1>7. \A x \in Deposits : Keeps(x)
  BY <1>3 DEF Keeps
<1>8. JournalRows'
  <2>1. JournalRow(j)'
    BY <1>3, <1>4, <1>5, <1>6 DEF JournalRow, Kinds, Closings
  <2>2. JournalRow(k)'
    BY <1>1, <1>3 DEF JournalRow, Kinds, Closings
  <2>3. IsFiniteSet({j, k})
    <3>1. IsFiniteSet({j}) /\ IsFiniteSet({k})
      BY FS_Singleton
    <3>2. {j, k} = {j} \cup {k}
      OBVIOUS
    <3>3. IsFiniteSet({j} \cup {k})
      BY <3>1, FS_AddElement
    <3>. QED BY <3>2, <3>3
  <2>4. \A i \in {j, k} : JournalRow(i)'
    BY <2>1, <2>2
  <2>5. journals' = journals \cup {j, k}
    BY <1>0
  <2>6. \A x \in Deposits : /\ dep[x].st # "none" => dep'[x].st # "none"
                            /\ dep[x].st \in Terminal => dep'[x].st = dep[x].st
    BY <1>7 DEF Keeps
  <2>. QED BY <1>4, <2>3, <2>4, <2>5, <2>6, JournalsGrow DEF MoneyInv
<1>9. Dated'
  BY <1>7 DEF MoneyInv, Dated, Keeps
<1>10. /\ journals' = journals \cup {j, k} /\ j \notin journals
  <2>1. \A i \in journals : i.kind = "alloc" => i.ent # e
    BY DEF MoneyInv, JournalRows, JournalRow
  <2>. QED BY <1>0, <1>5, <2>1
<1>11. SuspenseIsUnclaimed'
  <2> SUFFICES ASSUME NEW x \in Deposits
               PROVE  Suspense(x)' = IF dep'[x].st \in Terminal THEN 0 ELSE Remaining(x)'
    BY DEF SuspenseIsUnclaimed
  <2>1. CASE x = d
    <3>1. Suspense(d) = Remaining(d)
      BY <1>3 DEF MoneyInv, SuspenseIsUnclaimed
    <3>2. Suspense(d) \in Int /\ Suspense(d)' = Suspense(d) - amt
      <4>1. k.dep # d \/ k.kind = "merge"
        BY <1>1
      <4>2. \A i \in journals' \ journals : i.dep = d /\ i.kind # "merge" => i = j
        BY <1>10, <4>1
      <4>3. JournalRows /\ j.amount \in Int /\ j.kind # "merge" /\ j.kind # "register"
        BY <1>5 DEF MoneyInv
      <4>. QED BY <1>5, <1>10, <4>2, <4>3, SuspenseChanges
    <3>3. Remaining(d)' = Remaining(d) - amt
      BY <1>2, <1>3 DEF Remaining, RowsTyped, RowType
    <3>. QED BY <1>3, <2>1, <3>1, <3>2, <3>3
  <2>2. CASE x # d
    <3>1. Suspense(x)' = Suspense(x)
      BY <1>1, <1>5, <1>10, <2>2, SuspenseStays
    <3>. QED BY <1>3, <2>2, <3>1 DEF MoneyInv, SuspenseIsUnclaimed, Remaining
  <2>. QED BY <2>1, <2>2
<1>12. NotBackedTwice'
  <2> SUFFICES ASSUME NEW x \in Entries
               PROVE  Total(LiveLines(x)') + Total(BackedBy(x)') <= ent'[x].amount
    BY DEF NotBackedTwice, BackedBy
  <2>1. CASE x = e
    BY <1>4, <2>1
  <2>2. CASE x # e
    <3>1. LiveLines(x)' = LiveLines(x)
      BY <1>1, <2>2, LinesElsewhere
    <3>. QED BY <1>4, <2>2, <3>1 DEF MoneyInv, NotBackedTwice, BackedBy
  <2>. QED BY <2>1, <2>2
<1>13. \A x \in Deposits : Cashed(x)'
  <2> TAKE x \in Deposits
  <2>1. CashOf(x)' = CashOf(x)
    BY <1>1, LinesElsewhere
  <2>2. Returned(x)' <=> Returned(x)
    <3>1. dep'[x].st = "REVERSED" <=> dep[x].st = "REVERSED"
      BY <1>3 DEF Terminal
    <3>. QED BY <1>5, <1>10, <3>1, ReturnedStays
  <2>. QED BY <1>7, <2>1, <2>2, CashedStays DEF MoneyInv
<1>. QED BY <1>4, <1>8, <1>9, <1>11, <1>12, <1>13 DEF MoneyInv

\* The payment lines of a new entry: its live lines, which make up the cash due.
LEMMA PostLines ==
    ASSUME PoolInv, LineRows, NEW e \in Entries, NEW m \in Months, NEW due \in Nat,
           NEW parts, parts \in Splits(due), ent[e].st = "none",
           lines' = lines \cup {CashLine(e, i, parts[i], m) : i \in DOMAIN parts}
    PROVE  /\ lines \subseteq lines' /\ \A w \in lines' \ lines : w.src = e
           /\ LineRows' /\ Total(LiveLines(e)') = due
<1> DEFINE N == {CashLine(e, i, parts[i], m) : i \in DOMAIN parts}
           Row(v) == v.src = e /\ v.amount \in Nat /\ v.month = m /\ v.offset = FALSE
<1>1. IsFiniteSet(N) /\ (\A v \in N : Row(v)) /\ Total(N) = due
  <2>1. CASE due = 0
    <3>1. parts = <<>>
      BY <2>1 DEF Splits
    <3>2. N = {}
      BY <3>1
    <3>. QED BY <2>1, <3>2, FS_EmptySet, TotalEmpty
  <2>2. CASE due # 0 /\ parts = <<due>>
    <3>1. PICK a : a = CashLine(e, 1, due, m)
      OBVIOUS
    <3>2. N = {a}
      BY <2>2, <3>1
    <3>3. Row(a) /\ a.amount = due
      BY <3>1 DEF CashLine
    <3> HIDE DEF N
    <3>4. HasAmounts({a}) /\ Total({a}) = due
      BY <3>3, TotalOne
    <3>. QED BY <3>2, <3>3, <3>4 DEF HasAmounts
  <2>3. ASSUME due # 0, NEW x \in 1..(due - 1), parts = <<x, due - x>>
        PROVE  IsFiniteSet(N) /\ (\A v \in N : Row(v)) /\ Total(N) = due
    <3>1. PICK a : a = CashLine(e, 1, x, m)
      OBVIOUS
    <3>2. PICK b : b = CashLine(e, 2, due - x, m)
      OBVIOUS
    <3>3. N = {a} \cup {b}
      <4>1. DOMAIN parts = {1, 2} /\ parts[1] = x /\ parts[2] = due - x
        BY <2>3
      <4>. QED BY <3>1, <3>2, <4>1
    <3>4. Row(a) /\ a.amount = x /\ a.i = 1
      BY <3>1 DEF CashLine
    <3>5. Row(b) /\ b.amount = due - x /\ b.i = 2
      BY <3>2 DEF CashLine
    <3> HIDE DEF N
    <3>6. HasAmounts({a}) /\ Total({a}) = x /\ HasAmounts({b}) /\ Total({b}) = due - x
      BY <3>4, <3>5, TotalOne
    <3>7. {a} \cap {b} = {}
      BY <3>4, <3>5
    <3>8. Total(N) = due
      <4>1. Total(N) = Total({a}) + Total({b})
        BY <3>3, <3>6, <3>7, TotalUnion
      <4>. QED BY <3>6, <4>1
    <3>9. IsFiniteSet(N)
      BY <3>3, <3>6, UnionHasAmounts DEF HasAmounts
    <3>. QED BY <3>3, <3>4, <3>5, <3>8, <3>9
  <2>. QED BY <2>1, <2>2, <2>3 DEF Splits
<1>2. lines' = lines \cup N
  OBVIOUS
<1> HIDE DEF N
<1>3. \A v \in lines : v.src # e
  BY DEF PoolInv, LinesOwned
<1>4. LiveLines(e)' = N
  <2>1. \A v \in LiveLines(e)' : v \in N
    BY <1>2, <1>3 DEF LiveLines
  <2>2. \A v \in N : v \in LiveLines(e)'
    BY <1>1, <1>2, <1>3 DEF LiveLines
  <2>. QED BY <2>1, <2>2
<1>5. LineRows'
  <2>1. IsFiniteSet(lines')
    BY <1>1, <1>2, FS_Union DEF LineRows
  <2>2. Sources' = Sources
    BY DEF Sources
  <2>3. \A v \in N : /\ v.src \in Sources /\ v.amount \in Int /\ v.month \in Months
                     /\ v.src \in Entries /\ v.offset = FALSE => v.amount \in Nat
    BY <1>1 DEF Sources
  <2>4. \A v \in N : v.offset \in BOOLEAN
    <3>1. \A v \in N : v.offset = FALSE
      BY <1>1
    <3>. QED BY <3>1, Zenon
  <2>. QED BY <1>2, <2>1, <2>2, <2>3, <2>4 DEF LineRows
<1>. QED BY <1>1, <1>2, <1>4, <1>5

LEMMA PostMoney ==
    ASSUME PoolInv, MoneyInv, NEW e \in Entries, NEW u \in Users, NEW d \in Deposits \cup {NoId},
           NEW amt \in EntryAmounts, NEW m \in Months, NEW parts, Post(e, u, d, amt, m, parts)
    PROVE  MoneyInv'
<1>0. PICK c : c = Cover(d, amt)
  OBVIOUS
<1>1. amt \in Nat /\ amt > 0 /\ e \notin Deposits
  BY PoolAssumption DEF PoolAssumption
<1>2. PostCovered(e, u, d, amt, m, parts, c)
  BY <1>0 DEF Post
<1>3. /\ ent[e].st = "none" /\ parts \in Splits(amt - c)
      /\ lines' = lines \cup {CashLine(e, i, parts[i], m) : i \in DOMAIN parts}
      /\ till' = till + (amt - c) /\ locks' = locks
  BY <1>2 DEF PostCovered, CashDue
<1>4. /\ ent'[e].st = "posted" /\ ent'[e].amount = amt
      /\ \A x \in Entries \ {e} : ent'[x] = ent[x]
  BY <1>2 DEF PostCovered, PoolInv, RowsTyped
<1>5. \A x \in Entries : ent[x].st # "none" => ent'[x].st # "none"
  BY <1>4
<1>6. \A l \in links : l.ent # e
  BY <1>3 DEF MoneyInv, LinkRows
<1>7. PICK k : k = Journal("receipt", NoId, e, amt, m)
  OBVIOUS
<1>8. k.kind = "receipt" /\ k.dep = NoId /\ k.amount = amt /\ k.month = m
  BY <1>7 DEF Journal
<1>9. ASSUME c \in Nat, c <= amt
      PROVE  /\ lines \subseteq lines' /\ \A w \in lines' \ lines : w.src = e
             /\ LineRows' /\ Total(LiveLines(e)') = amt - c /\ till' \in Nat
  <2>1. amt - c \in Nat
    BY <1>1, <1>9
  <2>2. LineRows
    BY DEF MoneyInv
  <2>3. /\ lines \subseteq lines' /\ \A w \in lines' \ lines : w.src = e
        /\ LineRows' /\ Total(LiveLines(e)') = amt - c
    BY <1>3, <2>1, <2>2, PostLines
  <2>4. till' \in Nat
    BY <1>3, <2>1 DEF MoneyInv
  <2>. QED BY <2>3, <2>4
<1>10. CASE d = NoId
  <2>1. c = 0
    BY <1>0, <1>10 DEF Cover
  <2>2. /\ lines \subseteq lines' /\ \A w \in lines' \ lines : w.src = e
        /\ LineRows' /\ Total(LiveLines(e)') = amt /\ till' \in Nat
    BY <1>1, <1>9, <2>1
  <2>3. UNCHANGED <<dep, links, locks>> /\ journals' = journals \cup {k}
    BY <1>2, <1>7, <1>10 DEF PostCovered
  <2>4. Total(BackedBy(e)) = 0
    <3>1. BackedBy(e) = {}
      BY <1>6 DEF BackedBy
    <3>. QED BY <3>1, TotalEmpty
  <2>5. Total(LiveLines(e)') + Total(BackedBy(e)) <= ent'[e].amount
    BY <1>1, <1>4, <2>2, <2>4
  <2>. QED BY <1>1, <1>4, <1>5, <1>8, <2>2, <2>3, <2>5, OutsideMoney
<1>11. CASE d # NoId
  <2>1. d \in Deposits /\ c > 0 /\ Allocate(d, e, u, c)
    BY <1>2, <1>11 DEF PostCovered
  <2>2. c \in Nat /\ c <= amt
    <3>1. dep[d] \in RowType
      BY <2>1 DEF PoolInv, RowsTyped
    <3>2. Remaining(d) \in Int /\ amt \in Int
      BY <1>1, <3>1 DEF Remaining, RowType
    <3>3. c = Min({amt, Remaining(d)})
      BY <1>0, <1>11 DEF Cover
    <3>4. Min({amt, Remaining(d)}) \in Int /\ Min({amt, Remaining(d)}) <= amt
      BY <3>2, MinOfTwo, Zenon
    <3>. QED BY <2>1, <3>3, <3>4
  <2>3. /\ lines \subseteq lines' /\ \A w \in lines' \ lines : w.src = e
        /\ LineRows' /\ Total(LiveLines(e)') = amt - c /\ till' \in Nat
    BY <1>9, <2>2
  <2>4. journals' = journals \cup {AllocationJournal(d, e, c), k}
    <3>1. journals' = journals \cup {k} \cup {AllocationJournal(d, e, c)}
      BY <1>2, <1>7, <1>11 DEF PostCovered
    <3>. QED BY <3>1
  <2>5. Total(LiveLines(e)') + c <= ent'[e].amount
    BY <1>1, <1>4, <2>2, <2>3
  <2>6. ent'[e].st # "none"
    BY <1>4
  <2>. QED BY <1>1, <1>3, <1>4, <1>5, <1>6, <1>8, <2>1, <2>2, <2>3, <2>4, <2>5, <2>6, LinkingMoney
<1>. QED BY <1>10, <1>11

LEMMA ReverseEntryMoney ==
    ASSUME PoolInv, MoneyInv, NEW e \in Entries, NEW m \in Months, ReverseEntry(e, m)
    PROVE  MoneyInv'
<1>1. e \notin Deposits
  BY PoolAssumption DEF PoolAssumption
<1>2. ReverseCash(e, m) /\ LinesShaped /\ LineRows /\ till \in Nat
  BY DEF ReverseEntry, PoolInv, MoneyInv
<1>3. /\ lines \subseteq lines' /\ \A w \in lines' \ lines : w.src = e
      /\ LiveLines(e)' = {} /\ LineRows' /\ till' \in Nat
  BY <1>2, ReverseCashLines, ReverseCashRows
<1>4. /\ ent'[e].st = "reversed" /\ ent'[e].amount = ent[e].amount
      /\ \A x \in Entries \ {e} : ent'[x] = ent[x]
  BY DEF ReverseEntry, PoolInv, RowsTyped
<1>5. \A x \in Entries : ent[x].st # "none" => ent'[x].st # "none"
  BY <1>4
<1>6. PICK k : k = Journal("receiptReversal", NoId, e, ent[e].amount, m)
  OBVIOUS
<1>7. /\ k.kind = "receiptReversal" /\ k.dep = NoId /\ k.amount \in Nat /\ k.month = m
  BY <1>6 DEF Journal, PoolInv, RowsTyped
<1>8. UNCHANGED <<dep, links, locks>> /\ journals' = journals \cup {k}
  BY <1>6 DEF ReverseEntry
<1>9. Total(LiveLines(e)') + Total(BackedBy(e)) <= ent'[e].amount
  <2>1. Total(LiveLines(e)) + Total(BackedBy(e)) <= ent[e].amount
    BY DEF MoneyInv, NotBackedTwice, BackedBy
  <2>2. Total(LiveLines(e)) \in Nat
    BY <1>2, LiveAmounts
  <2>3. Total(BackedBy(e)) \in Int
    <3>1. HasAmounts(links) /\ BackedBy(e) \subseteq links
      BY DEF MoneyInv, LinkRows, HasAmounts, BackedBy
    <3>. QED BY <3>1, PartHasAmounts, TotalInt
  <2>4. ent[e].amount \in Nat
    BY DEF PoolInv, RowsTyped
  <2>. QED BY <1>3, <1>4, <2>1, <2>2, <2>3, <2>4, TotalEmpty
<1>. QED BY <1>1, <1>3, <1>4, <1>5, <1>7, <1>8, <1>9, OutsideMoney

LEMMA MergeMoney ==
    ASSUME PoolInv, MoneyInv, NEW d \in Deposits, NEW e \in Entries, NEW u \in Users, Merge(d, e, u)
    PROVE  MoneyInv'
<1>0. PICK amt : amt = Min({Remaining(d), ent[e].amount})
  OBVIOUS
<1>1. /\ Allocate(d, e, u, amt) /\ Mergeable(d, e) /\ ReverseCash(e, dep[d].month)
      /\ ent' = ent /\ locks' = locks
  BY <1>0 DEF Merge
<1>2. dep[d] \in RowType /\ ent[e].amount \in Nat
  BY DEF PoolInv, RowsTyped
<1>3. Remaining(d) \in Int /\ Remaining(d) > 0 /\ dep[d].st # "none"
  BY <1>1, <1>2 DEF Remaining, RowType, Mergeable
<1>4. ent[e].st # "none" /\ ent[e].amount > 0
  <2>1. PICK v \in LiveLines(e) : TRUE
    BY <1>1 DEF Mergeable
  <2>2. ent[e].st # "none"
    BY <2>1 DEF LiveLines, PoolInv, LinesOwned
  <2>. QED BY <2>2 DEF PoolInv, EntriesOK
<1>5. amt \in Nat /\ amt > 0 /\ amt <= ent[e].amount
  <2>1. ent[e].amount \in Int
    BY <1>2
  <2>2. /\ Min({Remaining(d), ent[e].amount}) \in {Remaining(d), ent[e].amount}
        /\ Min({Remaining(d), ent[e].amount}) \in Int
        /\ Min({Remaining(d), ent[e].amount}) <= ent[e].amount
    BY <1>3, <2>1, MinOfTwo, Zenon
  <2>. QED BY <1>0, <1>3, <1>4, <2>2
<1>6. dep[d].month \in Months
  BY <1>3 DEF MoneyInv, Dated
<1>7. /\ lines \subseteq lines' /\ \A w \in lines' \ lines : w.src = e
      /\ LiveLines(e)' = {} /\ LineRows' /\ till' \in Nat
  <2>1. LinesShaped /\ LineRows /\ till \in Nat
    BY DEF PoolInv, MoneyInv
  <2>. QED BY <1>1, <1>6, <2>1, ReverseCashLines, ReverseCashRows
<1>8. \A l \in links : l.ent # e
  BY <1>1 DEF Mergeable
<1>9. PICK k : k = Journal("merge", d, e, amt, dep[d].month)
  OBVIOUS
<1>10. /\ k.kind = "merge" /\ k.dep = d /\ k.amount \in Nat /\ k.month \in Months
  BY <1>5, <1>6, <1>9 DEF Journal
<1>11. journals' = journals \cup {AllocationJournal(d, e, amt), k}
  BY <1>0, <1>9 DEF Merge
<1>12. Total(LiveLines(e)') + amt <= ent'[e].amount
  BY <1>1, <1>2, <1>5, <1>7, TotalEmpty
<1>. QED BY <1>1, <1>4, <1>5, <1>7, <1>8, <1>10, <1>11, <1>12, LinkingMoney

LEMMA SpendMoney ==
    ASSUME PoolInv, MoneyInv, NEW p \in Payouts, NEW amt \in PayoutAmounts, NEW m \in Months,
           Spend(p, amt, m)
    PROVE  MoneyInv'
<1>1. p \notin Deposits \cup Entries /\ amt \in Nat
  BY PoolAssumption DEF PoolAssumption
<1>2. PICK v : v = CashLine(p, 1, -amt, m)
  OBVIOUS
<1>3. v.src = p /\ v.amount = -amt /\ v.month = m /\ v.offset = FALSE
  BY <1>2 DEF CashLine
<1>4. PICK k : k = Journal("spend", NoId, p, amt, m)
  OBVIOUS
<1>5. k.kind = "spend" /\ k.dep = NoId /\ k.amount = amt /\ k.month = m
  BY <1>4 DEF Journal
<1>6. /\ lines' = lines \cup {v} /\ journals' = journals \cup {k} /\ ent' = ent
      /\ UNCHANGED <<dep, links, locks>> /\ amt <= till /\ till' = till - amt
  BY <1>2, <1>4 DEF Spend
<1>7. LineRows'
  <2>1. IsFiniteSet(lines')
    BY <1>6, FS_AddElement DEF MoneyInv, LineRows
  <2>2. v.offset \in BOOLEAN
    BY <1>3, Zenon
  <2>3. /\ v.src \in Sources /\ v.amount \in Int /\ v.month \in Months /\ v.src \notin Entries
    BY <1>1, <1>3 DEF Sources
  <2>4. Sources' = Sources
    BY DEF Sources
  <2>. QED BY <1>6, <2>1, <2>2, <2>3, <2>4 DEF MoneyInv, LineRows
<1>8. till' \in Nat
  BY <1>1, <1>6 DEF MoneyInv
<1>9. lines \subseteq lines' /\ \A w \in lines' \ lines : w.src = p
  BY <1>3, <1>6
<1>. QED BY <1>1, <1>5, <1>6, <1>7, <1>8, <1>9, OutsideMoney

-----------------------------------------------------------------------------
(* Closing a deposit.                                                        *)

\* The one line of a deposit of the pool, which a reversal offsets.
LEMMA OpenDepositCash ==
    ASSUME PoolInv, MoneyInv, NEW d \in Deposits, Closable(d)
    PROVE  /\ ~Returned(d) /\ CashOf(d) = {DepositLine(d)} /\ LiveLines(d) = {DepositLine(d)}
           /\ \A j \in journals : j.dep = d => j.kind \notin Closings
<1>1. dep[d].st \notin Terminal \cup {"none"}
  BY DEF Closable
<1>2. \A j \in journals : j.dep = d => j.kind \notin Closings
  BY <1>1 DEF MoneyInv, JournalRows, JournalRow
<1>3. ~Returned(d)
  BY <1>1, <1>2 DEF Returned, Refunded, Closings, Terminal
<1>4. CashOf(d) = {DepositLine(d)}
  BY <1>1, <1>3 DEF MoneyInv, Cashed
<1>5. DepositLine(d).src = d /\ DepositLine(d).offset = FALSE
  BY DEF DepositLine, CashLine
<1>6. LiveLines(d) = {DepositLine(d)}
  <2>1. \A v \in LiveLines(d) : v = DepositLine(d)
    BY <1>4 DEF LiveLines, CashOf
  <2>2. DepositLine(d) \in LiveLines(d)
    BY <1>4, <1>5 DEF LiveLines, CashOf
  <2>. QED BY <2>1, <2>2
<1>. QED BY <1>2, <1>3, <1>4, <1>6

LEMMA ClosingMoney ==
    ASSUME PoolInv, MoneyInv, NEW d \in Deposits, NEW st \in Terminal, Closable(d),
           dep' = Closed(d, st), UNCHANGED <<ent, links, locks>>,
           NEW k, journals' = journals \cup {k}, k.dep = d, k.amount = dep[d].amount,
           k.month \in Months, k.kind \in Closings,
           \/ k.kind = "reclass" /\ st = "RECLASSED" /\ UNCHANGED <<lines, till>>
           \/ /\ ReverseCash(d, dep[d].month)
              /\ \/ k.kind = "reverse" /\ st = "REVERSED"
                 \/ k.kind = "refundOut" /\ st = "RECLASSED"
    PROVE  MoneyInv'
<1>1. /\ dep[d] \in RowType /\ dep[d].st \notin Terminal \cup {"none"} /\ dep[d].alloc = 0
      /\ d \notin Entries
  BY PoolAssumption DEF PoolInv, RowsTyped, Closable, PoolAssumption
<1>2. /\ dep'[d].st = st /\ dep'[d].alloc = 0 /\ dep'[d].amount = dep[d].amount
      /\ dep'[d].month = dep[d].month
      /\ \A x \in Deposits \ {d} : dep'[x] = dep[x]
  BY <1>1 DEF Closed, PoolInv, RowsTyped, RowType
<1>3. /\ ~Returned(d) /\ CashOf(d) = {DepositLine(d)} /\ LiveLines(d) = {DepositLine(d)}
      /\ \A j \in journals : j.dep = d => j.kind \notin Closings
  BY OpenDepositCash
<1>4. \A x \in Deposits : Keeps(x) /\ dep'[x].alloc = dep[x].alloc
  BY <1>1, <1>2 DEF Keeps, Terminal
<1>5. LinkRows' /\ LinksAddUp' /\ \A x : BackedBy(x)' = BackedBy(x)
  BY <1>4, LinksStay DEF MoneyInv
<1>6. dep[d].month \in Months /\ dep[d].amount \in Nat
  BY <1>1 DEF MoneyInv, Dated, RowType
<1>7. /\ lines \subseteq lines' /\ \A w \in lines' \ lines : w.src = d
      /\ LineRows' /\ till' \in Nat
  <2>1. CASE UNCHANGED <<lines, till>>
    <3>1. LineRows'
      BY <2>1 DEF MoneyInv, LineRows
    <3>. QED BY <2>1, <3>1 DEF MoneyInv
  <2>2. CASE ReverseCash(d, dep[d].month)
    <3>1. LinesShaped /\ LineRows /\ till \in Nat
      BY DEF PoolInv, MoneyInv
    <3>. QED BY <1>6, <2>2, <3>1, ReverseCashLines, ReverseCashRows
  <2>. QED BY <2>1, <2>2
<1>8. JournalRows'
  <2>1. JournalRow(k)'
    BY <1>2, <1>6 DEF JournalRow, Kinds, Closings, Terminal
  <2>2. IsFiniteSet({k})
    BY FS_Singleton
  <2>. QED BY <1>4, <2>1, <2>2, JournalsGrow DEF MoneyInv, Keeps
<1>9. Dated'
  BY <1>4 DEF MoneyInv, Dated, Keeps
<1>10. k \notin journals
  BY <1>3
<1>11. SuspenseIsUnclaimed'
  <2> SUFFICES ASSUME NEW x \in Deposits
               PROVE  Suspense(x)' = IF dep'[x].st \in Terminal THEN 0 ELSE Remaining(x)'
    BY DEF SuspenseIsUnclaimed
  <2>1. CASE x = d
    <3>1. Suspense(d) = dep[d].amount
      BY <1>1, <1>6 DEF MoneyInv, SuspenseIsUnclaimed, Remaining
    <3>2. Suspense(d)' = Suspense(d) - dep[d].amount
      <4>1. JournalRows /\ k.amount \in Int /\ k.kind # "merge" /\ k.kind # "register"
        BY <1>6 DEF MoneyInv, Closings
      <4>. QED BY <1>10, <4>1, SuspenseChanges
    <3>. QED BY <1>2, <1>6, <2>1, <3>1, <3>2
  <2>2. CASE x # d
    <3>1. Suspense(x)' = Suspense(x)
      BY <2>2, SuspenseStays
    <3>. QED BY <1>2, <2>2, <3>1 DEF MoneyInv, SuspenseIsUnclaimed, Remaining
  <2>. QED BY <2>1, <2>2
<1>12. NotBackedTwice'
  <2> SUFFICES ASSUME NEW e \in Entries
               PROVE  Total(LiveLines(e)') + Total(BackedBy(e)') <= ent'[e].amount
    BY DEF NotBackedTwice, BackedBy
  <2>1. LiveLines(e)' = LiveLines(e)
    BY <1>1, <1>7, OtherSource
  <2>. QED BY <1>5, <2>1 DEF MoneyInv, NotBackedTwice, BackedBy
<1>13. \A x \in Deposits : Cashed(x)'
  <2> TAKE x \in Deposits
  <2>1. CASE x # d
    <3>1. CashOf(x)' = CashOf(x)
      BY <1>7, <2>1, OtherSource
    <3>2. Returned(x)' <=> Returned(x)
      BY <1>2, <2>1, ReturnedStays
    <3>. QED BY <1>4, <3>1, <3>2, CashedStays DEF MoneyInv
  <2>2. CASE x = d /\ UNCHANGED lines /\ k.kind = "reclass" /\ st = "RECLASSED"
    <3>1. CashOf(d)' = CashOf(d)
      BY <2>2 DEF CashOf
    <3>2. Returned(d)' <=> Returned(d)
      BY <1>1, <1>2, <2>2, ReturnedStays DEF Terminal
    <3>. QED BY <1>4, <2>2, <3>1, <3>2, CashedStays DEF MoneyInv
  <2>3. CASE /\ x = d /\ ReverseCash(d, dep[d].month)
             /\ \/ k.kind = "reverse" /\ st = "REVERSED"
                \/ k.kind = "refundOut" /\ st = "RECLASSED"
    <3>1. PICK c : c = DepositLine(d)
      OBVIOUS
    <3>2. PICK o : o = Offset(c, dep[d].month)
      OBVIOUS
    <3>3. lines' = lines \cup {o}
      <4>1. lines' = lines \cup {Offset(v, dep[d].month) : v \in LiveLines(d)}
        BY <2>3 DEF ReverseCash
      <4>. QED BY <1>3, <3>1, <3>2, <4>1
    <3>4. o.src = d
      BY <3>1, <3>2 DEF DepositLine, CashLine, Offset
    <3>5. CashOf(d)' = {c, o}
      <4>1. CashOf(d) = {c}
        BY <1>3, <3>1
      <4>2. CashOf(d)' = CashOf(d) \cup {o}
        BY <3>3, <3>4 DEF CashOf
      <4>. QED BY <4>1, <4>2
    <3>6. Returned(d)'
      BY <1>2, <2>3 DEF Returned, Refunded
    <3>7. DepositLine(d)' = c /\ dep'[d].month = dep[d].month /\ dep'[d].st # "none"
      BY <1>2, <3>1 DEF DepositLine, Terminal
    <3>. QED BY <2>3, <3>2, <3>5, <3>6, <3>7 DEF Cashed
  <2>. QED BY <2>1, <2>2, <2>3
<1>. QED BY <1>5, <1>7, <1>8, <1>9, <1>11, <1>12, <1>13 DEF MoneyInv

LEMMA CloseMoney ==
    ASSUME PoolInv, MoneyInv, NEW d \in Deposits, NEW m \in Months,
           ReverseDeposit(d, m) \/ Reclass(d, m) \/ ReclassRefundOut(d, m)
    PROVE  MoneyInv'
<1>1. Closable(d)
  BY DEF ReverseDeposit, Reclass, ReclassRefundOut
<1>2. dep[d].month \in Months
  BY <1>1 DEF MoneyInv, Dated, Closable
<1>3. "REVERSED" \in Terminal /\ "RECLASSED" \in Terminal
  BY DEF Terminal
<1>4. CASE ReverseDeposit(d, m)
  <2>1. PICK k : k = Journal("reverse", d, NoId, dep[d].amount, m)
    OBVIOUS
  <2>2. /\ k.dep = d /\ k.amount = dep[d].amount /\ k.month = m /\ k.kind = "reverse"
        /\ k.kind \in Closings
    BY <2>1 DEF Journal, Closings
  <2>3. /\ dep' = Closed(d, "REVERSED") /\ UNCHANGED <<ent, links, locks>>
        /\ journals' = journals \cup {k} /\ ReverseCash(d, dep[d].month)
    BY <1>4, <2>1 DEF ReverseDeposit
  <2>. QED BY <1>1, <1>3, <2>2, <2>3, ClosingMoney
<1>5. CASE Reclass(d, m)
  <2>1. PICK k : k = Journal("reclass", d, NoId, dep[d].amount, dep[d].month)
    OBVIOUS
  <2>2. /\ k.dep = d /\ k.amount = dep[d].amount /\ k.month = dep[d].month /\ k.kind = "reclass"
        /\ k.kind \in Closings
    BY <2>1 DEF Journal, Closings
  <2>3. /\ dep' = Closed(d, "RECLASSED") /\ UNCHANGED <<ent, links, locks>>
        /\ journals' = journals \cup {k} /\ UNCHANGED <<lines, till>>
    BY <1>5, <2>1 DEF Reclass
  <2>. QED BY <1>1, <1>2, <1>3, <2>2, <2>3, ClosingMoney
<1>6. CASE ReclassRefundOut(d, m)
  <2>1. PICK k : k = Journal("refundOut", d, NoId, dep[d].amount, dep[d].month)
    OBVIOUS
  <2>2. /\ k.dep = d /\ k.amount = dep[d].amount /\ k.month = dep[d].month
        /\ k.kind = "refundOut" /\ k.kind \in Closings
    BY <2>1 DEF Journal, Closings
  <2>3. /\ dep' = Closed(d, "RECLASSED") /\ UNCHANGED <<ent, links, locks>>
        /\ journals' = journals \cup {k} /\ ReverseCash(d, dep[d].month)
    BY <1>6, <2>1 DEF ReclassRefundOut
  <2>. QED BY <1>1, <1>2, <1>3, <2>2, <2>3, ClosingMoney
<1>. QED BY <1>4, <1>5, <1>6

-----------------------------------------------------------------------------
(* The invariant, and the properties that follow from it.                    *)

LEMMA InitMoney == Init => MoneyInv
<1> SUFFICES ASSUME Init PROVE MoneyInv
  OBVIOUS
<1>1. /\ links = {} /\ lines = {} /\ journals = {} /\ till = 0 /\ locks = {}
      /\ \A d \in Deposits : dep[d] = NewDeposit
      /\ \A e \in Entries : ent[e] = NewEntry
  BY DEF Init
<1>2. LinkRows /\ LineRows /\ JournalRows
  BY <1>1, FS_EmptySet DEF LinkRows, LineRows, JournalRows
<1>3. Dated
  BY <1>1 DEF Dated, NewDeposit
<1>4. LinksAddUp
  <2>1. \A d : LinksOf(d) = {}
    BY <1>1 DEF LinksOf
  <2>. QED BY <1>1, <2>1, TotalEmpty DEF LinksAddUp, NewDeposit
<1>5. SuspenseIsUnclaimed
  <2>1. \A d : Suspending(d) = {}
    BY <1>1 DEF Suspending
  <2>2. \A d : Suspense(d) = 0
    BY <2>1, SuspenseIsHeld, HeldNothing
  <2>. QED BY <1>1, <2>2 DEF SuspenseIsUnclaimed, Remaining, NewDeposit
<1>6. NotBackedTwice
  <2>1. \A e : LiveLines(e) = {} /\ {l \in links : l.ent = e} = {}
    BY <1>1 DEF LiveLines
  <2>. QED BY <1>1, <2>1, TotalEmpty DEF NotBackedTwice, NewEntry
<1>7. \A d \in Deposits : Cashed(d)
  BY <1>1 DEF Cashed, CashOf, NewDeposit
<1>. QED BY <1>1, <1>2, <1>3, <1>4, <1>5, <1>6, <1>7 DEF MoneyInv

LEMMA NextMoney == PoolInv /\ MoneyInv /\ [Next]_vars => MoneyInv'
<1> SUFFICES ASSUME PoolInv, MoneyInv, [Next]_vars PROVE MoneyInv'
  OBVIOUS
<1>1. ASSUME NEW d \in Deposits, NEW amt \in DepositAmounts, NEW m \in Months,
             Register(d, amt, m)
      PROVE  MoneyInv'
  BY <1>1, RegisterMoney
<1>2. ASSUME NEW d \in Deposits, NEW u \in Users, Reserve(d, u) \/ ReleaseReservation(d, u)
      PROVE  MoneyInv'
  BY <1>2, ReservationMoney
<1>3. ASSUME NEW d \in Deposits, ReservationLapses(d)
      PROVE  MoneyInv'
  <2>1. \A x \in Deposits : /\ Keeps(x) /\ dep'[x].alloc = dep[x].alloc
                            /\ dep'[x].st \in Terminal => dep[x].st = dep'[x].st
    BY <1>3 DEF ReservationLapses, PoolInv, RowsTyped, RowType, Keeps
  <2>. QED BY <1>3, <2>1, QuietMoney DEF ReservationLapses, MoneyInv
<1>4. ASSUME NEW e \in Entries, NEW u \in Users, NEW d \in Deposits \cup {NoId},
             NEW amt \in EntryAmounts, NEW m \in Months, NEW parts,
             Post(e, u, d, amt, m, parts)
      PROVE  MoneyInv'
  BY <1>4, PostMoney
<1>5. ASSUME NEW e \in Entries, NEW m \in Months, ReverseEntry(e, m)
      PROVE  MoneyInv'
  BY <1>5, ReverseEntryMoney
<1>6. ASSUME NEW d \in Deposits, NEW e \in Entries, NEW u \in Users, Merge(d, e, u)
      PROVE  MoneyInv'
  BY <1>6, MergeMoney
<1>7. ASSUME NEW d \in Deposits, NEW m \in Months,
             ReverseDeposit(d, m) \/ Reclass(d, m) \/ ReclassRefundOut(d, m)
      PROVE  MoneyInv'
  BY <1>7, CloseMoney
<1>8. ASSUME NEW p \in Payouts, NEW amt \in PayoutAmounts, NEW m \in Months, Spend(p, amt, m)
      PROVE  MoneyInv'
  BY <1>8, SpendMoney
<1>9. ASSUME UNCHANGED <<dep, ent, links, lines, till, journals>>, locks' \subseteq Months
      PROVE  MoneyInv'
  <2>1. \A x \in Deposits : /\ Keeps(x) /\ dep'[x].alloc = dep[x].alloc
                            /\ dep'[x].st \in Terminal => dep[x].st = dep'[x].st
    BY <1>9 DEF Keeps
  <2>. QED BY <1>9, <2>1, QuietMoney
<1>10. ASSUME NEW m \in Months, Lock(m) \/ Unlock(m)
       PROVE  MoneyInv'
  BY <1>9, <1>10 DEF Lock, Unlock, MoneyInv
<1>11. CASE UNCHANGED vars
  BY <1>9, <1>11 DEF vars, MoneyInv
<1>. QED BY <1>1, <1>2, <1>3, <1>4, <1>5, <1>6, <1>7, <1>8, <1>10, <1>11 DEF Next

(* Every reachable state satisfies MoneyInv: each deposit has exactly its own cash
   line, with the offset once its money is gone; an entry is linked to one deposit
   at most; the journals of a deposit tell where its row stands. *)
THEOREM MoneyInvariant == Spec => []MoneyInv
BY InitMoney, NextMoney, PoolInvariant, PTL DEF Spec

LEMMA TypesFromMoney == PoolInv /\ MoneyInv => TypeOK
<1> SUFFICES ASSUME PoolInv, MoneyInv PROVE TypeOK
  OBVIOUS
<1>1. /\ dep \in [Deposits -> [st : Statuses, amount : Nat, alloc : Nat, month : Months \cup {0},
                               by : Users \cup {NoUser}, expired : BOOLEAN]]
      /\ ent \in [Entries -> [st : {"none", "posted", "reversed"}, amount : Nat]]
  BY DEF PoolInv, RowsTyped, RowType
<1>2. links \subseteq [dep : Deposits, ent : Entries, amount : Nat, by : Users]
  BY DEF MoneyInv, LinkRows
<1>3. \A v \in lines : v.src \in Sources /\ v.amount \in Int /\ v.month \in Months
  BY DEF MoneyInv, LineRows
<1>4. \A j \in journals : j.kind \in Kinds /\ j.amount \in Nat /\ j.month \in Months
  BY DEF MoneyInv, JournalRows, JournalRow
<1>. QED BY <1>1, <1>2, <1>3, <1>4 DEF TypeOK, MoneyInv

(* The rows keep the shape of their tables, and however receipts, merges, refunds
   and payouts follow each other the account is never overdrawn: every handler
   that takes cash out checks the balance first (reverseTreasurySourceTx). *)
THEOREM AccountNeverOverdrawn == Spec => []TypeOK
BY PoolInvariant, MoneyInvariant, TypesFromMoney, PTL

(* allocated_ngn, the cached figure that every guard of the pool reads, is at all
   times the sum of the deposit's links (allocateBankDepositTx). *)
THEOREM AllocatedIsLinked == Spec => []LinksAddUp
<1>1. MoneyInv => LinksAddUp
  BY DEF MoneyInv
<1>. QED BY <1>1, MoneyInvariant, PTL

(* The ledger's suspense for a deposit is what nobody has claimed of it, and
   nothing once it was reversed or reclassified: each registration, link and
   closing posts its journal once (glOps.js). *)
THEOREM SuspenseAlwaysUnclaimed == Spec => []SuspenseIsUnclaimed
<1>1. MoneyInv => SuspenseIsUnclaimed
  BY DEF MoneyInv
<1>. QED BY <1>1, MoneyInvariant, PTL

(* No receipt or advance is ever backed, by live cash and by a deposit together,
   with more than its amount, whether it was covered when it was posted or merged
   with a deposit later (httpApi.js, mergeBankDepositDuplicate). *)
THEOREM NeverBackedTwice == Spec => []NotBackedTwice
<1>1. MoneyInv => NotBackedTwice
  BY DEF MoneyInv
<1>. QED BY <1>1, MoneyInvariant, PTL

LEMMA CashOnceFromMoney == PoolInv /\ MoneyInv => DepositCashOnce
<1> SUFFICES ASSUME PoolInv, MoneyInv, NEW d \in Deposits
             PROVE  Total(CashOf(d)) = IF dep[d].st = "REVERSED" \/ Refunded(d) THEN 0
                                       ELSE dep[d].amount
  BY DEF DepositCashOnce, CashOf
<1>1. Cashed(d) /\ dep[d].amount \in Int
  BY DEF PoolInv, RowsTyped, RowType, MoneyInv
<1>2. CASE dep[d].st = "none"
  <2>1. CashOf(d) = {} /\ dep[d].amount = 0
    BY <1>1, <1>2 DEF Cashed, MoneyInv, Dated
  <2>. QED BY <2>1, TotalEmpty
<1>3. PICK c : c = DepositLine(d)
  OBVIOUS
<1>4. c.amount = dep[d].amount /\ c.offset = FALSE /\ Shaped(c)
  BY <1>3 DEF DepositLine, CashLine, Shaped, LineFields
<1>5. HasAmounts({c}) /\ Total({c}) = dep[d].amount
  BY <1>1, <1>4, TotalOne
<1>6. CASE dep[d].st # "none" /\ ~Returned(d)
  <2>1. CashOf(d) = {c}
    BY <1>1, <1>3, <1>6 DEF Cashed
  <2>. QED BY <1>5, <1>6, <2>1 DEF Returned
<1>7. CASE dep[d].st # "none" /\ Returned(d)
  <2>1. PICK o : o = Offset(c, dep[d].month)
    OBVIOUS
  <2>2. CashOf(d) = {c} \cup {o}
    <3>1. CashOf(d) = {c, o}
      BY <1>1, <1>3, <1>7, <2>1 DEF Cashed
    <3>. QED BY <3>1
  <2>3. o.offset = TRUE /\ o.amount = -dep[d].amount
    BY <1>4, <2>1 DEF Offset, Shaped, LineFields
  <2>4. {c} \cap {o} = {}
    BY <1>4, <2>3
  <2>5. HasAmounts({o}) /\ Total({o}) = -dep[d].amount
    BY <1>1, <2>3, TotalOne
  <2>6. Total(CashOf(d)) = Total({c}) + Total({o})
    BY <1>5, <2>2, <2>4, <2>5, TotalUnion
  <2>. QED BY <1>1, <1>5, <1>7, <2>5, <2>6 DEF Returned
<1>. QED BY <1>2, <1>6, <1>7

(* Whatever way a deposit takes, its money is in the account exactly once until
   it is reversed or refunded, and not at all from then on: reverseTreasurySourceTx
   offsets its line once, and no other handler writes one. *)
THEOREM DepositsCountedOnce == Spec => []DepositCashOnce
BY PoolInvariant, MoneyInvariant, CashOnceFromMoney, PTL
==============================================================================
