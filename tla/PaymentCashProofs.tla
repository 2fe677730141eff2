-------------------------- MODULE PaymentCashProofs --------------------------
(***************************************************************************)
(* Proofs about the money of payment requests: what the accounts hold, what *)
(* the cash book and the journals show, and what each request has had.      *)
(*                                                                          *)
(* The order of the cash book (BookOK, PaymentRequestProofs) is extended    *)
(* with one journal for every line (LedgerOK) and with the origin of every  *)
(* line (OffsetsOK): it is a payout, or it offsets one that is still on the *)
(* book.  Lines that are not live therefore cancel out on every account,    *)
(* and each request has had exactly its live lines (Settled).               *)
(***************************************************************************)
EXTENDS PaymentRequestProofs, SumTheorems

(* Every line of book B has its journal among J, and no other one. *)
LedgerOK(B, J) ==
    /\ J \subseteq JournalType /\ IsFiniteSet(J)
    /\ \A v \in B : Journal(v) \in J
    /\ \A v \in B, j \in J : j.src = v.id => j = Journal(v)

(* Every line of book B is a payout or offsets a payout of the book. *)
OffsetsOK(B) ==
    \A w \in B : IF w.reverses = 0 THEN w.amount < 0
                 ELSE \E v \in B : v.id = w.reverses /\ v.reverses = 0

(* The lines or journals of S on account a. *)
On(S, a) == {x \in S : x.acct = a}

(* What a request has had is out, is within what was approved, and is only out
   while the request stands; a loan marked as disbursed has had all of it. *)
Settled(r) ==
    /\ pr[r].paid = LiveOut(r)
    /\ pr[r].st # "Approved" => pr[r].paid = 0
    /\ pr[r].paid <= pr[r].amount
    /\ Exists(r) => pr[r].amount > 0
    /\ r \in disbursed => pr[r].amount > 0 /\ pr[r].paid >= pr[r].amount

(* The rows outside the cash book. *)
FormsOK ==
    /\ pr \in [Requests -> Row(Nat)]
    /\ expense \in [Expenses -> Nat \cup {NoExpense}]
    /\ balance \in [Accounts -> Nat]
    /\ disbursed \subseteq Loans
    /\ locks \subseteq Months
    /\ nextId \in 1..(MaxMovements + 1)
    /\ edits \in 0..MaxInsertUpdates

CashInv == /\ BookOK(cashBook, journals, nextId)
           /\ LedgerOK(cashBook, journals)
           /\ OffsetsOK(cashBook)
           /\ CashBookTotals
           /\ FormsOK
           /\ \A r \in Requests : Settled(r)

-----------------------------------------------------------------------------
(* Lines and journals of one account.                                        *)

(* The parts of a set on an account. *)
LEMMA OnFacts ==
    ASSUME NEW S, NEW T, NEW a
    PROVE  /\ On(S, a) \subseteq S
           /\ On(S \ T, a) = On(S, a) \ On(T, a)
           /\ On(S \cup T, a) = On(S, a) \cup On(T, a)
           /\ T \subseteq S => On(T, a) \subseteq On(S, a)
  BY DEF On

(* The lines of a book in order, and the journals, have amounts. *)
LEMMA BookHasAmounts ==
    ASSUME NEW B, NEW J, NEW n, BookOK(B, J, n), LedgerOK(B, J)
    PROVE  /\ HasAmounts(B) /\ HasAmounts(J)
           /\ \A v \in B : /\ v.id \in Nat \ {0} /\ v.reverses \in Nat
                           /\ v.acct \in Accounts /\ v.req \in Requests
<1>1. \A v \in B : v.amount \in Int
  BY DEF BookOK, Movement
<1>2. \A j \in J : j.amount \in Int
  BY DEF LedgerOK, JournalType
<1>3. \A v \in B : /\ v.id \in Nat \ {0} /\ v.reverses \in Nat
                   /\ v.acct \in Accounts /\ v.req \in Requests
  BY NumbersAssumption DEF BookOK, Movement
<1>4. QED
  BY <1>1, <1>2, <1>3 DEF HasAmounts, BookOK, LedgerOK

(* The journals of some lines show what the lines show. *)
LEMMA JournalsTotal ==
    ASSUME NEW S, HasAmounts(S), \A v, w \in S : v.id = w.id => v = w,
           NEW a
    PROVE  Total(On({Journal(v) : v \in S}, a)) = Total(On(S, a))
<1> DEFINE Sa == On(S, a)
           b == [v \in Sa |-> Journal(v)]
           T == {b[v] : v \in Sa}
<1>1. HasAmounts(Sa)
  BY PartHasAmounts, OnFacts
<1>2. \A v \in Sa : b[v].amount = v.amount
  BY DEF Journal
<1>3. \A v, w \in Sa : b[v] = b[w] => v = w
  BY DEF Journal, On
<1>4. T = On({Journal(v) : v \in S}, a)
  <2>1. \A v \in S : Journal(v).acct = v.acct
    BY DEF Journal
  <2>2. \A j \in T : j \in On({Journal(v) : v \in S}, a)
    BY <2>1 DEF On
  <2>3. ASSUME NEW j \in On({Journal(v) : v \in S}, a) PROVE j \in T
    <3>1. PICK v \in S : j = Journal(v) /\ v.acct = a
      BY <2>1 DEF On
    <3>2. v \in Sa /\ b[v] = j
      BY <3>1 DEF On
    <3>3. QED
      BY <3>2
  <2>4. QED
    BY <2>2, <2>3
<1> HIDE DEF b, Sa
<1>5. Total(T) = Total(Sa)
  BY <1>1, <1>2, <1>3, TotalCopied
<1>6. QED
  BY <1>4, <1>5 DEF Sa

(* Lines that leave with their journals take the same from both. *)
LEMMA LinesLeave ==
    ASSUME NEW B, NEW J, NEW n, BookOK(B, J, n), LedgerOK(B, J),
           NEW gone, gone \subseteq B,
           NEW J0, \A j : j \in J0 <=> j \in J /\ \A v \in gone : v.id # j.src
    PROVE  /\ LedgerOK(B \ gone, J0)
           /\ \A a : /\ Total(On(B \ gone, a)) = Total(On(B, a)) - Total(On(gone, a))
                     /\ Total(On(J0, a)) = Total(On(J, a)) - Total(On(gone, a))
<1>1. HasAmounts(B) /\ HasAmounts(J)
  BY BookHasAmounts
<1>2. LedgerOK(B \ gone, J0)
  <2>1. J0 \subseteq JournalType /\ IsFiniteSet(J0)
    BY FS_Subset DEF LedgerOK
  <2>2. ASSUME NEW v \in B \ gone PROVE Journal(v) \in J0
    <3>1. Journal(v) \in J /\ Journal(v).src = v.id
      BY DEF LedgerOK, Journal
    <3>2. \A w \in gone : w.id # v.id
      BY DEF BookOK
    <3>3. QED
      BY <3>1, <3>2
  <2>3. QED
    BY <2>1, <2>2 DEF LedgerOK
<1>3. J \ J0 = {Journal(v) : v \in gone} /\ J0 \subseteq J
  BY DEF LedgerOK, Journal
<1>4. ASSUME NEW a
      PROVE  /\ Total(On(B \ gone, a)) = Total(On(B, a)) - Total(On(gone, a))
             /\ Total(On(J0, a)) = Total(On(J, a)) - Total(On(gone, a))
  <2>1. Total(On(B \ gone, a)) = Total(On(B, a)) - Total(On(gone, a))
    <3>1. HasAmounts(On(B, a)) /\ On(gone, a) \subseteq On(B, a)
      BY <1>1, PartHasAmounts, OnFacts
    <3>2. On(B \ gone, a) = On(B, a) \ On(gone, a)
      BY OnFacts
    <3>3. QED
      BY <3>1, <3>2, TotalWithout
  <2>2. Total(On(J \ J0, a)) = Total(On(gone, a))
    <3>1. HasAmounts(gone) /\ \A v, w \in gone : v.id = w.id => v = w
      BY <1>1, PartHasAmounts DEF BookOK
    <3>2. QED
      BY <3>1, <1>3, JournalsTotal
  <2>3. Total(On(J0, a)) = Total(On(J, a)) - Total(On(J \ J0, a))
    <3>1. HasAmounts(On(J, a)) /\ On(J \ J0, a) \subseteq On(J, a)
          /\ On(J0, a) = On(J, a) \ On(J \ J0, a)
      BY <1>1, <1>3, PartHasAmounts DEF On
    <3>2. QED
      BY <3>1, TotalWithout
  <2>4. QED
    BY <2>1, <2>2, <2>3
<1>5. QED
  BY <1>2, <1>4

(* Lines that join with their journals add the same to both. *)
LEMMA LinesJoin ==
    ASSUME NEW B, NEW J, NEW n, BookOK(B, J, n), LedgerOK(B, J),
           NEW new, NEW n1, Joins(new, B, n, n1),
           NEW B1, B1 = B \cup new,
           NEW J1, J1 = J \cup {Journal(v) : v \in new}
    PROVE  /\ LedgerOK(B1, J1)
           /\ \A a : /\ Total(On(B1, a)) = Total(On(B, a)) + Total(On(new, a))
                     /\ Total(On(J1, a)) = Total(On(J, a)) + Total(On(new, a))
<1> DEFINE Jn == {Journal(v) : v \in new}
<1>1. HasAmounts(B) /\ HasAmounts(J) /\ \A v \in B : v.id \in Nat
  BY BookHasAmounts
<1>2. HasAmounts(new) /\ \A v \in new : v.id \in Nat
  <2>1. \A v \in new : v \in Movement
    BY DEF Joins
  <2>2. \A v \in new : v.amount \in Int /\ v.id \in Nat
    BY <2>1, NumbersAssumption DEF Movement
  <2>3. QED
    BY <2>2 DEF HasAmounts, Joins
<1>3. /\ \A v \in B, w \in new : v.id # w.id
      /\ \A j \in J, w \in new : j.src # w.id
  BY <1>1, <1>2 DEF BookOK, Joins
<1>4. \A w \in new : Journal(w).src = w.id /\ Journal(w) \in JournalType
  BY DEF Journal, JournalType, Movement, Joins
<1>5. IsFiniteSet(Jn) /\ HasAmounts(Jn)
  <2>1. [v \in new |-> Journal(v)] \in Surjection(new, Jn) /\ IsFiniteSet(new)
    BY DEF Surjection, Joins
  <2>2. IsFiniteSet(Jn)
    BY <2>1, FS_Surjection
  <2>3. \A j \in Jn : j.amount \in Int
    BY <1>2 DEF Journal, HasAmounts
  <2>4. QED
    BY <2>2, <2>3 DEF HasAmounts
<1>6. LedgerOK(B1, J1)
  <2>1. J1 \subseteq JournalType /\ IsFiniteSet(J1)
    BY <1>4, <1>5, FS_Union DEF LedgerOK
  <2>2. \A v \in B1 : Journal(v) \in J1
    BY DEF LedgerOK
  <2>3. ASSUME NEW v \in B1, NEW j \in J1, j.src = v.id PROVE j = Journal(v)
    <3>1. CASE j \in J
      <4>1. v \in B
        BY <1>3, <2>3, <3>1
      <4>2. QED
        BY <2>3, <3>1, <4>1 DEF LedgerOK
    <3>2. CASE j \in Jn
      <4>1. PICK w \in new : j = Journal(w)
        BY <3>2
      <4>2. v = w
        BY <1>3, <1>4, <2>3, <4>1 DEF Joins
      <4>3. QED
        BY <4>1, <4>2
    <3>3. QED
      BY <3>1, <3>2
  <2>4. QED
    BY <2>1, <2>2, <2>3 DEF LedgerOK
<1>7. ASSUME NEW a
      PROVE  /\ Total(On(B1, a)) = Total(On(B, a)) + Total(On(new, a))
             /\ Total(On(J1, a)) = Total(On(J, a)) + Total(On(new, a))
  <2>1. HasAmounts(On(B, a)) /\ HasAmounts(On(J, a)) /\ HasAmounts(On(new, a))
        /\ HasAmounts(On(Jn, a))
    <3> HIDE DEF Jn
    <3>1. QED
      BY <1>1, <1>2, <1>5, PartHasAmounts, OnFacts
  <2>2. On(B, a) \cap On(new, a) = {} /\ On(J, a) \cap On(Jn, a) = {}
    BY <1>3, <1>4 DEF On
  <2>3. On(B1, a) = On(B, a) \cup On(new, a) /\ On(J1, a) = On(J, a) \cup On(Jn, a)
    BY OnFacts
  <2>4. Total(On(Jn, a)) = Total(On(new, a))
    BY <1>2, JournalsTotal DEF Joins
  <2> HIDE DEF Jn
  <2>5. QED
    BY <2>1, <2>2, <2>3, <2>4, TotalUnion
<1>8. QED
  BY <1>6, <1>7

-----------------------------------------------------------------------------
(* Lines that cancel out.                                                    *)

(* The lines of a request that are not live show nothing on any account: each
   is a payout that was offset, or the offset of one. *)
LEMMA PairsCancel ==
    ASSUME BookOK(cashBook, journals, nextId), LedgerOK(cashBook, journals),
           OffsetsOK(cashBook), NEW r, NEW a
    PROVE  Total(On(LinesOf(r) \ LiveLines(r), a)) = 0
<1> DEFINE P == On(LinesOf(r) \ LiveLines(r), a)
           R == {v \in P : v.reverses = 0}
           O == {v \in P : v.reverses # 0}
           b == [v \in R |-> CHOOSE w \in cashBook : w.reverses = v.id]
<1>1. P \subseteq cashBook /\ \A v \in P : v.req = r /\ v.acct = a
  BY DEF On, LinesOf
<1>2. HasAmounts(cashBook) /\ \A v \in cashBook : v.id \in Nat \ {0} /\ v.reverses \in Nat
  BY BookHasAmounts
<1>3. HasAmounts(R) /\ HasAmounts(O)
  BY <1>1, <1>2, PartHasAmounts
<1>4. ASSUME NEW v \in R PROVE b[v] \in cashBook /\ b[v].reverses = v.id /\ Matches(b[v], v)
  <2>1. v \in LinesOf(r) /\ v \notin LiveLines(r) /\ v.amount < 0 /\ v.reverses = 0
    BY <1>1 DEF OffsetsOK, On
  <2>2. \E w \in cashBook : w.reverses = v.id
    BY <2>1 DEF LiveLines, Reversed
  <2>3. b[v] \in cashBook /\ b[v].reverses = v.id
    BY <2>2
  <2>4. QED
    BY <1>1, <2>3 DEF BookOK
<1>4a. \A v \in R : v \in cashBook /\ v.req = r /\ v.acct = a /\ v.id # 0
  BY <1>1, <1>2
<1> HIDE DEF b
<1>5. ASSUME NEW v \in R PROVE b[v] \in O
  <2>0. PICK w : w = b[v]
    OBVIOUS
  <2>1. w \in cashBook /\ w.req = r /\ w.acct = a /\ w.reverses # 0
    BY <1>4, <1>4a, <2>0 DEF Matches
  <2>2. w \in LinesOf(r) \ LiveLines(r)
    BY <2>1 DEF LinesOf, LiveLines
  <2>3. w \in O
    BY <2>1, <2>2 DEF On
  <2>4. QED
    BY <2>0, <2>3
<1>6. ASSUME NEW w \in O PROVE \E v \in R : b[v] = w
  <2>1. w \in cashBook /\ w.reverses # 0 /\ w.req = r /\ w.acct = a
    BY <1>1
  <2>2. PICK v \in cashBook : v.id = w.reverses /\ v.reverses = 0
    BY <2>1 DEF OffsetsOK
  <2>3. v.req = r /\ v.acct = a
    BY <2>1, <2>2 DEF BookOK, Matches
  <2>4. v \in LinesOf(r) \ LiveLines(r)
    BY <2>1, <2>2, <2>3 DEF LinesOf, LiveLines, Reversed
  <2>5. v \in R
    BY <2>2, <2>3, <2>4 DEF On
  <2>6. b[v] = w
    <3>1. PICK u : u = b[v]
      OBVIOUS
    <3>2. u \in cashBook /\ u.reverses = w.reverses
      BY <1>4, <2>2, <2>5, <3>1
    <3>3. QED
      BY <2>1, <3>1, <3>2 DEF BookOK
  <2>7. QED
    BY <2>5, <2>6
<1>7. \A v, w \in R : b[v] = b[w] => v = w
  <2>1. ASSUME NEW v \in R, NEW w \in R, b[v] = b[w] PROVE v = w
    <3>1. v.id = w.id
      BY <1>4, <2>1
    <3>2. QED
      BY <1>4a, <3>1 DEF BookOK
  <2>2. QED
    BY <2>1
<1>8. \A v \in R : b[v].amount = -v.amount
  BY <1>4 DEF Matches
<1>9. R \cap O = {} /\ R \cup O = P
  OBVIOUS
<1> HIDE DEF R, O
<1>10. O = {b[v] : v \in R}
  BY <1>5, <1>6
<1>11. Total(O) = -Total(R)
  BY <1>3, <1>7, <1>8, <1>10, TotalCopied
<1>12. Total(P) = Total(R) + Total(O) /\ Total(R) \in Int
  BY <1>3, <1>9, TotalUnion, TotalInt
<1>13. QED
  BY <1>11, <1>12

(* Outflows show at most nothing on an account. *)
LEMMA OutflowsOnAccount ==
    ASSUME NEW S, HasAmounts(S), \A v \in S : v.amount < 0, NEW a
    PROVE  Total(On(S, a)) \in Int /\ Total(On(S, a)) <= 0
<1>1. HasAmounts(On(S, a)) /\ \A v \in On(S, a) : v.amount < 0
  BY PartHasAmounts, OnFacts
<1>2. On(S, a) = {} \/ Total(On(S, a)) < 0
  BY <1>1, TotalNegative
<1>3. QED
  BY <1>1, <1>2, TotalInt, TotalEmpty

(* Live lines are outflows with amounts, and so is what is out of a request. *)
LEMMA LiveAmounts ==
    ASSUME BookOK(cashBook, journals, nextId), LedgerOK(cashBook, journals), NEW r
    PROVE  /\ HasAmounts(LinesOf(r)) /\ HasAmounts(LiveLines(r))
           /\ \A v \in LiveLines(r) : v.amount < 0
           /\ LiveOut(r) \in Nat
           /\ LiveOut(r) = 0 => LiveLines(r) = {}
<1>1. HasAmounts(LinesOf(r)) /\ HasAmounts(LiveLines(r))
  BY BookHasAmounts, PartHasAmounts, LinesFacts
<1>2. \A v \in LiveLines(r) : v.amount < 0
  BY DEF LiveLines
<1>3. LiveLines(r) = {} \/ Total(LiveLines(r)) < 0
  BY <1>1, <1>2, TotalNegative
<1>4. Total(LiveLines(r)) \in Int
  BY <1>1, TotalInt
<1>5. LiveLines(r) = {} => Total(LiveLines(r)) = 0
  BY TotalEmpty
<1>6. QED
  BY <1>1, <1>2, <1>3, <1>4, <1>5 DEF LiveOut

-----------------------------------------------------------------------------
(* What is live after a step on the lines of one request.                    *)

(* The live lines of the other requests stay. *)
LEMMA OthersLive ==
    ASSUME BookOK(cashBook, journals, nextId), BookOK(cashBook, journals, nextId)',
           NEW r, NEW gone, gone \subseteq LinesOf(r),
           NEW new, \A w \in new : w.req = r,
           cashBook' = (cashBook \ gone) \cup new,
           NEW q, q # r
    PROVE  LiveLines(q)' = LiveLines(q)
<1>1. \A w \in gone : w.req = r /\ w \in cashBook
  BY DEF LinesOf
<1>2. LinesOf(q)' = LinesOf(q)
  BY <1>1 DEF LinesOf
<1>3. ASSUME NEW v \in LinesOf(q) PROVE Reversed(v)' <=> Reversed(v)
  <2>1. v \in cashBook /\ v \in cashBook' /\ v.req = q
    BY <1>2 DEF LinesOf
  <2>2. \A w \in cashBook : w.reverses = v.id => w.req = q
    BY <2>1 DEF BookOK, Matches
  <2>3. \A w \in cashBook' : w.reverses = v.id => w.req = q
    BY <2>1 DEF BookOK, Matches
  <2>4. QED
    BY <1>1, <2>2, <2>3 DEF Reversed
<1>4. QED
  BY <1>2, <1>3 DEF LiveLines

(* Lines that offset nothing come alive. *)
LEMMA PostedLive ==
    ASSUME BookOK(cashBook, journals, nextId), BookOK(cashBook, journals, nextId)',
           NEW r, NEW new, \A w \in new : w.req = r /\ w.reverses = 0 /\ w.amount < 0,
           Joins(new, cashBook, nextId, nextId'),
           cashBook' = cashBook \cup new
    PROVE  LiveLines(r)' = LiveLines(r) \cup new /\ new \cap cashBook = {}
<1>1. cashBook \subseteq Movement /\ new \subseteq Movement
      /\ \A v \in Movement : v.id \in Nat \ {0} /\ v.reverses \in Nat
  BY NumbersAssumption DEF BookOK, Joins, Movement
<1>2. \A v \in cashBook, w \in new : v.id # w.id /\ v.reverses # w.id
  BY <1>1 DEF BookOK, Joins
<1>3. \A v \in new : ~Reversed(v)'
  BY <1>1, <1>2 DEF Reversed
<1>4. \A v \in cashBook : Reversed(v)' <=> Reversed(v)
  BY <1>1 DEF Reversed
<1>5. QED
  BY <1>2, <1>3, <1>4 DEF LiveLines, LinesOf

(* Lines that leave without what they offset bring nothing back to life, and the
   live lines that stay are still live. *)
LEMMA LiveRemoved ==
    ASSUME NEW gone, cashBook' = cashBook \ gone,
           \A w \in gone, v \in cashBook : w.reverses = v.id => v \in gone,
           NEW q
    PROVE  LiveLines(q)' = LiveLines(q) \ gone
<1>1. \A v \in cashBook' : Reversed(v)' <=> Reversed(v)
  BY DEF Reversed
<1>2. QED
  BY <1>1 DEF LiveLines, LinesOf

-----------------------------------------------------------------------------
(* The origin of the lines.                                                  *)

(* Lines that leave with the lines that offset them leave no offset behind. *)
LEMMA OffsetsShrink ==
    ASSUME NEW B, OffsetsOK(B), NEW gone,
           \A w \in B, v \in gone : w.reverses = v.id => w \in gone
    PROVE  OffsetsOK(B \ gone)
  BY DEF OffsetsOK

(* Payouts, and offsets of payouts, may join. *)
LEMMA OffsetsGrow ==
    ASSUME NEW B, OffsetsOK(B), NEW new,
           \A w \in new : IF w.reverses = 0 THEN w.amount < 0
                          ELSE \E v \in B : v.id = w.reverses /\ v.reverses = 0
    PROVE  OffsetsOK(B \cup new)
  BY DEF OffsetsOK

(* What the handlers remove of a request leaves in pairs or was never offset. *)
LEMMA RemovedInPairs ==
    ASSUME BookOK(cashBook, journals, nextId), LedgerOK(cashBook, journals), NEW r,
           NEW gone, gone \in {LinesOf(r), LinesOf(r) \ LiveLines(r), RemovableLines(r)}
    PROVE  /\ \A w \in cashBook, v \in gone : w.reverses = v.id => w \in gone
           /\ \A w \in gone, v \in cashBook : w.reverses = v.id => v \in gone
<1> DEFINE Up(S) == \A w \in cashBook, v \in S : w.reverses = v.id => w \in S
           Down(S) == \A w \in S, v \in cashBook : w.reverses = v.id => v \in S
<1>1. \A v \in cashBook : v.id \in Nat \ {0} /\ v.reverses \in Nat
  BY BookHasAmounts
<1>2. \A v, w \in cashBook : w.reverses = v.id => w.req = v.req
  BY DEF BookOK, Matches
<1>3. Up(LinesOf(r)) /\ Down(LinesOf(r))
  BY <1>2 DEF LinesOf
<1>4. Up(LinesOf(r) \ LiveLines(r)) /\ Down(LinesOf(r) \ LiveLines(r))
  BY <1>1, <1>2 DEF LinesOf, LiveLines, Reversed
<1>5. Up(LiveLines(r) \ LockedLines(r)) /\ Down(LiveLines(r) \ LockedLines(r))
  BY <1>1 DEF LinesOf, LiveLines, Reversed
<1>6. Up(RemovableLines(r)) /\ Down(RemovableLines(r))
  BY <1>3, <1>5 DEF RemovableLines
<1>7. Up(gone) /\ Down(gone)
  BY <1>3, <1>4, <1>6
<1>8. QED
  BY <1>7

-----------------------------------------------------------------------------
(* Payouts.                                                                  *)

(* The lines of a payment show their amounts as outflows on their accounts. *)
LEMMA PaidTotals ==
    ASSUME NEW r, NEW u, NEW lines \in PayLines, nextId \in Nat,
           NEW new, new = PaidLines(r, u, lines)
    PROVE  /\ HasAmounts(new) /\ \A w \in new : w.req = r /\ w.reverses = 0 /\ w.amount < 0
           /\ Total(new) = -LinesTotal(lines) /\ LinesTotal(lines) \in Nat \ {0}
           /\ \A a : Total(On(new, a)) = -Spent(lines, a) /\ Spent(lines, a) \in Nat
<1> DEFINE D == DOMAIN lines
           b == [i \in D |-> PaidLine(r, u, lines, i)]
           f == [i \in D |-> lines[i].amount]
           Da(a) == {i \in D : lines[i].acct = a}
<1>1. D = 1..Len(lines) /\ Len(lines) \in Nat /\ D # {} /\ \A i \in D : lines[i] \in PayLine
  BY PayLinesFacts
<1>2. IsFiniteSet(D)
  BY <1>1, FS_Interval
<1>3. ASSUME NEW i \in D PROVE lines[i].amount \in Nat /\ lines[i].amount > 0
  <2>1. lines[i].amount \in Amounts
    BY <1>1 DEF PayLine
  <2>2. QED
    BY <2>1, AmountsAreNumbers
<1>4. ASSUME NEW i \in D
      PROVE  /\ b[i] = PaidLine(r, u, lines, i) /\ f[i] \in Nat /\ f[i] = lines[i].amount
             /\ b[i].amount = -f[i] /\ b[i].acct = lines[i].acct /\ b[i].id = nextId + i - 1
             /\ b[i].req = r /\ b[i].reverses = 0 /\ b[i].amount < 0
  BY <1>3 DEF PaidLine
<1>5. new = {b[i] : i \in D}
  BY DEF PaidLines
<1> HIDE DEF b, f
<1>6. ASSUME NEW i \in D, NEW j \in D, b[i] = b[j] PROVE i = j
  <2>1. nextId + i - 1 = nextId + j - 1
    BY <1>4, <1>6
  <2>2. QED
    BY <1>1, <2>1
<1>7. /\ HasAmounts(new) /\ Total(new) = -SumFunctionOnSet(f, D)
      /\ \A w \in new : w.req = r /\ w.reverses = 0 /\ w.amount < 0
  BY <1>2, <1>4, <1>5, <1>6, TotalOfNegated
<1>8. LinesTotal(lines) = SumFunctionOnSet(f, D)
  BY DEF LinesTotal, SumFunction, f
<1>9. LinesTotal(lines) \in Nat /\ Total(new) < 0
  <2>1. SumFunctionOnSet(f, D) \in Nat
    BY <1>2, <1>4, SumNat
  <2>2. new # {}
    BY <1>1, <1>5
  <2>3. QED
    BY <1>7, <1>8, <2>1, <2>2, TotalNegative
<1>10. ASSUME NEW a
       PROVE  Total(On(new, a)) = -Spent(lines, a) /\ Spent(lines, a) \in Nat
  <2> DEFINE g == [i \in Da(a) |-> lines[i].amount]
  <2>1. IsFiniteSet(Da(a))
    BY <1>2, FS_Subset
  <2>2. On(new, a) = {b[i] : i \in Da(a)}
    BY <1>4, <1>5 DEF On
  <2>3. Spent(lines, a) = SumFunctionOnSet(g, Da(a))
    BY DEF Spent, SumFunction
  <2>4. \A i \in Da(a) : g[i] \in Nat /\ b[i].amount = -g[i]
    BY <1>4
  <2>5. \A i, j \in Da(a) : b[i] = b[j] => i = j
    BY <1>6
  <2> HIDE DEF g, Da
  <2>6. Total(On(new, a)) = -SumFunctionOnSet(g, Da(a))
    BY <2>1, <2>2, <2>4, <2>5, TotalOfNegated
  <2>7. SumFunctionOnSet(g, Da(a)) \in Nat
    BY <2>1, <2>4, SumNat
  <2>8. QED
    BY <2>3, <2>6, <2>7
<1>11. QED
  BY <1>7, <1>8, <1>9, <1>10

(* A request whose row and live lines stay, and that is not newly marked as
   disbursed, stays settled. *)
LEMMA SettledKept ==
    ASSUME NEW q, Settled(q), pr'[q] = pr[q], LiveLines(q)' = LiveLines(q),
           q \in disbursed' => q \in disbursed
    PROVE  Settled(q)'
  BY DEF Settled, LiveOut, Exists

(* payPaymentRequest *)
LEMMA PayCash ==
    ASSUME CashInv, BookOK(cashBook, journals, nextId)',
           NEW r \in Requests, NEW u \in Users, NEW lines \in PayLines, Pay(r, u, lines)
    PROVE  CashInv'
<1>0. /\ BookOK(cashBook, journals, nextId) /\ LedgerOK(cashBook, journals)
      /\ OffsetsOK(cashBook) /\ CashBookTotals /\ FormsOK /\ \A q \in Requests : Settled(q)
  BY DEF CashInv
<1>1. PICK new :
         /\ new = PaidLines(r, u, lines)
         /\ Joins(new, cashBook, nextId, nextId')
         /\ cashBook' = cashBook \cup new
         /\ journals' = journals \cup {Journal(v) : v \in new}
  BY <1>0, PayPosts
<1>2. nextId \in Nat
  BY <1>0 DEF BookOK
<1>3. /\ HasAmounts(new) /\ \A w \in new : w.req = r /\ w.reverses = 0 /\ w.amount < 0
      /\ Total(new) = -LinesTotal(lines) /\ LinesTotal(lines) \in Nat \ {0}
      /\ \A a : Total(On(new, a)) = -Spent(lines, a) /\ Spent(lines, a) \in Nat
  <2>1. new = PaidLines(r, u, lines)
    BY <1>1
  <2>2. QED
    BY <1>2, <2>1, PaidTotals
<1>4. /\ LedgerOK(cashBook', journals')
      /\ \A a : /\ Total(On(cashBook', a)) = Total(On(cashBook, a)) + Total(On(new, a))
                /\ Total(On(journals', a)) = Total(On(journals, a)) + Total(On(new, a))
  BY <1>0, <1>1, LinesJoin
<1>5. OffsetsOK(cashBook)'
  BY <1>0, <1>1, <1>3, OffsetsGrow
<1>6. LiveLines(r)' = LiveLines(r) \cup new /\ new \cap cashBook = {}
  BY <1>0, <1>1, <1>3, PostedLive
<1>7. LiveOut(r)' = LiveOut(r) + LinesTotal(lines) /\ LiveOut(r) \in Nat
  <2>1. /\ HasAmounts(LiveLines(r)) /\ LiveLines(r) \subseteq cashBook /\ LiveOut(r) \in Nat
    BY <1>0, LiveAmounts, LinesFacts
  <2>2. Total(LiveLines(r) \cup new) = Total(LiveLines(r)) + Total(new)
    BY <1>3, <1>6, <2>1, TotalUnion
  <2>3. Total(LiveLines(r)) \in Int
    BY <2>1, TotalInt
  <2>4. QED
    BY <1>3, <1>6, <2>1, <2>2, <2>3 DEF LiveOut
<1>8. AlreadyPaid(r) = pr[r].paid /\ pr[r].paid = LiveOut(r)
  <2>1. pr[r].paid = LiveOut(r) /\ LiveOut(r) >= LiveOut(r)
    BY <1>0, <1>7 DEF Settled
  <2>2. QED
    BY <2>1 DEF AlreadyPaid, Max
<1>9. PICK paid : /\ paid = pr[r].paid + LinesTotal(lines)
                  /\ pr' = [pr EXCEPT ![r].paid = paid]
                  /\ disbursed' = IF r \in Loans /\ paid >= pr[r].amount
                                  THEN disbursed \cup {r} ELSE disbursed
  BY <1>8 DEF Pay
<1>10. /\ pr \in [Requests -> Row(Nat)] /\ pr[r] \in Row(Nat) /\ paid \in Nat
       /\ pr[r].amount \in Nat /\ pr[r].st = "Approved" /\ pr[r].amount > 0
       /\ paid <= pr[r].amount /\ pr[r].paid <= paid
  <2>1. pr \in [Requests -> Row(Nat)] /\ pr[r] \in Row(Nat)
    BY <1>0 DEF FormsOK
  <2>2. pr[r].amount \in Nat /\ pr[r].paid \in Nat
    BY <2>1 DEF Row
  <2>3. pr[r].st = "Approved" /\ LinesTotal(lines) <= Outstanding(pr[r].amount, pr[r].paid)
    BY <1>8 DEF Pay
  <2>4. pr[r].amount > 0
    BY <1>0, <2>3 DEF Settled, Exists
  <2>5. LinesTotal(lines) <= pr[r].amount - pr[r].paid
    BY <1>3, <2>2, <2>3 DEF Outstanding, Tolerance
  <2>6. QED
    BY <1>3, <1>9, <2>1, <2>2, <2>3, <2>4, <2>5
<1>11. /\ pr'[r] = [pr[r] EXCEPT !.paid = paid] /\ pr' \in [Requests -> Row(Nat)]
       /\ \A q \in Requests : q # r => pr'[q] = pr[q]
       /\ pr'[r].paid = paid /\ pr'[r].st = "Approved" /\ pr'[r].amount = pr[r].amount
  <2>1. [pr[r] EXCEPT !.paid = paid] \in Row(Nat)
    BY <1>10 DEF Row
  <2>2. pr' = [pr EXCEPT ![r] = [pr[r] EXCEPT !.paid = paid]]
    BY <1>9
  <2>3. [pr[r] EXCEPT !.paid = paid].paid = paid
        /\ [pr[r] EXCEPT !.paid = paid].st = "Approved"
        /\ [pr[r] EXCEPT !.paid = paid].amount = pr[r].amount
    BY <1>10 DEF Row
  <2>4. QED
    BY <1>10, <2>1, <2>2, <2>3
<1>12. Settled(r)'
  <2>1. pr'[r].paid = LiveOut(r)'
    BY <1>7, <1>8, <1>9, <1>11
  <2>2. r \in disbursed' => pr'[r].paid >= pr'[r].amount
    <3>1. r \in disbursed => pr[r].paid >= pr[r].amount
      BY <1>0 DEF Settled
    <3>2. pr[r].paid \in Nat
      BY <1>10 DEF Row
    <3>3. r \in disbursed' => r \in disbursed \/ paid >= pr[r].amount
      BY <1>9
    <3>4. QED
      BY <1>10, <1>11, <3>1, <3>2, <3>3
  <2>3. QED
    BY <1>10, <1>11, <2>1, <2>2 DEF Settled
<1>13. ASSUME NEW q \in Requests, q # r PROVE Settled(q)'
  <2>1. LiveLines(q)' = LiveLines(q)
    <3>1. PICK none : none = {}
      OBVIOUS
    <3>2. none \subseteq LinesOf(r) /\ cashBook' = (cashBook \ none) \cup new
      BY <1>1, <3>1
    <3>3. QED
      BY <1>0, <1>3, <1>13, <3>2, OthersLive
  <2>2. q \in disbursed' => q \in disbursed
    BY <1>9, <1>13
  <2>3. QED
    BY <1>0, <1>11, <1>13, <2>1, <2>2, SettledKept
<1>14. CashBookTotals' /\ balance' \in [Accounts -> Nat]
  <2>1. balance' = [a \in Accounts |-> balance[a] - Spent(lines, a)] /\ Affordable(lines)
    BY DEF Pay
  <2>2. ASSUME NEW a \in Accounts
        PROVE  /\ balance'[a] \in Nat
               /\ balance'[a] = Opening + Total(On(cashBook', a))
               /\ balance'[a] = Opening + Total(On(journals', a))
    <3>1. balance[a] \in Nat /\ Spent(lines, a) \in Nat /\ Spent(lines, a) <= balance[a]
          /\ Opening \in Nat /\ balance'[a] = balance[a] - Spent(lines, a)
      BY <1>0, <1>3, <2>1, NumbersAssumption DEF FormsOK, Affordable
    <3>2. /\ balance[a] = Opening + Total(On(cashBook, a))
          /\ balance[a] = Opening + Total(On(journals, a))
      BY <1>0 DEF CashBookTotals, On
    <3>3. Total(On(cashBook, a)) \in Int /\ Total(On(journals, a)) \in Int
      BY <1>0, BookHasAmounts, PartHasAmounts, TotalInt, OnFacts
    <3>4. QED
      BY <1>3, <1>4, <3>1, <3>2, <3>3
  <2>3. QED
    BY <2>1, <2>2 DEF CashBookTotals, On
<1>15. FormsOK'
  <2>1. disbursed' \subseteq Loans
    BY <1>0, <1>9 DEF FormsOK
  <2>2. nextId' \in 1..(MaxMovements + 1)
    <3>1. Len(lines) \in {1, 2} /\ nextId + Len(lines) - 1 <= MaxMovements
          /\ nextId' = nextId + Len(lines)
      BY PayLinesFacts DEF Pay
    <3>2. QED
      BY <1>0, <3>1, NumbersAssumption DEF FormsOK
  <2>3. expense' = expense /\ locks' = locks /\ edits' = edits
    BY DEF Pay
  <2>4. QED
    BY <1>0, <1>11, <1>14, <2>1, <2>2, <2>3 DEF FormsOK
<1>16. QED
  BY <1>4, <1>5, <1>12, <1>13, <1>14, <1>15 DEF CashInv

-----------------------------------------------------------------------------
(* Steps that leave the money alone.                                         *)

(* Live lines depend on the cash book only. *)
LEMMA SameBookSameLive ==
    ASSUME cashBook' = cashBook
    PROVE  \A q : LiveLines(q)' = LiveLines(q)
  BY DEF LiveLines, LinesOf, Reversed

(* A request without live lines that has had nothing is settled. *)
LEMMA SettledEmpty ==
    ASSUME NEW r, LiveLines(r)' = {}, pr'[r].paid = 0, pr'[r].amount \in Nat,
           Exists(r)' => pr'[r].amount > 0, r \notin disbursed'
    PROVE  Settled(r)'
<1>1. LiveOut(r)' = 0
  BY TotalEmpty DEF LiveOut
<1>2. QED
  BY <1>1 DEF Settled

(* A request that has had nothing is not marked as disbursed. *)
LEMMA UnpaidNotDisbursed ==
    ASSUME NEW r, Settled(r), pr[r].paid = 0, pr[r].amount \in Nat
    PROVE  r \notin disbursed
  BY DEF Settled

(* insertPaymentRequest, updatePaymentRequest, decidePaymentRequest and
   cancelApprovedPaymentRequestBeforePay: a row that has had nothing changes. *)
LEMMA UnpaidRowChanges ==
    ASSUME CashInv, BookOK(cashBook, journals, nextId)',
           UNCHANGED <<cashBook, balance, journals, disbursed, locks, nextId>>,
           expense' \in [Expenses -> Nat \cup {NoExpense}], edits' \in 0..MaxInsertUpdates,
           NEW r \in Requests, pr[r].paid = 0,
           NEW row \in Row(Nat), pr' = [pr EXCEPT ![r] = row],
           row.paid = 0, row.amount > 0
    PROVE  CashInv'
<1>1. /\ BookOK(cashBook, journals, nextId) /\ LedgerOK(cashBook, journals)
      /\ OffsetsOK(cashBook) /\ CashBookTotals /\ FormsOK /\ \A q \in Requests : Settled(q)
  BY DEF CashInv
<1>2. /\ pr \in [Requests -> Row(Nat)] /\ pr' \in [Requests -> Row(Nat)] /\ pr'[r] = row
      /\ \A q \in Requests : q # r => pr'[q] = pr[q]
  BY <1>1 DEF FormsOK
<1>3. \A q : LiveLines(q)' = LiveLines(q)
  BY SameBookSameLive
<1>4. Settled(r)'
  <2>1. pr[r].amount \in Nat /\ row.amount \in Nat
    BY <1>2 DEF Row
  <2>2. LiveLines(r)' = {}
    BY <1>1, <1>3, LiveAmounts DEF Settled
  <2>3. r \notin disbursed'
    BY <1>1, <2>1, UnpaidNotDisbursed
  <2>4. QED
    BY <1>2, <2>1, <2>2, <2>3, SettledEmpty
<1>5. \A q \in Requests : q # r => Settled(q)'
  BY <1>1, <1>2, <1>3, SettledKept
<1>6. LedgerOK(cashBook, journals)' /\ OffsetsOK(cashBook)' /\ CashBookTotals'
  BY <1>1 DEF CashBookTotals
<1>7. FormsOK'
  BY <1>1, <1>2 DEF FormsOK
<1>8. QED
  BY <1>4, <1>5, <1>6, <1>7 DEF CashInv

(* What a row holds. *)
LEMMA RowHolds ==
    ASSUME CashInv, NEW r \in Requests
    PROVE  /\ pr[r] \in Row(Nat) /\ pr[r].amount \in Nat /\ pr[r].paid \in Nat
           /\ Settled(r)
<1>1. pr[r] \in Row(Nat) /\ Settled(r)
  BY DEF CashInv, FormsOK
<1>2. QED
  BY <1>1 DEF Row

(* The requests handlers of controlOps.js. *)
LEMMA RequestsCash ==
    ASSUME CashInv, BookOK(cashBook, journals, nextId)', NEW r \in Requests,
           \/ \E u \in Users, e \in Expenses, amt \in Amounts, m \in Months :
                 Insert(r, u, e, amt, m)
           \/ \E amt \in Amounts, m \in Months : Update(r, amt, m)
           \/ \E u \in Users, st \in {"Approved", "Rejected"}, m \in Months :
                 Decide(r, u, st, m)
           \/ \E m \in Months : CancelBeforePay(r, m)
    PROVE  CashInv'
<1>1. /\ pr[r] \in Row(Nat) /\ pr[r].amount \in Nat /\ Settled(r)
      /\ expense \in [Expenses -> Nat \cup {NoExpense}] /\ edits \in 0..MaxInsertUpdates
  BY RowHolds DEF CashInv, FormsOK
<1>2. ASSUME edits < MaxInsertUpdates, edits' = edits + 1 PROVE edits' \in 0..MaxInsertUpdates
  BY <1>1, <1>2, NumbersAssumption
<1>3. ASSUME NEW u \in Users, NEW e \in Expenses, NEW amt \in Amounts, NEW m \in Months,
             Insert(r, u, e, amt, m)
      PROVE  CashInv'
  <2> DEFINE row == [st |-> "Pending", amount |-> amt, paid |-> 0, exp |-> e,
                     month |-> m, requester |-> u, approver |-> NoUser]
  <2>1. amt \in Nat /\ amt > 0
    BY AmountsAreNumbers
  <2>2. row \in Row(Nat) /\ row.paid = 0 /\ row.amount > 0
    BY <2>1 DEF Row, Statuses
  <2>3. pr' = [pr EXCEPT ![r] = row] /\ pr[r].paid = 0
    BY <1>1, <1>3 DEF Insert, Settled
  <2>4. expense' \in [Expenses -> Nat \cup {NoExpense}] /\ edits' \in 0..MaxInsertUpdates
    BY <1>1, <1>2, <1>3, <2>1 DEF Insert
  <2>5. UNCHANGED <<cashBook, balance, journals, disbursed, locks, nextId>>
    BY <1>3 DEF Insert
  <2> HIDE DEF row
  <2>6. QED
    BY <2>2, <2>3, <2>4, <2>5, UnpaidRowChanges
<1>4. ASSUME NEW amt \in Amounts, NEW m \in Months, Update(r, amt, m)
      PROVE  CashInv'
  <2> DEFINE row == [pr[r] EXCEPT !.st = "Pending", !.amount = amt, !.month = m,
                                  !.approver = NoUser]
  <2>1. amt \in Nat /\ amt > 0
    BY AmountsAreNumbers
  <2>2. pr[r].paid = 0
    BY <1>1, <1>4 DEF Update, Settled
  <2>3. row \in Row(Nat) /\ row.paid = 0 /\ row.amount > 0
    BY <1>1, <2>1, <2>2 DEF Row, Statuses
  <2>4. pr' = [pr EXCEPT ![r] = row]
    BY <1>4 DEF Update
  <2>5. expense' \in [Expenses -> Nat \cup {NoExpense}] /\ edits' \in 0..MaxInsertUpdates
    BY <1>1, <1>2, <1>4, <2>1 DEF Update
  <2>6. UNCHANGED <<cashBook, balance, journals, disbursed, locks, nextId>>
    BY <1>4 DEF Update
  <2> HIDE DEF row
  <2>7. QED
    BY <2>2, <2>3, <2>4, <2>5, <2>6, UnpaidRowChanges
<1>5. ASSUME NEW u \in Users, NEW st \in {"Approved", "Rejected"}, NEW m \in Months,
             Decide(r, u, st, m)
      PROVE  CashInv'
  <2> DEFINE row == [pr[r] EXCEPT !.st = st, !.approver = u]
  <2>1. pr[r].paid = 0 /\ pr[r].amount > 0
    BY <1>1, <1>5 DEF Decide, Settled, Exists
  <2>2. row \in Row(Nat) /\ row.paid = 0 /\ row.amount > 0
    BY <1>1, <2>1 DEF Row, Statuses
  <2>3. pr' = [pr EXCEPT ![r] = row]
    BY <1>5 DEF Decide
  <2>4. expense' \in [Expenses -> Nat \cup {NoExpense}] /\ edits' \in 0..MaxInsertUpdates
    BY <1>1, <1>5 DEF Decide
  <2>5. UNCHANGED <<cashBook, balance, journals, disbursed, locks, nextId>>
    BY <1>5 DEF Decide
  <2> HIDE DEF row
  <2>6. QED
    BY <2>1, <2>2, <2>3, <2>4, <2>5, UnpaidRowChanges
<1>6. ASSUME NEW m \in Months, CancelBeforePay(r, m)
      PROVE  CashInv'
  <2> DEFINE row == [pr[r] EXCEPT !.st = "Cancelled"]
  <2>1. pr[r].paid = 0 /\ pr[r].amount > 0
    BY <1>1, <1>6 DEF CancelBeforePay, Settled, Exists
  <2>2. row \in Row(Nat) /\ row.paid = 0 /\ row.amount > 0
    BY <1>1, <2>1 DEF Row, Statuses
  <2>3. pr' = [pr EXCEPT ![r] = row]
    BY <1>6 DEF CancelBeforePay
  <2>4. expense' \in [Expenses -> Nat \cup {NoExpense}] /\ edits' \in 0..MaxInsertUpdates
    BY <1>1, <1>6 DEF CancelBeforePay
  <2>5. UNCHANGED <<cashBook, balance, journals, disbursed, locks, nextId>>
    BY <1>6 DEF CancelBeforePay
  <2> HIDE DEF row
  <2>6. QED
    BY <2>1, <2>2, <2>3, <2>4, <2>5, UnpaidRowChanges
<1>7. QED
  BY <1>3, <1>4, <1>5, <1>6

-----------------------------------------------------------------------------
(* Lines that leave.                                                         *)

(* What a request leaves behind when it is deleted, and its expense. *)
LEMMA DeletedForms ==
    ASSUME CashInv, NEW r \in Requests, DeleteRequest(r)
    PROVE  /\ pr' \in [Requests -> Row(Nat)] /\ pr'[r].st = "gone"
           /\ pr'[r].paid = 0 /\ pr'[r].amount = 0
           /\ \A q \in Requests : q # r => pr'[q] = pr[q]
           /\ expense' \in [Expenses -> Nat \cup {NoExpense}]
           /\ disbursed' = disbursed
<1>1. /\ pr \in [Requests -> Row(Nat)]
      /\ expense \in [Expenses -> Nat \cup {NoExpense}]
  BY DEF CashInv, FormsOK
<1> DEFINE row == [NewRequest EXCEPT !.st = "gone"]
<1>2. row \in Row(Nat) /\ row.st = "gone" /\ row.paid = 0 /\ row.amount = 0
  BY DEF NewRequest, Row, Statuses
<1>3. pr' = [pr EXCEPT ![r] = row] /\ expense' = ExpenseAfterDelete(r)
      /\ disbursed' = disbursed
  BY DEF DeleteRequest
<1> HIDE DEF row
<1>4. expense' \in [Expenses -> Nat \cup {NoExpense}]
  BY <1>1, <1>3 DEF ExpenseAfterDelete
<1>5. QED
  BY <1>1, <1>2, <1>3, <1>4

(* The lines the reversal removes show outflows, and those it offsets too. *)
LEMMA ReversedTotals ==
    ASSUME BookOK(cashBook, journals, nextId), LedgerOK(cashBook, journals),
           OffsetsOK(cashBook), NEW r, NEW u, NEW m, NEW a
    PROVE  /\ Total(On(RemovableLines(r), a)) \in Int
           /\ Total(On(RemovableLines(r), a)) <= 0
           /\ Total(On(OffsetLines(r, u, m), a)) \in Nat
<1>1. /\ HasAmounts(LinesOf(r)) /\ HasAmounts(LiveLines(r))
      /\ \A v \in LiveLines(r) : v.amount < 0
  BY LiveAmounts
<1>2. /\ LiveLines(r) \subseteq LinesOf(r) /\ LockedLines(r) \subseteq LiveLines(r)
      /\ LinesOf(r) \subseteq cashBook
  BY LinesFacts
<1>3. Total(On(LinesOf(r), a)) \in Int /\ Total(On(LinesOf(r), a)) <= 0
  <2> DEFINE P == LinesOf(r) \ LiveLines(r)
  <2>1. HasAmounts(On(LiveLines(r), a)) /\ HasAmounts(On(P, a))
    <3>1. On(LiveLines(r), a) \subseteq LiveLines(r) /\ On(P, a) \subseteq LinesOf(r)
      BY DEF On
    <3> HIDE DEF P
    <3>2. QED
      BY <1>1, <3>1, PartHasAmounts
  <2>2. On(LiveLines(r), a) \cap On(P, a) = {}
        /\ On(LinesOf(r), a) = On(LiveLines(r), a) \cup On(P, a)
    BY <1>2 DEF On
  <2>3. Total(On(P, a)) = 0
    BY PairsCancel
  <2>4. Total(On(LiveLines(r), a)) \in Int /\ Total(On(LiveLines(r), a)) <= 0
    BY <1>1, OutflowsOnAccount
  <2> HIDE DEF P
  <2>5. Total(On(LinesOf(r), a)) = Total(On(LiveLines(r), a)) + Total(On(P, a))
    BY <2>1, <2>2, TotalUnion
  <2>6. QED
    BY <2>3, <2>4, <2>5
<1>4. Total(On(RemovableLines(r), a)) \in Int /\ Total(On(RemovableLines(r), a)) <= 0
  <2>1. CASE RemovableLines(r) = LinesOf(r)
    BY <1>3, <2>1
  <2>2. CASE RemovableLines(r) = LiveLines(r) \ LockedLines(r)
    <3>1. HasAmounts(RemovableLines(r)) /\ \A v \in RemovableLines(r) : v.amount < 0
      BY <1>1, <2>2, PartHasAmounts
    <3>2. QED
      BY <3>1, OutflowsOnAccount
  <2>3. QED
    BY <2>1, <2>2 DEF RemovableLines
<1>5. Total(On(OffsetLines(r, u, m), a)) \in Nat
  <2> DEFINE La == On(LockedLines(r), a)
             b == [v \in La |-> Offset(v, LockedLines(r), u, m)]
  <2>1. HasAmounts(La) /\ La \subseteq cashBook
    BY <1>1, <1>2, PartHasAmounts, OnFacts
  <2>2. On(OffsetLines(r, u, m), a) = {b[v] : v \in La}
    <3>1. \A v : Offset(v, LockedLines(r), u, m).acct = v.acct
      BY DEF Offset
    <3>2. ASSUME NEW w \in On(OffsetLines(r, u, m), a) PROVE w \in {b[v] : v \in La}
      <4>1. PICK v \in LockedLines(r) : w = Offset(v, LockedLines(r), u, m) /\ w.acct = a
        BY DEF OffsetLines, On
      <4>2. v \in La
        BY <3>1, <4>1 DEF On
      <4>3. w = b[v]
        BY <4>1, <4>2
      <4>4. QED
        BY <4>2, <4>3
    <3>3. ASSUME NEW v \in La PROVE b[v] \in On(OffsetLines(r, u, m), a)
      <4>1. v \in LockedLines(r) /\ v.acct = a
        BY DEF On
      <4>2. PICK w : w = Offset(v, LockedLines(r), u, m)
        OBVIOUS
      <4>3. w \in OffsetLines(r, u, m) /\ w.acct = a /\ b[v] = w
        BY <3>1, <4>1, <4>2 DEF OffsetLines
      <4>4. QED
        BY <4>3 DEF On
    <3> HIDE DEF b, La
    <3>4. QED
      BY <3>2, <3>3
  <2>3. \A v \in La : b[v].amount = -v.amount /\ b[v].reverses = v.id
    BY DEF Offset
  <2> HIDE DEF b
  <2>4. \A v, w \in La : b[v] = b[w] => v = w
    BY <2>1, <2>3 DEF BookOK
  <2>5. Total(On(OffsetLines(r, u, m), a)) = -Total(La)
    BY <2>1, <2>2, <2>3, <2>4, TotalCopied
  <2>6. Total(La) \in Int /\ Total(La) <= 0
    <3>1. HasAmounts(LockedLines(r)) /\ \A v \in LockedLines(r) : v.amount < 0
      BY <1>1, <1>2, PartHasAmounts
    <3>2. QED
      BY <3>1, OutflowsOnAccount
  <2>7. QED
    BY <2>5, <2>6
<1>6. QED
  BY <1>4, <1>5

(* reversePaymentRequestTreasuryPayouts: no line of the request stays live. *)
LEMMA NothingLeftOut ==
    ASSUME BookOK(cashBook, journals, nextId),
           NEW r \in Requests, NEW u \in Users, NEW m \in Months, Reverse(r, u, m)
    PROVE  LiveLines(r)' = {}
<1>0. PICK new :
         /\ new = OffsetLines(r, u, m)
         /\ Joins(new, cashBook \ RemovableLines(r), nextId, nextId')
         /\ cashBook' = (cashBook \ RemovableLines(r)) \cup new
         /\ journals' = JournalsWithout(RemovableLines(r)) \cup {Journal(v) : v \in new}
         /\ \A v \in new : Open(v.month) /\ v.reverses # 0
         /\ \A v \in LockedLines(r) : \E w \in new : w.reverses = v.id
  BY ReversePosts
<1> DEFINE gone == RemovableLines(r)
<1>1. /\ cashBook' = (cashBook \ gone) \cup new
      /\ \A v \in new : v.reverses # 0
      /\ \A v \in LockedLines(r) : \E w \in new : w.reverses = v.id
  BY <1>0
<1>2. \/ \A w \in gone : w.reverses = 0
      \/ LinesOf(r) \ LiveLines(r) \subseteq gone
  BY DEF RemovableLines, LiveLines
<1>3. LiveLines(r)' \subseteq LiveLines(r) \ gone
  BY <1>1, <1>2, LinesFacts, RemovalDuties
<1>4. \A v \in LiveLines(r)' : v \in LockedLines(r)
  BY <1>3, LinesFacts
<1>5. \A v \in LockedLines(r) : \E w \in cashBook' : w.reverses = v.id
  BY <1>1
<1>6. QED
  BY <1>4, <1>5 DEF LiveLines, Reversed

(* What the reversal makes of the request. *)
LEMMA ReversedForms ==
    ASSUME CashInv, NEW r \in Requests, Exists(r),
           \/ r \in Loans /\ ResetLoan(r)
           \/ r \notin Loans /\ (CancelRequest(r) \/ DeleteRequest(r))
    PROVE  /\ pr' \in [Requests -> Row(Nat)] /\ pr'[r].paid = 0
           /\ pr'[r].amount \in Nat /\ (Exists(r)' => pr'[r].amount > 0)
           /\ \A q \in Requests : q # r => pr'[q] = pr[q]
           /\ expense' \in [Expenses -> Nat \cup {NoExpense}]
           /\ disbursed' \subseteq disbursed /\ r \notin disbursed'
<1>1. /\ pr \in [Requests -> Row(Nat)] /\ disbursed \subseteq Loans
      /\ expense \in [Expenses -> Nat \cup {NoExpense}]
      /\ pr[r] \in Row(Nat) /\ pr[r].amount \in Nat /\ pr[r].amount > 0
  BY RowHolds DEF CashInv, FormsOK, Settled
<1>2. CASE ResetLoan(r)
  <2> DEFINE row == [pr[r] EXCEPT !.paid = 0]
  <2>1. row \in Row(Nat) /\ row.paid = 0 /\ row.amount = pr[r].amount
    BY <1>1 DEF Row
  <2>2. pr' = [pr EXCEPT ![r] = row] /\ disbursed' = disbursed \ {r} /\ expense' = expense
    BY <1>2 DEF ResetLoan
  <2> HIDE DEF row
  <2>3. QED
    BY <1>1, <2>1, <2>2
<1>3. CASE r \notin Loans /\ CancelRequest(r)
  <2> DEFINE row == [pr[r] EXCEPT !.paid = 0, !.st = "Cancelled"]
  <2>1. row \in Row(Nat) /\ row.paid = 0 /\ row.amount = pr[r].amount
    BY <1>1 DEF Row, Statuses
  <2>2. /\ pr' = [pr EXCEPT ![r] = row] /\ disbursed' = disbursed
        /\ expense' = [expense EXCEPT ![pr[r].exp] = 0]
    BY <1>3 DEF CancelRequest
  <2> HIDE DEF row
  <2>3. expense' \in [Expenses -> Nat \cup {NoExpense}]
    BY <1>1, <2>2
  <2>4. QED
    BY <1>1, <1>3, <2>1, <2>2, <2>3
<1>4. CASE r \notin Loans /\ DeleteRequest(r)
  BY <1>1, <1>4, DeletedForms DEF Exists
<1>5. QED
  BY <1>2, <1>3, <1>4

(* reversePaymentRequestTreasuryPayouts *)
LEMMA ReverseCash ==
    ASSUME CashInv, BookOK(cashBook, journals, nextId)',
           NEW r \in Requests, NEW u \in Users, NEW m \in Months, Reverse(r, u, m)
    PROVE  CashInv'
<1>0. /\ BookOK(cashBook, journals, nextId) /\ LedgerOK(cashBook, journals)
      /\ OffsetsOK(cashBook) /\ CashBookTotals /\ FormsOK /\ \A q \in Requests : Settled(q)
  BY DEF CashInv
<1>1a. PICK new :
         /\ new = OffsetLines(r, u, m)
         /\ Joins(new, cashBook \ RemovableLines(r), nextId, nextId')
         /\ cashBook' = (cashBook \ RemovableLines(r)) \cup new
         /\ journals' = JournalsWithout(RemovableLines(r)) \cup {Journal(v) : v \in new}
         /\ \A v \in new : Open(v.month) /\ v.reverses # 0
         /\ \A v \in LockedLines(r) : \E w \in new : w.reverses = v.id
  BY <1>0, ReversePosts
<1>1b. PICK gone, rest, restJ :
         gone = RemovableLines(r) /\ rest = cashBook \ gone /\ restJ = JournalsWithout(gone)
  OBVIOUS
<1>1. /\ gone = RemovableLines(r) /\ new = OffsetLines(r, u, m)
      /\ rest = cashBook \ gone /\ restJ = JournalsWithout(gone)
  BY <1>1a, <1>1b
<1>2. /\ Joins(new, rest, nextId, nextId')
      /\ cashBook' = rest \cup new
      /\ journals' = restJ \cup {Journal(v) : v \in new}
      /\ \A v \in new : v.reverses # 0
  BY <1>1, <1>1a
<1>3. /\ gone \subseteq LinesOf(r) /\ gone \subseteq cashBook /\ LockedLines(r) \subseteq rest
      /\ \A v \in LockedLines(r) : v.reverses = 0 /\ v.req = r
  BY <1>1, LinesFacts DEF LiveLines, LinesOf
<1>4. restJ = {j \in journals : \A v \in gone : v.id # j.src} /\ restJ \subseteq journals
  BY <1>1 DEF JournalsWithout
<1>5. /\ LedgerOK(rest, restJ)
      /\ \A a : /\ Total(On(rest, a)) = Total(On(cashBook, a)) - Total(On(gone, a))
                /\ Total(On(restJ, a)) = Total(On(journals, a)) - Total(On(gone, a))
  <2>1. gone \subseteq cashBook /\ \A j : j \in restJ <=> j \in journals /\ \A v \in gone : v.id # j.src
    BY <1>3, <1>4
  <2>1a. BookOK(cashBook, journals, nextId) /\ LedgerOK(cashBook, journals)
    BY <1>0
  <2>1b. LedgerOK(cashBook \ gone, restJ)
    BY <2>1, <2>1a, LinesLeave
  <2>2. \A a : /\ Total(On(cashBook \ gone, a)) = Total(On(cashBook, a)) - Total(On(gone, a))
               /\ Total(On(restJ, a)) = Total(On(journals, a)) - Total(On(gone, a))
    BY SMTT(20), <2>1, <2>1a, <2>1b, LinesLeave
  <2>3. rest = cashBook \ gone
    BY <1>1
  <2>4. QED
    BY <2>1b, <2>2, <2>3
<1>5a. BookOK(rest, restJ, nextId)
  <2>1. BookOK(cashBook \ gone, restJ, nextId)
    BY <1>0, <1>4, BookShrinks
  <2>2. QED
    BY <1>1, <2>1
<1>6. /\ LedgerOK(cashBook', journals')
      /\ \A a : /\ Total(On(cashBook', a)) = Total(On(rest, a)) + Total(On(new, a))
                /\ Total(On(journals', a)) = Total(On(restJ, a)) + Total(On(new, a))
  <2>1. PICK book, jrnl : book = cashBook' /\ jrnl = journals'
    OBVIOUS
  <2>2. book = rest \cup new /\ jrnl = restJ \cup {Journal(v) : v \in new}
    BY <1>2, <2>1
  <2>3. Joins(new, rest, nextId, nextId')
    BY <1>2
  <2>4. LedgerOK(rest, restJ)
    BY <1>5
  <2>5. /\ LedgerOK(book, jrnl)
        /\ \A a : /\ Total(On(book, a)) = Total(On(rest, a)) + Total(On(new, a))
                  /\ Total(On(jrnl, a)) = Total(On(restJ, a)) + Total(On(new, a))
    BY SMTT(20), <1>5a, <2>2, <2>3, <2>4, LinesJoin
  <2>6. QED
    BY <2>1, <2>5
<1>7. OffsetsOK(cashBook)'
  <2>1. OffsetsOK(rest)
    BY <1>0, <1>1, RemovedInPairs, OffsetsShrink
  <2>2. ASSUME NEW w \in new PROVE \E v \in rest : v.id = w.reverses /\ v.reverses = 0
    <3>1. PICK v \in LockedLines(r) : w = Offset(v, LockedLines(r), u, m)
      BY <1>1 DEF OffsetLines
    <3>2. w.reverses = v.id
      BY <3>1 DEF Offset
    <3>3. QED
      BY <1>3, <3>2
  <2>3. QED
    BY <1>2, <2>1, <2>2, OffsetsGrow
<1>8. /\ pr' \in [Requests -> Row(Nat)] /\ pr'[r].paid = 0
      /\ pr'[r].amount \in Nat /\ (Exists(r)' => pr'[r].amount > 0)
      /\ \A q \in Requests : q # r => pr'[q] = pr[q]
      /\ expense' \in [Expenses -> Nat \cup {NoExpense}]
      /\ disbursed' \subseteq disbursed /\ r \notin disbursed'
  BY ReversedForms DEF Reverse
<1>9. Settled(r)'
  BY <1>0, <1>8, NothingLeftOut, SettledEmpty
<1>10. ASSUME NEW q \in Requests, q # r PROVE Settled(q)'
  <2>1. ASSUME NEW w \in new PROVE w.req = r
    <3>1. PICK v \in LockedLines(r) : w = Offset(v, LockedLines(r), u, m)
      BY <1>1 DEF OffsetLines
    <3>2. w.req = v.req
      BY <3>1 DEF Offset
    <3>3. QED
      BY <1>3, <3>2
  <2>2. LiveLines(q)' = LiveLines(q)
    BY <1>0, <1>1, <1>2, <1>3, <1>10, <2>1, OthersLive
  <2>3. QED
    BY <1>0, <1>8, <1>10, <2>2, SettledKept
<1>11. CashBookTotals' /\ balance' \in [Accounts -> Nat]
  <2>1. balance' = [a \in Accounts |-> balance[a] - Total(On(gone, a)) + Total(On(new, a))]
    BY <1>1 DEF Reverse, RemovedFrom, OffsetLines, On
  <2>2. ASSUME NEW a \in Accounts
        PROVE  /\ balance'[a] \in Nat
               /\ balance'[a] = Opening + Total(On(cashBook', a))
               /\ balance'[a] = Opening + Total(On(journals', a))
    <3>1. balance[a] \in Nat /\ Opening \in Nat
          /\ balance'[a] = balance[a] - Total(On(gone, a)) + Total(On(new, a))
      BY <1>0, <2>1, NumbersAssumption DEF FormsOK
    <3>2. /\ balance[a] = Opening + Total(On(cashBook, a))
          /\ balance[a] = Opening + Total(On(journals, a))
      BY <1>0 DEF CashBookTotals, On
    <3>3. Total(On(cashBook, a)) \in Int /\ Total(On(journals, a)) \in Int
      BY <1>0, BookHasAmounts, PartHasAmounts, TotalInt, OnFacts
    <3>4. /\ Total(On(gone, a)) \in Int /\ Total(On(gone, a)) <= 0
          /\ Total(On(new, a)) \in Nat
      BY <1>0, <1>1, ReversedTotals
    <3>5. /\ Total(On(cashBook', a)) = Total(On(cashBook, a)) - Total(On(gone, a))
                                         + Total(On(new, a))
          /\ Total(On(journals', a)) = Total(On(journals, a)) - Total(On(gone, a))
                                         + Total(On(new, a))
      BY <1>5, <1>6
    <3>6. QED
      BY <3>1, <3>2, <3>3, <3>4, <3>5
  <2>3. QED
    BY <2>1, <2>2 DEF CashBookTotals, On
<1>12. FormsOK'
  <2>1. nextId' \in 1..(MaxMovements + 1)
    <3>1. /\ nextId' = nextId + Cardinality(LockedLines(r))
          /\ nextId + Cardinality(LockedLines(r)) - 1 <= MaxMovements
      BY DEF Reverse
    <3>2. IsFiniteSet(LockedLines(r))
      BY <1>0, LiveAmounts, LinesFacts, FS_Subset DEF HasAmounts
    <3>3. Cardinality(LockedLines(r)) \in Nat
      BY <3>2, FS_CardinalityType
    <3>4. QED
      BY <1>0, <3>1, <3>3, NumbersAssumption DEF FormsOK
  <2>2. locks' = locks /\ edits' = edits
    BY DEF Reverse
  <2>3. QED
    BY <1>0, <1>8, <1>11, <2>1, <2>2 DEF FormsOK
<1>13. QED
  BY <1>6, <1>7, <1>9, <1>10, <1>11, <1>12 DEF CashInv

(* clearReversedPaymentRequestPayoutLines *)
LEMMA ClearCash ==
    ASSUME CashInv, BookOK(cashBook, journals, nextId)',
           NEW r \in Requests, ClearReversed(r)
    PROVE  CashInv'
<1>0. /\ BookOK(cashBook, journals, nextId) /\ LedgerOK(cashBook, journals)
      /\ OffsetsOK(cashBook) /\ CashBookTotals /\ FormsOK /\ \A q \in Requests : Settled(q)
  BY DEF CashInv
<1>1. PICK gone : gone = LinesOf(r) \ LiveLines(r)
  OBVIOUS
<1>2. /\ cashBook' = cashBook \ gone
      /\ balance' = RemovedFrom(balance, gone)
      /\ journals' = JournalsWithout(gone)
      /\ Exists(r) /\ locks' = locks /\ nextId' = nextId /\ edits' = edits
      /\ \/ LiveLines(r) = {} /\ r \notin Loans /\ DeleteRequest(r)
         \/ UNCHANGED <<pr, expense, disbursed>>
  BY <1>1 DEF ClearReversed
<1>3. gone \subseteq LinesOf(r) /\ gone \subseteq cashBook
  BY <1>1, LinesFacts
<1>4. /\ \A w \in cashBook, v \in gone : w.reverses = v.id => w \in gone
      /\ \A w \in gone, v \in cashBook : w.reverses = v.id => v \in gone
  BY <1>0, <1>1, RemovedInPairs
<1>5. /\ LedgerOK(cashBook', journals')
      /\ \A a : /\ Total(On(cashBook', a)) = Total(On(cashBook, a)) - Total(On(gone, a))
                /\ Total(On(journals', a)) = Total(On(journals, a)) - Total(On(gone, a))
  <2>1. PICK left : left = journals'
    OBVIOUS
  <2>2. \A j : j \in left <=> j \in journals /\ \A v \in gone : v.id # j.src
    BY <1>2, <2>1 DEF JournalsWithout
  <2>3. BookOK(cashBook, journals, nextId) /\ LedgerOK(cashBook, journals)
    BY <1>0
  <2>4. LedgerOK(cashBook \ gone, left)
    BY <1>3, <2>2, <2>3, LinesLeave
  <2>5. \A a : /\ Total(On(cashBook \ gone, a)) = Total(On(cashBook, a)) - Total(On(gone, a))
               /\ Total(On(left, a)) = Total(On(journals, a)) - Total(On(gone, a))
    BY SMTT(20), <1>3, <2>2, <2>3, <2>4, LinesLeave
  <2>6. QED
    BY <1>2, <2>1, <2>4, <2>5
<1>6. \A a : Total(On(gone, a)) = 0
  BY <1>0, <1>1, PairsCancel
<1>7. OffsetsOK(cashBook)'
  BY <1>0, <1>2, <1>4, OffsetsShrink
<1>8. \A q : LiveLines(q)' = LiveLines(q)
  <2>1. ASSUME NEW q PROVE LiveLines(q)' = LiveLines(q) \ gone
    BY <1>2, <1>4, LiveRemoved
  <2>2. ASSUME NEW q PROVE LiveLines(q) \cap gone = {}
    BY <1>1 DEF LiveLines, LinesOf
  <2>3. QED
    BY <2>1, <2>2
<1>9. CashBookTotals' /\ balance' \in [Accounts -> Nat]
  <2>1. balance' = [a \in Accounts |-> balance[a] - Total(On(gone, a))]
    BY <1>2 DEF RemovedFrom, On
  <2>2. balance \in [Accounts -> Nat]
    BY <1>0 DEF FormsOK
  <2>3. balance' = balance
    BY <1>6, <2>1, <2>2
  <2>4. ASSUME NEW a \in Accounts
        PROVE  /\ balance'[a] = Opening + Total(On(cashBook', a))
               /\ balance'[a] = Opening + Total(On(journals', a))
    <3>1. /\ balance[a] = Opening + Total(On(cashBook, a))
          /\ balance[a] = Opening + Total(On(journals, a))
      BY <1>0 DEF CashBookTotals, On
    <3>2. Total(On(cashBook, a)) \in Int /\ Total(On(journals, a)) \in Int
      BY <1>0, BookHasAmounts, PartHasAmounts, TotalInt, OnFacts
    <3>3. /\ Total(On(cashBook', a)) = Total(On(cashBook, a))
          /\ Total(On(journals', a)) = Total(On(journals, a))
      BY <1>5, <1>6, <3>2
    <3>4. QED
      BY <2>3, <3>1, <3>3
  <2>5. QED
    BY <2>2, <2>3, <2>4 DEF CashBookTotals, On
<1>10. /\ pr' \in [Requests -> Row(Nat)] /\ disbursed' = disbursed
       /\ expense' \in [Expenses -> Nat \cup {NoExpense}]
       /\ \A q \in Requests : q # r => pr'[q] = pr[q]
  BY <1>0, <1>2, DeletedForms DEF FormsOK
<1>11. Settled(r)'
  <2>1. CASE LiveLines(r) = {} /\ r \notin Loans /\ DeleteRequest(r)
    <3>1. pr'[r].st = "gone" /\ pr'[r].paid = 0 /\ pr'[r].amount = 0
      BY <2>1, DeletedForms
    <3>2. r \notin disbursed'
      BY <1>0, <1>10, <2>1 DEF FormsOK
    <3>3. LiveLines(r)' = {}
      BY <1>8, <2>1
    <3>4. ~Exists(r)'
      BY <3>1 DEF Exists
    <3>5. QED
      BY <3>1, <3>2, <3>3, <3>4, SettledEmpty
  <2>2. CASE UNCHANGED <<pr, expense, disbursed>>
    BY <1>0, <1>8, <2>2, SettledKept
  <2>3. QED
    BY <1>2, <2>1, <2>2
<1>12. ASSUME NEW q \in Requests, q # r PROVE Settled(q)'
  <2>1. Settled(q) /\ pr'[q] = pr[q] /\ LiveLines(q)' = LiveLines(q)
    BY <1>0, <1>8, <1>10, <1>12
  <2>2. QED
    BY <1>10, <2>1, SettledKept
<1>13. FormsOK'
  BY <1>0, <1>2, <1>9, <1>10 DEF FormsOK
<1>14. QED
  BY <1>5, <1>7, <1>9, <1>11, <1>12, <1>13 DEF CashInv

(* deletePaymentRequestRolloutDup moves no balance and deletes no journal: the
   lines it deletes cancel out, since the request has had nothing. *)
LEMMA RolloutCash ==
    ASSUME CashInv, BookOK(cashBook, journals, nextId)',
           NEW r \in Requests, DeleteRolloutDup(r)
    PROVE  CashInv'
<1>0. /\ BookOK(cashBook, journals, nextId) /\ LedgerOK(cashBook, journals)
      /\ OffsetsOK(cashBook) /\ CashBookTotals /\ FormsOK /\ \A q \in Requests : Settled(q)
  BY DEF CashInv
<1> DEFINE row == [NewRequest EXCEPT !.st = "gone"]
<1>1. /\ Exists(r) /\ pr[r].paid = 0
      /\ cashBook' = cashBook \ LinesOf(r)
      /\ pr' = [pr EXCEPT ![r] = row]
      /\ expense' = expense \/ expense' = ExpenseAfterDelete(r)
      /\ UNCHANGED <<balance, journals, disbursed, locks, nextId, edits>>
  BY DEF DeleteRolloutDup
<1>2. row \in Row(Nat) /\ row.st = "gone" /\ row.paid = 0 /\ row.amount = 0
  BY DEF NewRequest, Row, Statuses
<1> HIDE DEF row
<1>3. /\ pr \in [Requests -> Row(Nat)] /\ expense \in [Expenses -> Nat \cup {NoExpense}]
      /\ pr[r].amount \in Nat /\ Settled(r)
  BY RowHolds DEF CashInv, FormsOK
<1>4. LiveLines(r) = {}
  BY <1>0, <1>1, <1>3, LiveAmounts DEF Settled
<1>5. r \notin disbursed
  BY <1>1, <1>3, UnpaidNotDisbursed
<1>6. LinesOf(r) \subseteq cashBook /\ HasAmounts(cashBook) /\ HasAmounts(journals)
  BY <1>0, LinesFacts, BookHasAmounts
<1>7. /\ \A w \in cashBook, v \in LinesOf(r) : w.reverses = v.id => w \in LinesOf(r)
      /\ \A w \in LinesOf(r), v \in cashBook : w.reverses = v.id => v \in LinesOf(r)
  BY <1>0, RemovedInPairs
<1>8. LedgerOK(cashBook', journals')
  BY <1>0, <1>1 DEF LedgerOK
<1>9. OffsetsOK(cashBook)'
  BY <1>0, <1>1, <1>7, OffsetsShrink
<1>10. ASSUME NEW a PROVE Total(On(cashBook', a)) = Total(On(cashBook, a))
  <2>1. HasAmounts(On(cashBook, a)) /\ On(LinesOf(r), a) \subseteq On(cashBook, a)
    BY <1>6, PartHasAmounts, OnFacts
  <2>2. On(cashBook', a) = On(cashBook, a) \ On(LinesOf(r), a)
    BY <1>1, OnFacts
  <2>3. Total(On(LinesOf(r), a)) = 0
    <3>1. LinesOf(r) = LinesOf(r) \ LiveLines(r)
      BY <1>4
    <3>2. Total(On(LinesOf(r) \ LiveLines(r), a)) = 0
      BY <1>0, PairsCancel
    <3>3. QED
      BY <3>1, <3>2
  <2>4. Total(On(cashBook, a)) \in Int
    BY <2>1, TotalInt
  <2>5. QED
    BY <2>1, <2>2, <2>3, <2>4, TotalWithout
<1>11. CashBookTotals'
  BY <1>0, <1>1, <1>10 DEF CashBookTotals, On
<1>12. pr' \in [Requests -> Row(Nat)] /\ pr'[r] = row
       /\ \A q \in Requests : q # r => pr'[q] = pr[q]
  BY <1>1, <1>2, <1>3
<1>13. FormsOK'
  <2>1. expense' \in [Expenses -> Nat \cup {NoExpense}]
    BY <1>1, <1>3 DEF ExpenseAfterDelete
  <2>2. QED
    BY <1>0, <1>1, <1>12, <2>1 DEF FormsOK
<1>14. ASSUME NEW q PROVE LiveLines(q)' = LiveLines(q) \ LinesOf(r)
  <2>1. PICK gone : gone = LinesOf(r)
    OBVIOUS
  <2>2. /\ cashBook' = cashBook \ gone
        /\ \A w \in gone, v \in cashBook : w.reverses = v.id => v \in gone
    BY <1>1, <1>7, <2>1
  <2>3. QED
    BY <2>1, <2>2, LiveRemoved
<1>15. Settled(r)'
  <2>1. LiveLines(r)' = {}
    BY <1>4, <1>14
  <2>2. ~Exists(r)'
    BY <1>2, <1>12 DEF Exists
  <2>3. r \notin disbursed'
    BY <1>1, <1>5
  <2>4. QED
    BY <1>2, <1>12, <2>1, <2>2, <2>3, SettledEmpty
<1>16. ASSUME NEW q \in Requests, q # r PROVE Settled(q)'
  <2>1. LiveLines(q)' = LiveLines(q)
    BY <1>14, <1>16 DEF LiveLines, LinesOf
  <2>2. QED
    BY <1>0, <1>1, <1>12, <1>16, <2>1, SettledKept
<1>17. QED
  BY <1>8, <1>9, <1>11, <1>13, <1>15, <1>16 DEF CashInv

(* lockAccountingPeriod, unlockAccountingPeriod, and steps that change nothing. *)
LEMMA LocksCash ==
    ASSUME CashInv, BookOK(cashBook, journals, nextId)',
           UNCHANGED <<pr, expense, cashBook, balance, journals, disbursed, nextId, edits>>,
           locks' \subseteq Months
    PROVE  CashInv'
<1>1. LedgerOK(cashBook, journals)' /\ OffsetsOK(cashBook)' /\ CashBookTotals' /\ FormsOK'
  BY DEF CashInv, CashBookTotals, FormsOK
<1>2. \A q \in Requests : Settled(q)'
  BY SameBookSameLive, SettledKept DEF CashInv
<1>3. QED
  BY <1>1, <1>2 DEF CashInv

-----------------------------------------------------------------------------
(* The inductive invariant, and what it says.                                *)

(* Memos carry one of the amounts. *)
LEMMA MaxAmount == Max(Amounts) \in Nat
<1>1. Amounts # {} /\ IsFiniteSet(Amounts) /\ Amounts \subseteq Int
  BY NumbersAssumption
<1>2. \E x \in Amounts : \A y \in Amounts : x >= y
  BY <1>1, GreatestExists
<1>3. Max(Amounts) \in Amounts
  BY <1>2 DEF Max
<1>4. QED
  BY <1>3, NumbersAssumption

LEMMA CashInit == ASSUME Init PROVE CashInv
<1>1. BookOK(cashBook, journals, nextId) /\ LedgerOK(cashBook, journals)
  BY FS_EmptySet DEF Init, BookOK, LedgerOK
<1>2. OffsetsOK(cashBook)
  BY DEF Init, OffsetsOK
<1>3. balance \in [Accounts -> Nat] /\ CashBookTotals
  <2>1. \A a : {v \in cashBook : v.acct = a} = {} /\ {j \in journals : j.acct = a} = {}
    BY DEF Init
  <2>2. Opening \in Nat /\ balance = [a \in Accounts |-> Opening]
    BY NumbersAssumption DEF Init
  <2>3. Opening = Opening + 0
    BY <2>2
  <2>4. QED
    BY <2>1, <2>2, <2>3, TotalEmpty DEF CashBookTotals
<1>4. /\ pr \in [Requests -> Row(Nat)]
      /\ \A r \in Requests : pr[r] = NewRequest
  <2>1. NewRequest \in Row(Nat)
    BY DEF NewRequest, Row, Statuses
  <2>2. QED
    BY <2>1 DEF Init
<1>5. FormsOK
  <2>1. expense \in [Expenses -> Nat \cup {NoExpense}]
    BY MaxAmount DEF Init
  <2>2. nextId \in 1..(MaxMovements + 1) /\ edits \in 0..MaxInsertUpdates
    BY NumbersAssumption DEF Init
  <2>3. QED
    BY <1>3, <1>4, <2>1, <2>2 DEF Init, FormsOK
<1>6. ASSUME NEW r \in Requests PROVE Settled(r)
  <2>1. LiveLines(r) = {}
    BY DEF Init, LiveLines, LinesOf
  <2>2. LiveOut(r) = 0
    BY <2>1, TotalEmpty DEF LiveOut
  <2>3. pr[r].paid = 0 /\ pr[r].amount = 0 /\ pr[r].st = "none" /\ r \notin disbursed
    BY <1>4 DEF NewRequest, Init
  <2>4. QED
    BY <2>2, <2>3 DEF Settled, Exists
<1>7. QED
  BY <1>1, <1>2, <1>3, <1>5, <1>6 DEF CashInv

LEMMA CashStep == ASSUME CashInv, [Next]_vars PROVE CashInv'
<1>1. BookOK(cashBook, journals, nextId)'
  BY BookStep DEF CashInv
<1>2. ASSUME NEW r \in Requests, NEW u \in Users, NEW lines \in PayLines, Pay(r, u, lines)
      PROVE  CashInv'
  BY <1>1, <1>2, PayCash
<1>3. ASSUME NEW r \in Requests, NEW u \in Users, NEW m \in Months, Reverse(r, u, m)
      PROVE  CashInv'
  BY <1>1, <1>3, ReverseCash
<1>4. ASSUME NEW r \in Requests, ClearReversed(r) PROVE CashInv'
  BY <1>1, <1>4, ClearCash
<1>5. ASSUME NEW r \in Requests, DeleteRolloutDup(r) PROVE CashInv'
  BY <1>1, <1>5, RolloutCash
<1>6. ASSUME NEW r \in Requests,
             \/ \E u \in Users, e \in Expenses, amt \in Amounts, m \in Months :
                   Insert(r, u, e, amt, m)
             \/ \E amt \in Amounts, m \in Months : Update(r, amt, m)
             \/ \E u \in Users, st \in {"Approved", "Rejected"}, m \in Months :
                   Decide(r, u, st, m)
             \/ \E m \in Months : CancelBeforePay(r, m)
      PROVE  CashInv'
  BY <1>1, <1>6, RequestsCash
<1>7. ASSUME NEW m \in Months, Lock(m) \/ Unlock(m) PROVE CashInv'
  <2>1. locks' \subseteq Months
    BY <1>7 DEF Lock, Unlock, CashInv, FormsOK
  <2>2. UNCHANGED <<pr, expense, cashBook, balance, journals, disbursed, nextId, edits>>
    BY <1>7 DEF Lock, Unlock
  <2>3. QED
    BY <1>1, <2>1, <2>2, LocksCash
<1>8. ASSUME UNCHANGED vars PROVE CashInv'
  BY <1>1, <1>8, LocksCash DEF vars, CashInv, FormsOK
<1>9. QED
  BY <1>2, <1>3, <1>4, <1>5, <1>6, <1>7, <1>8 DEF Next

(* The cash of payment requests stays in order, whatever handlers run. *)
THEOREM CashInOrder == Spec => []CashInv
<1>1. Init => CashInv
  BY CashInit
<1>2. CashInv /\ [Next]_vars => CashInv'
  BY CashStep
<1>3. QED
  BY <1>1, <1>2, PTL DEF Spec

(* The rows have the shape of their tables and no account is overdrawn. *)
THEOREM RowsWellFormed == Spec => []TypeOK
<1>1. CashInv => TypeOK
  <2>1. ASSUME CashInv PROVE pr \in [Requests -> Row(Nat)] /\ disbursed \subseteq Requests
    BY <2>1, SetsAssumption DEF CashInv, FormsOK
  <2>2. ASSUME CashInv PROVE cashBook \subseteq Movement /\ journals \subseteq JournalType
    BY <2>2 DEF CashInv, BookOK, LedgerOK
  <2>3. QED
    BY <2>1, <2>2 DEF CashInv, FormsOK, TypeOK, Row
<1>2. QED
  BY <1>1, CashInOrder, PTL

(* Every account holds its opening balance, its cash lines and, the same, its
   journals: payouts, offsets, deletions in pairs and the rollout clean-up, which
   moves no balance, all keep the three together. *)
THEOREM AccountsMatchTheBooks == Spec => []CashBookTotals
<1>1. CashInv => CashBookTotals
  BY DEF CashInv
<1>2. QED
  BY <1>1, CashInOrder, PTL

(* What a request is shown to have been paid is what left for it and was not
   taken back. *)
THEOREM PaidIsOut == Spec => []PaidIsLiveCash
<1>1. CashInv => PaidIsLiveCash
  BY DEF CashInv, Settled, PaidIsLiveCash
<1>2. QED
  BY <1>1, CashInOrder, PTL

(* No more ever leaves for a request than its approver saw, the tolerance of one
   naira included. *)
THEOREM NeverBeyondApproval == Spec => []WithinApproval
<1>1. CashInv => WithinApproval
  BY DEF CashInv, Settled, WithinApproval
<1>2. QED
  BY <1>1, CashInOrder, PTL

(* A loan marked as disbursed is out in full. *)
THEOREM DisbursedLoansAreFunded == Spec => []DisbursedIsFunded
<1>1. CashInv => DisbursedIsFunded
  <2>1. ASSUME CashInv, NEW r \in disbursed PROVE LiveOut(r) >= pr[r].amount
    <3>1. r \in Requests
      BY <2>1, SetsAssumption DEF CashInv, FormsOK
    <3>2. QED
      BY <2>1, <3>1 DEF CashInv, Settled
  <2>2. QED
    BY <2>1 DEF DisbursedIsFunded
<1>2. QED
  BY <1>1, CashInOrder, PTL
=============================================================================
