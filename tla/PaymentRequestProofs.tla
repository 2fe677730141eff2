------------------------ MODULE PaymentRequestProofs ------------------------
(***************************************************************************)
(* Proofs about the cash book and the journals of payment requests, for     *)
(* every set of requests, accounts, months and users and every bound.       *)
(*                                                                          *)
(* The argument rests on the identity of cash lines (BookOK): ids are never *)
(* reused, a journal carries the month of its line, and an offsetting line  *)
(* belongs to the request of the line it offsets, so that lines leave the   *)
(* book together with the lines that offset them.                           *)
(***************************************************************************)
EXTENDS PaymentRequest, FiniteSetTheorems, TLAPS

(* Offset line w matches line v. *)
Matches(w, v) == w.req = v.req /\ w.acct = v.acct /\ w.amount = -v.amount

(* A cash book B with journals J, whose next line gets id n. *)
BookOK(B, J, n) ==
    /\ B \subseteq Movement /\ IsFiniteSet(B) /\ n \in Nat \ {0}
    /\ \A v \in B : v.id < n /\ v.reverses < n
    /\ \A v, w \in B : v.id = w.id => v = w
    /\ \A v, w \in B : w.reverses = v.id => Matches(w, v)
    /\ \A v, w \in B : w.reverses # 0 /\ w.reverses = v.reverses => v = w
    /\ \A j \in J : j.src \in Nat /\ j.src < n
    /\ \A j \in J, v \in B : j.src = v.id => j.month = v.month

(* Lines that may join such a book: their ids are new, and each either offsets
   nothing or is the only one to offset a line of the book. *)
Joins(new, B, n, n1) ==
    /\ new \subseteq Movement /\ IsFiniteSet(new) /\ n1 \in Nat \ {0} /\ n <= n1
    /\ \A v \in new : n <= v.id /\ v.id < n1
    /\ \A v, w \in new : v.id = w.id => v = w
    /\ \A w \in new : w.reverses # 0 =>
          /\ \E v \in B : w.reverses = v.id /\ Matches(w, v)
          /\ \A v \in B : v.reverses # w.reverses
    /\ \A v, w \in new : w.reverses # 0 /\ w.reverses = v.reverses => v = w

-----------------------------------------------------------------------------
(* Lemmas about books.                                                       *)

(* Removing lines, and any journals, keeps a book in order. *)
LEMMA BookShrinks ==
    ASSUME NEW B, NEW J, NEW n, BookOK(B, J, n), NEW gone, NEW J1, J1 \subseteq J
    PROVE  BookOK(B \ gone, J1, n)
<1>1. IsFiniteSet(B \ gone)
  BY FS_Difference DEF BookOK
<1>2. QED
  BY <1>1 DEF BookOK

(* Posting new lines, each with its journal, keeps a book in order. *)
LEMMA BookGrows ==
    ASSUME NEW B, NEW J, NEW n, BookOK(B, J, n),
           NEW new, NEW n1, Joins(new, B, n, n1)
    PROVE  BookOK(B \cup new, J \cup {Journal(v) : v \in new}, n1)
<1> DEFINE B1 == B \cup new
           J1 == J \cup {Journal(v) : v \in new}
<1>1. B1 \subseteq Movement /\ IsFiniteSet(B1) /\ n1 \in Nat \ {0} /\ n \in Nat /\ n <= n1
  BY FS_Union DEF BookOK, Joins
<1>2. \A v \in B1 : v.id \in Nat \ {0} /\ v.reverses \in Nat
  BY <1>1, NumbersAssumption DEF Movement
<1>3. \A v \in B1 : v.id < n1 /\ v.reverses < n1
  <2>1. ASSUME NEW v \in B PROVE v.id < n1 /\ v.reverses < n1
    BY <1>1, <1>2 DEF BookOK
  <2>2. ASSUME NEW w \in new PROVE w.id < n1 /\ w.reverses < n1
    <3>1. CASE w.reverses = 0
      BY <3>1, <1>1, <1>2 DEF Joins
    <3>2. CASE w.reverses # 0
      BY <3>2, <2>1 DEF Joins
    <3>3. QED
      BY <3>1, <3>2
  <2>3. QED
    BY <2>1, <2>2
<1>4. \A v \in B, w \in new : v.id # w.id /\ v.reverses # w.id
  BY <1>1, <1>2 DEF BookOK, Joins
<1>5. \A v, w \in B1 : v.id = w.id => v = w
  BY <1>4 DEF BookOK, Joins
<1>6. ASSUME NEW v \in B1, NEW w \in B1, w.reverses = v.id PROVE Matches(w, v)
  <2>1. w.reverses # 0 /\ v.id # 0
    BY <1>2, <1>6
  <2>2. CASE w \in new
    <3>1. PICK u \in B : w.reverses = u.id /\ Matches(w, u)
      BY <2>1, <2>2 DEF Joins
    <3>2. u = v
      BY <1>5, <1>6, <3>1
    <3>3. QED
      BY <3>1, <3>2
  <2>3. CASE w \in B
    <3>1. v \in B
      BY <2>3, <1>4, <1>6
    <3>2. QED
      BY <2>3, <3>1, <1>6 DEF BookOK
  <2>4. QED
    BY <2>2, <2>3
<1>7. \A v, w \in B1 : w.reverses # 0 /\ w.reverses = v.reverses => v = w
  BY DEF BookOK, Joins
<1>8. \A v \in new : Journal(v).src = v.id /\ Journal(v).month = v.month
  BY DEF Journal
<1>9. \A j \in J1 : j.src \in Nat /\ j.src < n1
  BY <1>1, <1>2, <1>3, <1>8 DEF BookOK
<1>10. ASSUME NEW j \in J1, NEW v \in B1, j.src = v.id PROVE j.month = v.month
  <2>1. CASE j \in J
    <3>1. v \in B
      <4>1. j.src < n
        BY <2>1 DEF BookOK
      <4>2. v \notin new
        BY <4>1, <1>1, <1>2, <1>10 DEF Joins
      <4>3. QED
        BY <4>2
    <3>2. QED
      BY <2>1, <3>1, <1>10 DEF BookOK
  <2>2. CASE j \notin J
    <3>1. PICK u \in new : j = Journal(u)
      BY <2>2
    <3>2. u = v
      BY <3>1, <1>5, <1>8, <1>10
    <3>3. QED
      BY <3>1, <3>2, <1>8
  <2>3. QED
    BY <2>1, <2>2
<1>11. QED
  BY <1>1, <1>3, <1>5, <1>6, <1>7, <1>9, <1>10 DEF BookOK

-----------------------------------------------------------------------------
(* The lines each handler posts.                                             *)

(* A payment has one or two lines. *)
LEMMA PayLinesFacts ==
    ASSUME NEW lines \in PayLines
    PROVE  /\ Len(lines) \in {1, 2}
           /\ DOMAIN lines = 1..Len(lines)
           /\ \A i \in DOMAIN lines : lines[i] \in PayLine
<1>1. CASE lines \in {<<x>> : x \in PayLine}
  BY <1>1
<1>2. CASE lines \in PayLine \X PayLine
  <2>1. PICK x \in PayLine, y \in PayLine : lines = <<x, y>>
    BY <1>2
  <2>2. QED
    BY <2>1
<1>3. QED
  BY <1>1, <1>2 DEF PayLines

(* An amount is a positive number. *)
LEMMA AmountsAreNumbers ==
    ASSUME NEW a \in Amounts
    PROVE  a \in Int /\ a > 0
BY NumbersAssumption

(* The cash lines of a payment. *)
PaidLines(r, u, lines) == {PaidLine(r, u, lines, i) : i \in DOMAIN lines}

(* payPaymentRequest posts new lines, in open months, that offset nothing. *)
LEMMA PayPosts ==
    ASSUME NEW J, BookOK(cashBook, J, nextId),
           NEW r \in Requests, NEW u \in Users, NEW lines \in PayLines, Pay(r, u, lines)
    PROVE  \E new :
              /\ new = PaidLines(r, u, lines)
              /\ Joins(new, cashBook, nextId, nextId')
              /\ cashBook' = cashBook \cup new
              /\ journals' = journals \cup {Journal(v) : v \in new}
              /\ \A v \in new : /\ Open(v.month) /\ v.req = r /\ v.by = u
                                /\ v.reverses = 0
<1> DEFINE new == {PaidLine(r, u, lines, i) : i \in DOMAIN lines}
           k == Len(lines)
<1>1. /\ k \in {1, 2} /\ DOMAIN lines = 1..k
      /\ \A i \in DOMAIN lines : lines[i] \in PayLine
  BY PayLinesFacts
<1>2. /\ \A i \in DOMAIN lines : Open(lines[i].month)
      /\ nextId + k - 1 <= MaxMovements /\ nextId' = nextId + k
      /\ cashBook' = cashBook \cup new
      /\ journals' = journals \cup {Journal(v) : v \in new}
  BY DEF Pay
<1>3. nextId \in Nat \ {0}
  BY DEF BookOK
<1>4. ASSUME NEW i \in 1..k
      PROVE  LET v == PaidLine(r, u, lines, i)
             IN  /\ v \in Movement /\ v.id = nextId + i - 1 /\ v.reverses = 0
                 /\ v.req = r /\ v.by = u /\ v.month = lines[i].month
  <2>a. lines[i] \in PayLine
    BY <1>1
  <2>b. lines[i].amount \in Amounts
    BY <2>a DEF PayLine
  <2>1. lines[i] \in PayLine /\ lines[i].amount \in Int
    BY <2>a, <2>b, AmountsAreNumbers
  <2>2. nextId + i - 1 \in 1..MaxMovements /\ 0 \in 0..MaxMovements /\ -lines[i].amount \in Int
    BY <1>1, <1>2, <1>3, <2>1, NumbersAssumption
  <2>3. QED
    BY <2>1, <2>2 DEF PaidLine, Movement, PayLine
<1>5. IsFiniteSet(new)
  <2>1. IsFiniteSet(1..k)
    BY <1>1, FS_Interval
  <2>2. [i \in 1..k |-> PaidLine(r, u, lines, i)] \in Surjection(1..k, new)
    BY <1>1 DEF Surjection
  <2>3. QED
    BY <2>1, <2>2, FS_Surjection
<1>6. Joins(new, cashBook, nextId, nextId')
  <2>1. \A v \in new : \E i \in 1..k : v = PaidLine(r, u, lines, i)
    BY <1>1
  <2>2. new \subseteq Movement /\ \A v \in new : v.reverses = 0
    BY <1>4, <2>1
  <2>3. \A v \in new : nextId <= v.id /\ v.id < nextId'
    BY <1>1, <1>2, <1>3, <1>4, <2>1
  <2>4. ASSUME NEW v \in new, NEW w \in new, v.id = w.id PROVE v = w
    <3>1. PICK i \in 1..k, j \in 1..k :
             v = PaidLine(r, u, lines, i) /\ w = PaidLine(r, u, lines, j)
      BY <2>1
    <3>2. nextId + i - 1 = nextId + j - 1
      BY <1>4, <2>4, <3>1
    <3>3. i = j
      BY <1>1, <1>3, <3>2
    <3>4. QED
      BY <3>1, <3>3
  <2>5. nextId' \in Nat \ {0} /\ nextId <= nextId'
    BY <1>1, <1>2, <1>3
  <2> HIDE DEF new
  <2>6. QED
    BY <1>5, <2>2, <2>3, <2>4, <2>5 DEF Joins
<1>7. \A v \in new : Open(v.month) /\ v.req = r /\ v.by = u /\ v.reverses = 0
  BY <1>1, <1>2, <1>4
<1>8. QED
  BY <1>2, <1>6, <1>7 DEF PaidLines

(* What is live, locked and removable of a request is on its book. *)
LEMMA LinesFacts ==
    ASSUME NEW r
    PROVE  /\ LiveLines(r) \subseteq LinesOf(r)
           /\ LinesOf(r) \subseteq cashBook
           /\ LockedLines(r) \subseteq LiveLines(r)
           /\ RemovableLines(r) \subseteq LinesOf(r)
           /\ RemovableLines(r) \cap LockedLines(r) = {}
           /\ \A v \in RemovableLines(r) : Open(v.month)
           /\ \A v \in LiveLines(r) :
                 v \in RemovableLines(r) \/ v \in LockedLines(r)
<1>1. /\ LiveLines(r) \subseteq LinesOf(r) /\ LinesOf(r) \subseteq cashBook
      /\ LockedLines(r) \subseteq LiveLines(r)
  BY DEF LiveLines, LinesOf, LockedLines
<1>2. CASE \A v \in LinesOf(r) : Open(v.month)
  BY <1>1, <1>2 DEF RemovableLines, LockedLines
<1>3. CASE ~ \A v \in LinesOf(r) : Open(v.month)
  <2>1. RemovableLines(r) = LiveLines(r) \ LockedLines(r)
    BY <1>3 DEF RemovableLines
  <2>2. QED
    BY <1>1, <2>1 DEF LockedLines
<1>4. QED
  BY <1>2, <1>3

(* The lines that offset the locked lines of a request. *)
OffsetLines(r, u, m) == {Offset(v, LockedLines(r), u, m) : v \in LockedLines(r)}

(* reversePaymentRequestTreasuryPayouts offsets each locked line once, with a
   line of an open month, and removes only lines of open months. *)
LEMMA ReversePosts ==
    ASSUME BookOK(cashBook, journals, nextId),
           NEW r \in Requests, NEW u \in Users, NEW m \in Months, Reverse(r, u, m)
    PROVE  \E new :
              /\ new = OffsetLines(r, u, m)
              /\ Joins(new, cashBook \ RemovableLines(r), nextId, nextId')
              /\ cashBook' = (cashBook \ RemovableLines(r)) \cup new
              /\ journals' = JournalsWithout(RemovableLines(r))
                                \cup {Journal(v) : v \in new}
              /\ \A v \in new : Open(v.month) /\ v.reverses # 0
              /\ \A v \in LockedLines(r) : \E w \in new : w.reverses = v.id
<1> DEFINE locked == LockedLines(r)
           rest == cashBook \ RemovableLines(r)
           rank(v) == Cardinality({w \in locked : w.id < v.id})
           new == {Offset(v, locked, u, m) : v \in locked}
<1>1. /\ locked # {} => Open(m)
      /\ nextId + Cardinality(locked) - 1 <= MaxMovements
      /\ nextId' = nextId + Cardinality(locked)
      /\ cashBook' = rest \cup new
      /\ journals' = JournalsWithout(RemovableLines(r)) \cup {Journal(v) : v \in new}
  BY DEF Reverse
<1>2. nextId \in Nat \ {0} /\ IsFiniteSet(cashBook) /\ cashBook \subseteq Movement
  BY DEF BookOK
<1>3. locked \subseteq cashBook /\ locked \subseteq rest /\ locked \subseteq LiveLines(r)
  BY LinesFacts
<1>4. IsFiniteSet(locked)
  BY <1>2, <1>3, FS_Subset
<1>5. Cardinality(locked) \in Nat
  BY <1>4, FS_CardinalityType
<1>6. \A v \in locked : v \in Movement /\ v.id \in Nat \ {0} /\ v.amount \in Int
  BY <1>2, <1>3, NumbersAssumption DEF Movement
<1>7. ASSUME NEW v \in locked
      PROVE  rank(v) \in Nat /\ rank(v) < Cardinality(locked)
  <2>1. {w \in locked : w.id < v.id} \subseteq locked \ {v}
    BY <1>6
  <2>2. /\ IsFiniteSet(locked \ {v})
        /\ Cardinality(locked \ {v}) = Cardinality(locked) - 1
    BY <1>4, FS_RemoveElement
  <2>3. /\ Cardinality({w \in locked : w.id < v.id}) <= Cardinality(locked \ {v})
        /\ IsFiniteSet({w \in locked : w.id < v.id})
    BY <2>1, <2>2, FS_Subset
  <2>4. rank(v) \in Nat
    BY <2>3, FS_CardinalityType
  <2>5. QED
    BY <1>5, <2>2, <2>3, <2>4
<1>8. ASSUME NEW v \in locked, NEW x \in locked, v.id < x.id
      PROVE  rank(v) < rank(x)
  <2> DEFINE V == {w \in locked : w.id < v.id}
             X == {w \in locked : w.id < x.id}
  <2>1. V \subseteq X /\ v \in X /\ v \notin V
    BY <1>6, <1>8
  <2>2. IsFiniteSet(X) /\ V \subseteq X \ {v}
    BY <1>4, <2>1, FS_Subset
  <2> HIDE DEF V, X
  <2>3. /\ IsFiniteSet(X \ {v}) /\ Cardinality(X \ {v}) = Cardinality(X) - 1
    BY <2>1, <2>2, FS_RemoveElement
  <2>4. Cardinality(V) <= Cardinality(X \ {v}) /\ IsFiniteSet(V)
    BY <2>2, <2>3, FS_Subset
  <2>5. Cardinality(X) \in Nat /\ Cardinality(V) \in Nat
    BY <2>2, <2>4, FS_CardinalityType
  <2>6. Cardinality(V) < Cardinality(X)
    BY <2>3, <2>4, <2>5
  <2>7. QED
    BY <2>6 DEF V, X
<1>9. ASSUME NEW v \in locked
      PROVE  LET o == Offset(v, locked, u, m)
             IN  /\ o \in Movement /\ o.id = nextId + rank(v) /\ o.reverses = v.id
                 /\ o.month = m /\ Matches(o, v)
  <2>1. nextId + rank(v) \in 1..MaxMovements /\ -v.amount \in Int
    BY <1>1, <1>2, <1>5, <1>6, <1>7, NumbersAssumption
  <2>2. v.id \in 0..MaxMovements /\ v.req \in Requests /\ v.acct \in Accounts
    BY <1>6, NumbersAssumption DEF Movement
  <2>3. QED
    BY <2>1, <2>2 DEF Offset, Movement, Matches
<1> HIDE DEF rank
<1>10. IsFiniteSet(new)
  <2>1. [v \in locked |-> Offset(v, locked, u, m)] \in Surjection(locked, new)
    BY DEF Surjection
  <2>2. QED
    BY <1>4, <2>1, FS_Surjection
<1>11. Joins(new, rest, nextId, nextId')
  <2>1. \A w \in new : \E v \in locked : w = Offset(v, locked, u, m)
    OBVIOUS
  <2>2. new \subseteq Movement
    BY <1>9, <2>1
  <2>3. \A w \in new : nextId <= w.id /\ w.id < nextId'
    BY <1>1, <1>2, <1>5, <1>7, <1>9, <2>1
  <2>4. ASSUME NEW w \in new, NEW x \in new, w.id = x.id PROVE w = x
    <3>1. PICK v \in locked, y \in locked :
             w = Offset(v, locked, u, m) /\ x = Offset(y, locked, u, m)
      BY <2>1
    <3>2. nextId + rank(v) = nextId + rank(y)
      BY <1>9, <2>4, <3>1
    <3>3. rank(v) = rank(y) /\ rank(v) \in Nat
      BY <1>2, <1>7, <3>2
    <3>4. v.id = y.id
      BY <1>6, <1>8, <3>3
    <3>5. v = y
      BY <1>3, <3>4 DEF BookOK
    <3>6. QED
      BY <3>1, <3>5
  <2>5. ASSUME NEW w \in new
        PROVE  /\ \E v \in rest : w.reverses = v.id /\ Matches(w, v)
               /\ \A v \in rest : v.reverses # w.reverses
    <3>1. PICK v \in locked : w = Offset(v, locked, u, m)
      BY <2>1
    <3>2. w.reverses = v.id /\ Matches(w, v) /\ v \in rest
      BY <1>3, <1>9, <3>1
    <3>3. \A x \in cashBook : x.reverses # v.id
      BY <1>3 DEF LiveLines, Reversed
    <3>4. QED
      BY <3>2, <3>3
  <2>6. ASSUME NEW w \in new, NEW x \in new, w.reverses = x.reverses PROVE w = x
    <3>1. PICK v \in locked, y \in locked :
             w = Offset(v, locked, u, m) /\ x = Offset(y, locked, u, m)
      BY <2>1
    <3>2. v.id = y.id
      BY <1>9, <2>6, <3>1
    <3>3. v = y
      BY <1>3, <3>2 DEF BookOK
    <3>4. QED
      BY <3>1, <3>3
  <2>7. nextId' \in Nat \ {0} /\ nextId <= nextId'
    BY <1>1, <1>2, <1>5
  <2> HIDE DEF new, rest
  <2>8. QED
    BY <1>10, <2>2, <2>3, <2>4, <2>5, <2>6, <2>7 DEF Joins
<1>12. \A w \in new : Open(w.month) /\ w.reverses # 0
  BY <1>1, <1>6, <1>9
<1>13. \A v \in locked : \E w \in new : w.reverses = v.id
  BY <1>9
<1>14. QED
  BY <1>1, <1>11, <1>12, <1>13 DEF OffsetLines

-----------------------------------------------------------------------------
(* The book stays in order, and what is locked stays as it is.               *)

(* Steps that leave the cash book alone. *)
Elsewhere == UNCHANGED <<cashBook, journals, nextId>>

(* Every step posts, offsets and removes as the handlers do, or leaves the
   book alone. *)
LEMMA BookStep ==
    ASSUME BookOK(cashBook, journals, nextId), [Next]_vars
    PROVE  BookOK(cashBook', journals', nextId')
<1>1. ASSUME Elsewhere PROVE BookOK(cashBook', journals', nextId')
  BY <1>1 DEF Elsewhere
<1>2. ASSUME NEW r \in Requests, NEW u \in Users, NEW lines \in PayLines, Pay(r, u, lines)
      PROVE  BookOK(cashBook', journals', nextId')
  BY <1>2, PayPosts, BookGrows
<1>3. ASSUME NEW r \in Requests, NEW u \in Users, NEW m \in Months, Reverse(r, u, m)
      PROVE  BookOK(cashBook', journals', nextId')
  <2>1. PICK new :
          /\ Joins(new, cashBook \ RemovableLines(r), nextId, nextId')
          /\ cashBook' = (cashBook \ RemovableLines(r)) \cup new
          /\ journals' = JournalsWithout(RemovableLines(r)) \cup {Journal(v) : v \in new}
    BY <1>3, ReversePosts
  <2>2. JournalsWithout(RemovableLines(r)) \subseteq journals
    BY DEF JournalsWithout
  <2>3. BookOK(cashBook \ RemovableLines(r), JournalsWithout(RemovableLines(r)), nextId)
    BY <2>2, BookShrinks
  <2>4. QED
    BY <2>1, <2>3, BookGrows
<1>4. ASSUME NEW r \in Requests, ClearReversed(r)
      PROVE  BookOK(cashBook', journals', nextId')
  <2>1. /\ cashBook' = cashBook \ (LinesOf(r) \ LiveLines(r))
        /\ journals' = JournalsWithout(LinesOf(r) \ LiveLines(r))
        /\ nextId' = nextId
    BY <1>4 DEF ClearReversed
  <2>2. journals' \subseteq journals
    BY <2>1 DEF JournalsWithout
  <2>3. QED
    BY <2>1, <2>2, BookShrinks
<1>5. ASSUME NEW r \in Requests, DeleteRolloutDup(r)
      PROVE  BookOK(cashBook', journals', nextId')
  <2>1. cashBook' = cashBook \ LinesOf(r) /\ journals' = journals /\ nextId' = nextId
    BY <1>5 DEF DeleteRolloutDup
  <2>2. QED
    BY <2>1, BookShrinks
<1>6. CASE UNCHANGED vars
  BY <1>1, <1>6 DEF vars, Elsewhere
<1>7. CASE \E r \in Requests, u \in Users, e \in Expenses, amt \in Amounts, m \in Months :
              Insert(r, u, e, amt, m)
  BY <1>1, <1>7 DEF Insert, Elsewhere
<1>8. CASE \E r \in Requests, amt \in Amounts, m \in Months : Update(r, amt, m)
  BY <1>1, <1>8 DEF Update, Elsewhere
<1>9. CASE \E r \in Requests, u \in Users, st \in {"Approved", "Rejected"}, m \in Months :
              Decide(r, u, st, m)
  BY <1>1, <1>9 DEF Decide, Elsewhere
<1>10. CASE \E r \in Requests, m \in Months : CancelBeforePay(r, m)
  BY <1>1, <1>10 DEF CancelBeforePay, Elsewhere
<1>11. CASE \E m \in Months : Lock(m) \/ Unlock(m)
  BY <1>1, <1>11 DEF Lock, Unlock, Elsewhere
<1>12. QED
  BY <1>2, <1>3, <1>4, <1>5, <1>6, <1>7, <1>8, <1>9, <1>10, <1>11 DEF Next

(* The cash book stays in order: ids are never reused, a line is offset at most
   once and by a matching line, journals carry the month of their line. *)
THEOREM BookInvariant == Spec => []BookOK(cashBook, journals, nextId)
<1>1. Init => BookOK(cashBook, journals, nextId)
  BY FS_EmptySet DEF Init, BookOK
<1>2. BookOK(cashBook, journals, nextId) /\ [Next]_vars
        => BookOK(cashBook, journals, nextId)'
  BY BookStep
<1>3. QED
  BY <1>1, <1>2, PTL DEF Spec

(* A cash line is offset at most once, by a line of the opposite amount on the
   same account (reversePaymentRequestTreasuryPayouts). *)
THEOREM OffsetsAreUnique == Spec => []OffsetOnce
<1>1. BookOK(cashBook, journals, nextId) => OffsetOnce
  BY DEF BookOK, Matches, OffsetOnce
<1>2. QED
  BY <1>1, BookInvariant, PTL

(* Removing lines of open months with their journals, and posting lines in
   open months, leaves the locked months alone. *)
LEMMA LockedUntouched ==
    ASSUME BookOK(cashBook, journals, nextId), locks' = locks,
           NEW gone, gone \subseteq cashBook, \A v \in gone : Open(v.month),
           NEW new, \A v \in new : Open(v.month),
           cashBook' = (cashBook \ gone) \cup new,
           journals' = JournalsWithout(gone) \cup {Journal(v) : v \in new}
    PROVE  KeepsLockedMonths
<1>1. locks \cap locks' = locks
  OBVIOUS
<1>2. InLocked(cashBook', locks) = InLocked(cashBook, locks)
  BY DEF InLocked, Open
<1>3. \A j \in journals : j \notin JournalsWithout(gone) => j.month \notin locks
  BY DEF JournalsWithout, BookOK, Open
<1>4. \A v \in new : Journal(v).month \notin locks
  BY DEF Journal, Open
<1>5. JournalsWithout(gone) \subseteq journals
  BY DEF JournalsWithout
<1>6. InLocked(journals', locks) = InLocked(journals, locks)
  BY <1>3, <1>4, <1>5 DEF InLocked
<1>7. QED
  BY <1>1, <1>2, <1>6 DEF KeepsLockedMonths

(* Without the rollout clean-up route no step touches a locked month. *)
LEMMA LockedStep ==
    ASSUME ~RolloutDelete, BookOK(cashBook, journals, nextId), [Next]_vars
    PROVE  [KeepsLockedMonths]_vars
<1>1. ASSUME Elsewhere PROVE KeepsLockedMonths
  BY <1>1 DEF Elsewhere, KeepsLockedMonths
<1>2. ASSUME NEW r \in Requests, NEW u \in Users, NEW lines \in PayLines, Pay(r, u, lines)
      PROVE  KeepsLockedMonths
  <2>1. PICK new : /\ cashBook' = cashBook \cup new
                   /\ journals' = journals \cup {Journal(v) : v \in new}
                   /\ \A v \in new : Open(v.month)
    BY <1>2, PayPosts
  <2>2. locks' = locks
    BY <1>2 DEF Pay
  <2>3. JournalsWithout({}) = journals
    BY DEF JournalsWithout
  <2>4. cashBook' = (cashBook \ {}) \cup new
    BY <2>1
  <2>5. QED
    BY <2>1, <2>2, <2>3, <2>4, LockedUntouched
<1>3. ASSUME NEW r \in Requests, NEW u \in Users, NEW m \in Months, Reverse(r, u, m)
      PROVE  KeepsLockedMonths
  <2>1. PICK new :
          /\ cashBook' = (cashBook \ RemovableLines(r)) \cup new
          /\ journals' = JournalsWithout(RemovableLines(r)) \cup {Journal(v) : v \in new}
          /\ \A v \in new : Open(v.month)
    BY <1>3, ReversePosts
  <2>2. locks' = locks
    BY <1>3 DEF Reverse
  <2>3. RemovableLines(r) \subseteq cashBook /\ \A v \in RemovableLines(r) : Open(v.month)
    BY LinesFacts
  <2>4. QED
    BY <2>1, <2>2, <2>3, LockedUntouched
<1>4. ASSUME NEW r \in Requests, ClearReversed(r)
      PROVE  KeepsLockedMonths
  <2> DEFINE pairs == LinesOf(r) \ LiveLines(r)
  <2>1. /\ cashBook' = cashBook \ pairs /\ journals' = JournalsWithout(pairs)
        /\ locks' = locks /\ \A v \in pairs : Open(v.month)
    BY <1>4 DEF ClearReversed
  <2>2. pairs \subseteq cashBook
    BY LinesFacts
  <2> HIDE DEF pairs
  <2>3. PICK none : none = {}
    OBVIOUS
  <2>4. /\ cashBook' = (cashBook \ pairs) \cup none
        /\ journals' = JournalsWithout(pairs) \cup {Journal(v) : v \in none}
        /\ \A v \in none : Open(v.month)
    BY <2>1, <2>3
  <2>5. QED
    BY <2>1, <2>2, <2>4, LockedUntouched
<1>5. CASE UNCHANGED vars
  BY <1>5
<1>6. CASE \E r \in Requests, u \in Users, e \in Expenses, amt \in Amounts, m \in Months :
              Insert(r, u, e, amt, m)
  BY <1>1, <1>6 DEF Insert, Elsewhere
<1>7. CASE \E r \in Requests, amt \in Amounts, m \in Months : Update(r, amt, m)
  BY <1>1, <1>7 DEF Update, Elsewhere
<1>8. CASE \E r \in Requests, u \in Users, st \in {"Approved", "Rejected"}, m \in Months :
              Decide(r, u, st, m)
  BY <1>1, <1>8 DEF Decide, Elsewhere
<1>9. CASE \E r \in Requests, m \in Months : CancelBeforePay(r, m)
  BY <1>1, <1>9 DEF CancelBeforePay, Elsewhere
<1>10. CASE \E m \in Months : Lock(m) \/ Unlock(m)
  BY <1>1, <1>10 DEF Lock, Unlock, Elsewhere
<1>11. CASE \E r \in Requests : DeleteRolloutDup(r)
  BY <1>11 DEF DeleteRolloutDup
<1>12. QED
  BY <1>2, <1>3, <1>4, <1>5, <1>6, <1>7, <1>8, <1>9, <1>10, <1>11 DEF Next

(* What a locked month shows on the cash book and in the journals never changes
   while it is locked, as long as the rollout clean-up route is not used. *)
THEOREM LockedMonthsFrozen ==
    ASSUME ~RolloutDelete
    PROVE  Spec => LockedBookIsFrozen
<1>1. BookOK(cashBook, journals, nextId) /\ [Next]_vars => [KeepsLockedMonths]_vars
  BY LockedStep
<1>2. QED
  BY <1>1, BookInvariant, PTL DEF Spec, LockedBookIsFrozen

-----------------------------------------------------------------------------
(* Separation of duties.                                                     *)

(* A row of payment_requests; P is the set its paid amount is in. *)
Row(P) == [st : Statuses, amount : Nat, paid : P, exp : Expenses \cup {""},
           month : Months \cup {0}, requester : Users \cup {NoUser},
           approver : Users \cup {NoUser}]

RowsOK == \E P : pr \in [Requests -> Row(P)]

(* An approved row was approved by another person than its requester, and cash
   is out only for rows that were approved, paid by another than the approver. *)
Accountable(r) ==
    /\ pr[r].st = "Approved" => Apart(pr[r].approver, pr[r].requester)
    /\ LiveLines(r) # {} => /\ pr[r].st \in {"Approved", "Cancelled"}
                            /\ Apart(pr[r].approver, pr[r].requester)
    /\ \A v \in LiveLines(r) : PaidApart(v.by, pr[r].approver)

DutiesInv == /\ BookOK(cashBook, journals, nextId)
             /\ RowsOK
             /\ \A r \in Requests : Accountable(r)

(* Lines that leave together with what offsets them bring no line back to life. *)
LEMMA LiveAfter ==
    ASSUME NEW gone, NEW new, cashBook' = (cashBook \ gone) \cup new,
           \A w \in gone, v \in cashBook : w.reverses = v.id => v \in gone,
           NEW q
    PROVE  LiveLines(q)' \subseteq (LiveLines(q) \ gone)
                                     \cup {v \in new : v.req = q /\ v.reverses = 0}
  BY DEF LiveLines, LinesOf, Reversed

(* A row that keeps its people and whose cash only comes back stays accountable. *)
LEMMA AccountableKept ==
    ASSUME NEW q, Accountable(q), LiveLines(q)' \subseteq LiveLines(q),
           pr'[q].approver = pr[q].approver, pr'[q].requester = pr[q].requester,
           \/ pr'[q].st = pr[q].st
           \/ pr[q].st = "Approved" /\ pr'[q].st = "Cancelled"
    PROVE  Accountable(q)'
  BY DEF Accountable

(* A row with no cash out is accountable unless somebody approved their own. *)
LEMMA AccountableIdle ==
    ASSUME NEW q, LiveLines(q)' = {},
           pr'[q].st = "Approved" => Apart(pr'[q].approver, pr'[q].requester)
    PROVE  Accountable(q)'
  BY DEF Accountable

(* One row changes, to a well-formed one. *)
LEMMA RowChange ==
    ASSUME RowsOK, NEW r \in Requests, NEW P1, NEW row \in Row(P1),
           pr' = [pr EXCEPT ![r] = row]
    PROVE  /\ RowsOK'
           /\ pr'[r] = row
           /\ \A q \in Requests : q # r => pr'[q] = pr[q]
<1>1. PICK P : pr \in [Requests -> Row(P)]
  BY DEF RowsOK
<1>2. Row(P) \subseteq Row(P \cup P1) /\ row \in Row(P \cup P1)
  BY DEF Row
<1>3. pr' \in [Requests -> Row(P \cup P1)]
  BY <1>1, <1>2
<1>4. QED
  BY <1>1, <1>3 DEF RowsOK

(* Every row is well formed. *)
LEMMA RowFacts ==
    ASSUME RowsOK, NEW r \in Requests
    PROVE  \E P : pr[r] \in Row(P)
  BY DEF RowsOK

(* insertPaymentRequest *)
LEMMA InsertDuties ==
    ASSUME DutiesInv, NEW r \in Requests, NEW u \in Users, NEW e \in Expenses,
           NEW amt \in Amounts, NEW m \in Months, Insert(r, u, e, amt, m)
    PROVE  RowsOK' /\ \A q \in Requests : Accountable(q)'
<1> DEFINE row == [st |-> "Pending", amount |-> amt, paid |-> 0, exp |-> e,
                   month |-> m, requester |-> u, approver |-> NoUser]
<1>1. pr' = [pr EXCEPT ![r] = row] /\ cashBook' = cashBook /\ pr[r].st = "none"
  BY DEF Insert
<1>2. row \in Row({0})
  BY NumbersAssumption DEF Row, Statuses
<1>3. /\ RowsOK' /\ pr'[r] = row
      /\ \A q \in Requests : q # r => pr'[q] = pr[q]
  <2>1. PICK new : new = row
    OBVIOUS
  <2>2. RowsOK /\ new \in Row({0}) /\ pr' = [pr EXCEPT ![r] = new]
    BY <1>1, <1>2, <2>1 DEF DutiesInv
  <2>3. RowsOK' /\ pr'[r] = new /\ \A q \in Requests : q # r => pr'[q] = pr[q]
    BY <2>2, RowChange
  <2>4. QED
    BY <2>1, <2>3
<1>4. \A q : LiveLines(q)' = LiveLines(q)
  BY <1>1 DEF LiveLines, LinesOf, Reversed
<1>5. Accountable(r)'
  <2>1. LiveLines(r) = {}
    BY <1>1 DEF DutiesInv, Accountable
  <2>2. pr'[r].st = "Pending"
    BY <1>3
  <2>3. QED
    BY <1>4, <2>1, <2>2, AccountableIdle
<1>6. ASSUME NEW q \in Requests, q # r PROVE Accountable(q)'
  <2>1. Accountable(q) /\ pr'[q] = pr[q] /\ LiveLines(q)' = LiveLines(q)
    BY <1>3, <1>4, <1>6 DEF DutiesInv
  <2>2. QED
    BY <2>1, AccountableKept
<1>7. QED
  BY <1>3, <1>5, <1>6

(* updatePaymentRequest, decidePaymentRequest, cancelApprovedPaymentRequestBeforePay:
   the cash book stays, one row is reviewed. *)
LEMMA ReviewDuties ==
    ASSUME DutiesInv, NEW r \in Requests, NEW P, NEW row \in Row(P),
           pr' = [pr EXCEPT ![r] = row], cashBook' = cashBook,
           \/ pr[r].st \in {"Pending", "Rejected"} /\ row.st # "Approved"
           \/ pr[r].st \in {"Pending", "Rejected"} /\ Apart(row.approver, row.requester)
           \/ /\ pr[r].st = "Approved" /\ row.st = "Cancelled"
              /\ row.approver = pr[r].approver /\ row.requester = pr[r].requester
    PROVE  RowsOK' /\ \A q \in Requests : Accountable(q)'
<1>0. RowsOK
  BY DEF DutiesInv
<1>1. /\ RowsOK' /\ pr'[r] = row
      /\ \A q \in Requests : q # r => pr'[q] = pr[q]
  BY <1>0, RowChange
<1>2. \A q : LiveLines(q)' = LiveLines(q)
  BY DEF LiveLines, LinesOf, Reversed
<1>3. Accountable(r)'
  <2>1. CASE pr[r].st \in {"Pending", "Rejected"}
    <3>1. LiveLines(r) = {}
      BY <2>1 DEF DutiesInv, Accountable
    <3>2. pr'[r].st = "Approved" => Apart(pr'[r].approver, pr'[r].requester)
      BY <1>1, <2>1
    <3>3. QED
      BY <1>2, <3>1, <3>2, AccountableIdle
  <2>2. CASE pr[r].st \notin {"Pending", "Rejected"}
    BY <1>1, <1>2, <2>2, AccountableKept DEF DutiesInv
  <2>3. QED
    BY <2>1, <2>2
<1>4. \A q \in Requests : q # r => Accountable(q)'
  BY <1>1, <1>2, AccountableKept DEF DutiesInv
<1>5. QED
  BY <1>1, <1>3, <1>4

(* payPaymentRequest: the payer is not the approver. *)
LEMMA PayDuties ==
    ASSUME DutiesInv, NEW r \in Requests, NEW u \in Users, NEW lines \in PayLines,
           Pay(r, u, lines)
    PROVE  RowsOK' /\ \A q \in Requests : Accountable(q)'
<1>1. PICK new : /\ cashBook' = cashBook \cup new
                 /\ \A v \in new : v.req = r /\ v.by = u /\ v.reverses = 0
  BY PayPosts DEF DutiesInv
<1>2. PICK paid : pr' = [pr EXCEPT ![r].paid = paid]
  BY DEF Pay
<1>3. pr[r].st = "Approved" /\ PaidApart(u, pr[r].approver)
  BY DEF Pay
<1> DEFINE row == [pr[r] EXCEPT !.paid = paid]
<1>4. PICK P : pr[r] \in Row(P)
  BY RowFacts DEF DutiesInv
<1>5. /\ row \in Row({paid}) /\ row.st = "Approved" /\ row.approver = pr[r].approver
      /\ row.requester = pr[r].requester
  BY <1>3, <1>4 DEF Row
<1>6. pr' = [pr EXCEPT ![r] = row]
  BY <1>2
<1> HIDE DEF row
<1>7. /\ RowsOK' /\ pr'[r] = row
      /\ \A q \in Requests : q # r => pr'[q] = pr[q]
  BY <1>5, <1>6, RowChange DEF DutiesInv
<1>8. \A q : LiveLines(q)' \subseteq LiveLines(q) \cup {v \in new : v.req = q}
  <2>1. PICK gone : gone = {}
    OBVIOUS
  <2>2. /\ cashBook' = (cashBook \ gone) \cup new
        /\ \A w \in gone, v \in cashBook : w.reverses = v.id => v \in gone
    BY <1>1, <2>1
  <2>3. ASSUME NEW q
        PROVE  LiveLines(q)' \subseteq (LiveLines(q) \ gone)
                                         \cup {v \in new : v.req = q /\ v.reverses = 0}
    BY <2>2, LiveAfter
  <2>4. QED
    BY <2>3
<1>9. ASSUME NEW q \in Requests, q # r PROVE Accountable(q)'
  <2>1. LiveLines(q)' \subseteq LiveLines(q)
    BY <1>1, <1>8, <1>9
  <2>2. pr'[q] = pr[q]
    BY <1>7, <1>9
  <2>3. QED
    BY <2>1, <2>2, AccountableKept DEF DutiesInv
<1>10. Accountable(r)'
  <2>1. pr'[r].st = "Approved" /\ pr'[r].approver = pr[r].approver
        /\ pr'[r].requester = pr[r].requester
    BY <1>5, <1>7
  <2>2. Accountable(r) /\ Apart(pr[r].approver, pr[r].requester)
    BY <1>3 DEF DutiesInv, Accountable
  <2>3. \A v \in LiveLines(r)' : PaidApart(v.by, pr[r].approver)
    BY <1>1, <1>3, <1>8, <2>2 DEF Accountable
  <2>4. QED
    BY <2>1, <2>2, <2>3 DEF Accountable
<1>11. QED
  BY <1>7, <1>9, <1>10

(* Lines of one request leave with the lines that offset them: nobody's cash
   is out again, and none of that request's if all its lines go. *)
LEMMA RemovalDuties ==
    ASSUME BookOK(cashBook, journals, nextId),
           NEW r, NEW gone, gone \subseteq LinesOf(r),
           \/ \A w \in gone : w.reverses = 0
           \/ LinesOf(r) \ LiveLines(r) \subseteq gone,
           NEW new, \A v \in new : v.reverses # 0,
           cashBook' = (cashBook \ gone) \cup new,
           NEW q
    PROVE  LiveLines(q)' \subseteq LiveLines(q) \ gone
<1>1. cashBook \subseteq Movement /\ \A v \in Movement : v.id # 0
  BY NumbersAssumption DEF BookOK, Movement
<1>2. ASSUME NEW w \in gone, NEW v \in cashBook, w.reverses = v.id PROVE v \in gone
  <2>1. w \in cashBook /\ w.req = r /\ w.reverses # 0
    BY <1>1, <1>2 DEF LinesOf
  <2>2. v.req = r
    BY <1>2, <2>1 DEF BookOK, Matches
  <2>3. v \in LinesOf(r) \ LiveLines(r)
    BY <1>2, <2>1, <2>2 DEF LinesOf, LiveLines, Reversed
  <2>4. QED
    BY <2>1, <2>3
<1>3. LiveLines(q)' \subseteq (LiveLines(q) \ gone)
                                \cup {v \in new : v.req = q /\ v.reverses = 0}
  BY <1>2, LiveAfter
<1>4. QED
  BY <1>3

(* A live line belongs to one request. *)
LEMMA LiveApart ==
    ASSUME NEW q, NEW r, q # r
    PROVE  LiveLines(q) \cap LinesOf(r) = {}
  BY DEF LiveLines, LinesOf

(* The row a request leaves behind when it is deleted. *)
LEMMA GoneRow ==
    [NewRequest EXCEPT !.st = "gone"] \in Row({0})
      /\ [NewRequest EXCEPT !.st = "gone"].st = "gone"
  BY DEF NewRequest, Row, Statuses

(* reversePaymentRequestTreasuryPayouts: no cash of the request stays out. *)
LEMMA ReverseDuties ==
    ASSUME DutiesInv, NEW r \in Requests, NEW u \in Users, NEW m \in Months,
           Reverse(r, u, m)
    PROVE  RowsOK' /\ \A q \in Requests : Accountable(q)'
<1> DEFINE gone == RemovableLines(r)
<1>1. PICK new :
         /\ cashBook' = (cashBook \ gone) \cup new
         /\ \A v \in new : v.reverses # 0
         /\ \A v \in LockedLines(r) : \E w \in new : w.reverses = v.id
  BY ReversePosts DEF DutiesInv
<1>2. \/ \A w \in gone : w.reverses = 0
      \/ LinesOf(r) \ LiveLines(r) \subseteq gone
  BY DEF RemovableLines, LiveLines
<1>3. ASSUME NEW q PROVE LiveLines(q)' \subseteq LiveLines(q) \ gone
  BY <1>1, <1>2, LinesFacts, RemovalDuties DEF DutiesInv
<1>4. LiveLines(r)' = {}
  <2>1. \A v \in LiveLines(r)' : v \in LockedLines(r)
    BY <1>3, LinesFacts
  <2>2. \A v \in LockedLines(r) : \E w \in cashBook' : w.reverses = v.id
    BY <1>1
  <2>3. QED
    BY <2>1, <2>2 DEF LiveLines, Reversed
<1>5. PICK P : pr[r] \in Row(P)
  BY RowFacts DEF DutiesInv
<1>6. \E P1, row :
         /\ row \in Row(P1)
         /\ pr' = [pr EXCEPT ![r] = row]
         /\ row.st = "Approved" => Apart(row.approver, row.requester)
  <2>1. CASE pr' = [pr EXCEPT ![r].paid = 0]
    <3> DEFINE row == [pr[r] EXCEPT !.paid = 0]
    <3>1. row \in Row({0}) /\ row.st = pr[r].st /\ row.approver = pr[r].approver
          /\ row.requester = pr[r].requester
      BY <1>5 DEF Row
    <3>2. pr' = [pr EXCEPT ![r] = row]
      BY <2>1
    <3>3. pr[r].st = "Approved" => Apart(pr[r].approver, pr[r].requester)
      BY DEF DutiesInv, Accountable
    <3> HIDE DEF row
    <3>4. QED
      BY <3>1, <3>2, <3>3
  <2>2. CASE pr' = [pr EXCEPT ![r].paid = 0, ![r].st = "Cancelled"]
    <3> DEFINE row == [pr[r] EXCEPT !.paid = 0, !.st = "Cancelled"]
    <3>1. row \in Row({0}) /\ row.st = "Cancelled"
      BY <1>5 DEF Row, Statuses
    <3>2. pr' = [pr EXCEPT ![r] = row]
      BY <2>2
    <3> HIDE DEF row
    <3>3. QED
      BY <3>1, <3>2
  <2>3. CASE pr' = [pr EXCEPT ![r] = [NewRequest EXCEPT !.st = "gone"]]
    BY <2>3, GoneRow
  <2>4. QED
    BY <2>1, <2>2, <2>3 DEF Reverse, ResetLoan, CancelRequest, DeleteRequest
<1>7. PICK P1, row :
         /\ row \in Row(P1)
         /\ pr' = [pr EXCEPT ![r] = row]
         /\ row.st = "Approved" => Apart(row.approver, row.requester)
  BY <1>6
<1>8. /\ RowsOK' /\ pr'[r] = row
      /\ \A q \in Requests : q # r => pr'[q] = pr[q]
  BY <1>7, RowChange DEF DutiesInv
<1>9. Accountable(r)'
  BY <1>4, <1>7, <1>8, AccountableIdle
<1>10. ASSUME NEW q \in Requests, q # r PROVE Accountable(q)'
  BY <1>3, <1>8, <1>10, AccountableKept DEF DutiesInv
<1>11. QED
  BY <1>8, <1>9, <1>10

(* clearReversedPaymentRequestPayoutLines and deletePaymentRequestRolloutDup:
   lines leave the book, and the request may leave with its last line. *)
LEMMA CleanUpDuties ==
    ASSUME DutiesInv, NEW r \in Requests,
           NEW gone, gone \subseteq LinesOf(r), LinesOf(r) \ LiveLines(r) \subseteq gone,
           cashBook' = cashBook \ gone,
           \/ pr' = pr
           \/ /\ LiveLines(r) \subseteq gone
              /\ pr' = [pr EXCEPT ![r] = [NewRequest EXCEPT !.st = "gone"]]
    PROVE  RowsOK' /\ \A q \in Requests : Accountable(q)'
<1>1. ASSUME NEW q PROVE LiveLines(q)' \subseteq LiveLines(q) \ gone
  <2>1. PICK new : new = {}
    OBVIOUS
  <2>2. cashBook' = (cashBook \ gone) \cup new /\ \A v \in new : v.reverses # 0
    BY <2>1
  <2>3. QED
    BY <2>2, RemovalDuties DEF DutiesInv
<1>2. CASE pr' = pr
  BY <1>1, <1>2, AccountableKept DEF DutiesInv, RowsOK
<1>3. CASE pr' # pr
  <2>1. /\ RowsOK' /\ pr'[r].st = "gone"
        /\ \A q \in Requests : q # r => pr'[q] = pr[q]
    <3>1. PICK P, row : /\ row \in Row(P) /\ row.st = "gone"
                        /\ pr' = [pr EXCEPT ![r] = row]
      BY <1>3, GoneRow
    <3>2. RowsOK
      BY DEF DutiesInv
    <3>3. RowsOK' /\ pr'[r] = row /\ \A q \in Requests : q # r => pr'[q] = pr[q]
      BY <3>1, <3>2, RowChange
    <3>4. QED
      BY <3>1, <3>3
  <2>2. Accountable(r)'
    <3>1. LiveLines(r)' = {}
      BY <1>1, <1>3
    <3>2. QED
      BY <2>1, <3>1, AccountableIdle
  <2>3. \A q \in Requests : q # r => Accountable(q)'
    BY <1>1, <2>1, AccountableKept DEF DutiesInv
  <2>4. QED
    BY <2>1, <2>2, <2>3
<1>4. QED
  BY <1>2, <1>3

(* Every step keeps the duties apart. *)
LEMMA DutiesStep ==
    ASSUME DutiesInv, [Next]_vars
    PROVE  DutiesInv'
<1> DEFINE Goal == RowsOK' /\ \A q \in Requests : Accountable(q)'
<1>1. BookOK(cashBook, journals, nextId)'
  BY BookStep DEF DutiesInv
<1>2. SUFFICES Goal
  BY <1>1 DEF DutiesInv
<1>3. ASSUME pr' = pr, cashBook' = cashBook PROVE Goal
  <2>1. \A q : LiveLines(q)' = LiveLines(q)
    BY <1>3 DEF LiveLines, LinesOf, Reversed
  <2>2. QED
    BY <1>3, <2>1, AccountableKept DEF DutiesInv, RowsOK
<1>4. CASE UNCHANGED vars \/ \E m \in Months : Lock(m) \/ Unlock(m)
  BY <1>3, <1>4 DEF vars, Lock, Unlock
<1>5. CASE \E r \in Requests, u \in Users, e \in Expenses, amt \in Amounts, m \in Months :
              Insert(r, u, e, amt, m)
  BY <1>5, InsertDuties
<1>6. ASSUME NEW r \in Requests, NEW amt \in Amounts, NEW m \in Months, Update(r, amt, m)
      PROVE  Goal
  <2> DEFINE row == [pr[r] EXCEPT !.st = "Pending", !.amount = amt, !.month = m,
                                  !.approver = NoUser]
  <2>1. PICK P : pr[r] \in Row(P)
    BY RowFacts DEF DutiesInv
  <2>2. row \in Row(P) /\ row.st = "Pending"
    BY <2>1, NumbersAssumption DEF Row, Statuses
  <2>3. pr' = [pr EXCEPT ![r] = row] /\ cashBook' = cashBook
        /\ pr[r].st \in {"Pending", "Rejected"}
    BY <1>6 DEF Update
  <2> HIDE DEF row
  <2>4. QED
    BY <2>2, <2>3, ReviewDuties
<1>7. ASSUME NEW r \in Requests, NEW u \in Users, NEW st \in {"Approved", "Rejected"},
             NEW m \in Months, Decide(r, u, st, m)
      PROVE  Goal
  <2> DEFINE row == [pr[r] EXCEPT !.st = st, !.approver = u]
  <2>1. PICK P : pr[r] \in Row(P)
    BY RowFacts DEF DutiesInv
  <2>2. row \in Row(P) /\ row.approver = u /\ row.requester = pr[r].requester
    BY <2>1 DEF Row, Statuses
  <2>3. pr' = [pr EXCEPT ![r] = row] /\ cashBook' = cashBook
        /\ pr[r].st = "Pending" /\ Apart(u, pr[r].requester)
    BY <1>7 DEF Decide
  <2> HIDE DEF row
  <2>4. QED
    BY <2>2, <2>3, ReviewDuties
<1>8. ASSUME NEW r \in Requests, NEW m \in Months, CancelBeforePay(r, m)
      PROVE  Goal
  <2> DEFINE row == [pr[r] EXCEPT !.st = "Cancelled"]
  <2>1. PICK P : pr[r] \in Row(P)
    BY RowFacts DEF DutiesInv
  <2>2. row \in Row(P) /\ row.st = "Cancelled" /\ row.approver = pr[r].approver
        /\ row.requester = pr[r].requester
    BY <2>1 DEF Row, Statuses
  <2>3. pr' = [pr EXCEPT ![r] = row] /\ cashBook' = cashBook /\ pr[r].st = "Approved"
    BY <1>8 DEF CancelBeforePay
  <2> HIDE DEF row
  <2>4. QED
    BY <2>2, <2>3, ReviewDuties
<1>9. CASE \E r \in Requests, u \in Users, lines \in PayLines : Pay(r, u, lines)
  BY <1>9, PayDuties
<1>10. CASE \E r \in Requests, u \in Users, m \in Months : Reverse(r, u, m)
  BY <1>10, ReverseDuties
<1>11. ASSUME NEW r \in Requests, ClearReversed(r)
       PROVE  Goal
  <2>1. PICK gone : gone = LinesOf(r) \ LiveLines(r)
    OBVIOUS
  <2>2. gone \subseteq LinesOf(r) /\ cashBook' = cashBook \ gone
        /\ LinesOf(r) \ LiveLines(r) \subseteq gone
    BY <1>11, <2>1 DEF ClearReversed, DeleteRequest
  <2>3. \/ pr' = pr
        \/ /\ LiveLines(r) \subseteq gone
           /\ pr' = [pr EXCEPT ![r] = [NewRequest EXCEPT !.st = "gone"]]
    BY <1>11 DEF ClearReversed, DeleteRequest
  <2>4. QED
    BY <2>2, <2>3, CleanUpDuties
<1>12. ASSUME NEW r \in Requests, DeleteRolloutDup(r)
       PROVE  Goal
  <2>1. PICK gone : gone = LinesOf(r)
    OBVIOUS
  <2>2. gone \subseteq LinesOf(r) /\ cashBook' = cashBook \ gone
        /\ LinesOf(r) \ LiveLines(r) \subseteq gone /\ LiveLines(r) \subseteq gone
    BY <1>12, <2>1, LinesFacts DEF DeleteRolloutDup
  <2>3. pr' = [pr EXCEPT ![r] = [NewRequest EXCEPT !.st = "gone"]]
    BY <1>12 DEF DeleteRolloutDup
  <2>4. QED
    BY <2>2, <2>3, CleanUpDuties
<1>13. QED
  BY <1>4, <1>5, <1>6, <1>7, <1>8, <1>9, <1>10, <1>11, <1>12 DEF Next

(* Cash that is out was approved by another person than its requester and paid
   by another person than its approver, whatever was edited, reversed or
   cleaned up in between (decidePaymentRequest, payPaymentRequest). *)
THEOREM DutiesSeparated == Spec => []SeparationOfDuties
<1>1. Init => DutiesInv
  <2>1. ASSUME Init PROVE BookOK(cashBook, journals, nextId)
    BY <2>1, FS_EmptySet DEF Init, BookOK
  <2>2. ASSUME Init PROVE RowsOK
    <3>1. NewRequest \in Row({0})
      BY DEF NewRequest, Row, Statuses
    <3>2. pr \in [Requests -> Row({0})]
      BY <2>2, <3>1 DEF Init
    <3>3. QED
      BY <3>2 DEF RowsOK
  <2>3. ASSUME Init, NEW r \in Requests PROVE Accountable(r)
    BY <2>3 DEF Init, Accountable, LiveLines, LinesOf, NewRequest
  <2>4. QED
    BY <2>1, <2>2, <2>3 DEF DutiesInv
<1>2. DutiesInv /\ [Next]_vars => DutiesInv'
  BY DutiesStep
<1>3. DutiesInv => SeparationOfDuties
  BY DEF DutiesInv, Accountable, SeparationOfDuties
<1>4. QED
  BY <1>1, <1>2, <1>3, PTL DEF Spec

-----------------------------------------------------------------------------
(* Expenses outlive all but their last request.                              *)

ExpensesOK == \E S : expense \in [Expenses -> S]

(* A request on file names an expense that is still there. *)
Raised(r) == Exists(r) => /\ pr[r].exp \in Expenses
                          /\ expense[pr[r].exp] # NoExpense

RaisedInv == RowsOK /\ ExpensesOK /\ \A r \in Requests : Raised(r)

(* One expense gets another amount. *)
LEMMA ExpenseChange ==
    ASSUME ExpensesOK, NEW e \in Expenses, NEW x, expense' = [expense EXCEPT ![e] = x]
    PROVE  /\ ExpensesOK'
           /\ expense'[e] = x
           /\ \A f \in Expenses : f # e => expense'[f] = expense[f]
<1>1. PICK S : expense \in [Expenses -> S]
  BY DEF ExpensesOK
<1>2. expense' \in [Expenses -> S \cup {x}]
  BY <1>1
<1>3. QED
  BY <1>1, <1>2 DEF ExpensesOK

(* A request stays raised if it keeps its expense and its expense stays. *)
LEMMA RaisedKept ==
    ASSUME NEW q, Raised(q),
           Exists(q)' => Exists(q) /\ pr'[q].exp = pr[q].exp,
           Exists(q)' => expense'[pr[q].exp] # NoExpense \/ expense'[pr[q].exp] = expense[pr[q].exp]
    PROVE  Raised(q)'
  BY DEF Raised

(* The rows change, no expense goes. *)
LEMMA ExpenseStays ==
    ASSUME RaisedInv, NEW r \in Requests, Exists(r),
           NEW P, NEW row \in Row(P), row.exp = pr[r].exp \/ row.st = "gone",
           pr' = [pr EXCEPT ![r] = row],
           \/ expense' = expense
           \/ \E x \in Nat : expense' = [expense EXCEPT ![pr[r].exp] = x]
    PROVE  RowsOK' /\ ExpensesOK' /\ \A q \in Requests : Raised(q)'
<1>1. /\ RowsOK' /\ pr'[r] = row
      /\ \A q \in Requests : q # r => pr'[q] = pr[q]
  BY RowChange DEF RaisedInv
<1>2. pr[r].exp \in Expenses
  BY DEF RaisedInv, Raised
<1>3. /\ ExpensesOK'
      /\ \A f \in Expenses : expense'[f] # NoExpense \/ expense'[f] = expense[f]
  <2>1. CASE expense' = expense
    BY <2>1 DEF RaisedInv, ExpensesOK
  <2>2. CASE \E x \in Nat : expense' = [expense EXCEPT ![pr[r].exp] = x]
    <3>1. PICK x \in Nat : expense' = [expense EXCEPT ![pr[r].exp] = x]
      BY <2>2
    <3>2. x # NoExpense
      BY DEF NoExpense
    <3>3. QED
      BY <1>2, <3>1, <3>2, ExpenseChange DEF RaisedInv
  <2>3. QED
    BY <2>1, <2>2
<1>4. ASSUME NEW q \in Requests PROVE Raised(q)'
  <2>1. Exists(q)' => Exists(q) /\ pr'[q].exp = pr[q].exp
    BY <1>1 DEF Exists
  <2>2. Exists(q)' => pr[q].exp \in Expenses
    BY <2>1 DEF RaisedInv, Raised
  <2>3. QED
    BY <1>3, <2>1, <2>2, RaisedKept DEF RaisedInv
<1>5. QED
  BY <1>1, <1>3, <1>4

(* A request goes, with the expense that nobody else was raised on. *)
LEMMA ExpenseGoesLast ==
    ASSUME RaisedInv, NEW r \in Requests, Exists(r),
           pr' = [pr EXCEPT ![r] = [NewRequest EXCEPT !.st = "gone"]],
           expense' = expense \/ expense' = ExpenseAfterDelete(r)
    PROVE  RowsOK' /\ ExpensesOK' /\ \A q \in Requests : Raised(q)'
<1>1. CASE expense' = expense
  BY <1>1, GoneRow, ExpenseStays
<1>2. CASE expense' = [expense EXCEPT ![pr[r].exp] = NoExpense] /\ LinkedTo(pr[r].exp) = {r}
  <2>1. /\ RowsOK' /\ pr'[r].st = "gone"
        /\ \A q \in Requests : q # r => pr'[q] = pr[q]
    <3> DEFINE row == [NewRequest EXCEPT !.st = "gone"]
    <3>1. row \in Row({0}) /\ row.st = "gone" /\ pr' = [pr EXCEPT ![r] = row]
      BY GoneRow
    <3> HIDE DEF row
    <3>2. QED
      BY <3>1, RowChange DEF RaisedInv
  <2>2. pr[r].exp \in Expenses
    BY DEF RaisedInv, Raised
  <2>3. /\ ExpensesOK'
        /\ \A f \in Expenses : f # pr[r].exp => expense'[f] = expense[f]
    BY <1>2, <2>2, ExpenseChange DEF RaisedInv
  <2>4. ASSUME NEW q \in Requests PROVE Raised(q)'
    <3>1. CASE q = r
      BY <2>1, <3>1 DEF Raised, Exists
    <3>2. CASE q # r
      <4>1. (Exists(q)' <=> Exists(q)) /\ pr'[q].exp = pr[q].exp
        BY <2>1, <3>2 DEF Exists
      <4>2. Exists(q) => pr[q].exp # pr[r].exp /\ pr[q].exp \in Expenses
        BY <1>2, <3>2 DEF LinkedTo, RaisedInv, Raised
      <4>3. QED
        BY <2>3, <4>1, <4>2, RaisedKept DEF RaisedInv
    <3>3. QED
      BY <3>1, <3>2
  <2>5. QED
    BY <2>1, <2>3, <2>4
<1>3. QED
  BY <1>1, <1>2 DEF ExpenseAfterDelete

(* insertPaymentRequest: the expense is made, or was eligible to be linked. *)
LEMMA InsertRaised ==
    ASSUME RaisedInv, NEW r \in Requests, NEW u \in Users, NEW e \in Expenses,
           NEW amt \in Amounts, NEW m \in Months, Insert(r, u, e, amt, m)
    PROVE  RowsOK' /\ ExpensesOK' /\ \A q \in Requests : Raised(q)'
<1> DEFINE row == [st |-> "Pending", amount |-> amt, paid |-> 0, exp |-> e,
                   month |-> m, requester |-> u, approver |-> NoUser]
<1>1. pr' = [pr EXCEPT ![r] = row] /\ amt # NoExpense
  BY NumbersAssumption DEF Insert, NoExpense
<1>2. row \in Row({0})
  BY NumbersAssumption DEF Row, Statuses
<1>3. /\ RowsOK' /\ pr'[r] = row
      /\ \A q \in Requests : q # r => pr'[q] = pr[q]
  <2>1. PICK new : new = row
    OBVIOUS
  <2>2. RowsOK /\ new \in Row({0}) /\ pr' = [pr EXCEPT ![r] = new]
    BY <1>1, <1>2, <2>1 DEF RaisedInv
  <2>3. RowsOK' /\ pr'[r] = new /\ \A q \in Requests : q # r => pr'[q] = pr[q]
    BY <2>2, RowChange
  <2>4. QED
    BY <2>1, <2>3
<1>4. /\ ExpensesOK' /\ expense'[e] # NoExpense
      /\ \A f \in Expenses : expense'[f] # NoExpense \/ expense'[f] = expense[f]
  <2>1. CASE e = r
    <3>1. expense' = [expense EXCEPT ![e] = amt] /\ ExpensesOK
      BY <2>1 DEF Insert, RaisedInv
    <3>2. /\ ExpensesOK' /\ expense'[e] = amt
          /\ \A f \in Expenses : f # e => expense'[f] = expense[f]
      BY <3>1, ExpenseChange
    <3>3. QED
      BY <1>1, <3>2
  <2>2. CASE e # r
    <3>1. expense' = expense /\ expense[e] # NoExpense
      BY <2>2 DEF Insert, Linkable
    <3>2. QED
      BY <3>1 DEF RaisedInv, ExpensesOK
  <2>3. QED
    BY <2>1, <2>2
<1>5. Raised(r)'
  BY <1>3, <1>4 DEF Raised
<1>6. ASSUME NEW q \in Requests, q # r PROVE Raised(q)'
  <2>1. (Exists(q)' <=> Exists(q)) /\ pr'[q].exp = pr[q].exp
    BY <1>3, <1>6 DEF Exists
  <2>2. Exists(q) => pr[q].exp \in Expenses
    BY DEF RaisedInv, Raised
  <2>3. QED
    BY <1>4, <2>1, <2>2, RaisedKept DEF RaisedInv
<1>7. QED
  BY <1>3, <1>4, <1>5, <1>6

(* Every step leaves each request its expense. *)
LEMMA RaisedStep ==
    ASSUME RaisedInv, [Next]_vars
    PROVE  RaisedInv'
<1> DEFINE Goal == RowsOK' /\ ExpensesOK' /\ \A q \in Requests : Raised(q)'
<1>1. SUFFICES Goal
  BY DEF RaisedInv
<1>2. \A r \in Requests : Exists(r) => pr[r].exp \in Expenses
  BY DEF RaisedInv, Raised
<1>3. CASE pr' = pr /\ expense' = expense
  BY <1>3 DEF RaisedInv, RowsOK, ExpensesOK, Raised, Exists
<1>4. CASE UNCHANGED vars \/ \E m \in Months : Lock(m) \/ Unlock(m)
  BY <1>3, <1>4 DEF vars, Lock, Unlock
<1>5. CASE \E r \in Requests, u \in Users, e \in Expenses, amt \in Amounts, m \in Months :
              Insert(r, u, e, amt, m)
  BY <1>5, InsertRaised
<1>6. ASSUME NEW r \in Requests, NEW amt \in Amounts, NEW m \in Months, Update(r, amt, m)
      PROVE  Goal
  <2> DEFINE row == [pr[r] EXCEPT !.st = "Pending", !.amount = amt, !.month = m,
                                  !.approver = NoUser]
  <2>1. PICK P : pr[r] \in Row(P)
    BY RowFacts DEF RaisedInv
  <2>2. row \in Row(P) /\ row.exp = pr[r].exp
    BY <2>1, NumbersAssumption DEF Row, Statuses
  <2>3. pr' = [pr EXCEPT ![r] = row] /\ Exists(r)
    BY <1>6 DEF Update, Exists
  <2>4. \/ expense' = expense
        \/ \E x \in Nat : expense' = [expense EXCEPT ![pr[r].exp] = x]
    BY <1>6, NumbersAssumption DEF Update
  <2> HIDE DEF row
  <2>5. QED
    BY <2>2, <2>3, <2>4, ExpenseStays
<1>7. ASSUME NEW r \in Requests, NEW u \in Users, NEW st \in {"Approved", "Rejected"},
             NEW m \in Months, Decide(r, u, st, m)
      PROVE  Goal
  <2> DEFINE row == [pr[r] EXCEPT !.st = st, !.approver = u]
  <2>1. PICK P : pr[r] \in Row(P)
    BY RowFacts DEF RaisedInv
  <2>2. row \in Row(P) /\ row.exp = pr[r].exp
    BY <2>1 DEF Row, Statuses
  <2>3. pr' = [pr EXCEPT ![r] = row] /\ Exists(r) /\ expense' = expense
    BY <1>7 DEF Decide, Exists
  <2> HIDE DEF row
  <2>4. QED
    BY <2>2, <2>3, ExpenseStays
<1>8. ASSUME NEW r \in Requests, NEW m \in Months, CancelBeforePay(r, m)
      PROVE  Goal
  <2> DEFINE row == [pr[r] EXCEPT !.st = "Cancelled"]
  <2>1. PICK P : pr[r] \in Row(P)
    BY RowFacts DEF RaisedInv
  <2>2. row \in Row(P) /\ row.exp = pr[r].exp
    BY <2>1 DEF Row, Statuses
  <2>3. pr' = [pr EXCEPT ![r] = row] /\ Exists(r) /\ expense' = expense
    BY <1>8 DEF CancelBeforePay, Exists
  <2> HIDE DEF row
  <2>4. QED
    BY <2>2, <2>3, ExpenseStays
<1>9. ASSUME NEW r \in Requests, NEW u \in Users, NEW lines \in PayLines, Pay(r, u, lines)
      PROVE  Goal
  <2> DEFINE paid == AlreadyPaid(r) + LinesTotal(lines)
             row == [pr[r] EXCEPT !.paid = paid]
  <2>1. PICK P : pr[r] \in Row(P)
    BY RowFacts DEF RaisedInv
  <2> HIDE DEF paid
  <2>2. row \in Row({paid}) /\ row.exp = pr[r].exp
    BY <2>1 DEF Row
  <2>3. pr' = [pr EXCEPT ![r] = row] /\ Exists(r) /\ expense' = expense
    BY <1>9 DEF Pay, Exists, paid
  <2> HIDE DEF row
  <2>4. QED
    BY <2>2, <2>3, ExpenseStays
<1>10. ASSUME NEW r \in Requests, NEW u \in Users, NEW m \in Months, Reverse(r, u, m)
       PROVE  Goal
  <2>1. PICK P : pr[r] \in Row(P)
    BY RowFacts DEF RaisedInv
  <2>2. Exists(r)
    BY <1>10 DEF Reverse
  <2>3. CASE ResetLoan(r)
    <3> DEFINE row == [pr[r] EXCEPT !.paid = 0]
    <3>1. row \in Row({0}) /\ row.exp = pr[r].exp
      BY <2>1 DEF Row
    <3>2. pr' = [pr EXCEPT ![r] = row] /\ expense' = expense
      BY <2>3 DEF ResetLoan
    <3> HIDE DEF row
    <3>3. QED
      BY <2>2, <3>1, <3>2, ExpenseStays
  <2>4. CASE CancelRequest(r)
    <3> DEFINE row == [pr[r] EXCEPT !.paid = 0, !.st = "Cancelled"]
    <3>1. row \in Row({0}) /\ row.exp = pr[r].exp
      BY <2>1 DEF Row, Statuses
    <3>2. pr' = [pr EXCEPT ![r] = row]
          /\ \E x \in Nat : expense' = [expense EXCEPT ![pr[r].exp] = x]
      BY <2>4 DEF CancelRequest
    <3> HIDE DEF row
    <3>3. QED
      BY <2>2, <3>1, <3>2, ExpenseStays
  <2>5. CASE DeleteRequest(r)
    BY <2>2, <2>5, ExpenseGoesLast DEF DeleteRequest
  <2>6. QED
    BY <1>10, <2>3, <2>4, <2>5 DEF Reverse
<1>11. ASSUME NEW r \in Requests, ClearReversed(r) PROVE Goal
  <2>1. Exists(r) /\ (DeleteRequest(r) \/ (pr' = pr /\ expense' = expense))
    BY <1>11 DEF ClearReversed
  <2>2. QED
    BY <1>3, <2>1, ExpenseGoesLast DEF DeleteRequest
<1>12. ASSUME NEW r \in Requests, DeleteRolloutDup(r) PROVE Goal
  BY <1>12, ExpenseGoesLast DEF DeleteRolloutDup
<1>13. QED
  BY <1>4, <1>5, <1>6, <1>7, <1>8, <1>9, <1>10, <1>11, <1>12 DEF Next

(* A request on file always has the expense it was raised on: deleting or
   cleaning up one of several requests of an expense leaves it to the others
   (deleteExpenseAndRequestTx). *)
THEOREM ExpensesOutliveRequests == Spec => []LinkedExpenseExists
<1>1. Init => RaisedInv
  <2>1. ASSUME Init PROVE RowsOK
    <3>1. NewRequest \in Row({0})
      BY DEF NewRequest, Row, Statuses
    <3>2. QED
      BY <2>1, <3>1 DEF Init, RowsOK
  <2>2. ASSUME Init PROVE ExpensesOK
    <3>1. expense \in [Expenses -> {Max(Amounts), NoExpense}]
      BY <2>2 DEF Init
    <3>2. QED
      BY <3>1 DEF ExpensesOK
  <2>3. ASSUME Init, NEW r \in Requests PROVE Raised(r)
    BY <2>3 DEF Init, Raised, Exists, NewRequest
  <2>4. QED
    BY <2>1, <2>2, <2>3 DEF RaisedInv
<1>2. RaisedInv /\ [Next]_vars => RaisedInv'
  BY RaisedStep
<1>3. RaisedInv => LinkedExpenseExists
  BY DEF RaisedInv, Raised, LinkedExpenseExists
<1>4. QED
  BY <1>1, <1>2, <1>3, PTL DEF Spec
=============================================================================
