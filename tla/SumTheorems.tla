----------------------------- MODULE SumTheorems -----------------------------
(***************************************************************************)
(* Facts about SumFunctionOnSet, the sum of the values of a function over a *)
(* finite set, in which the balances, totals and stock figures of the       *)
(* models are written.                                                      *)
(*                                                                          *)
(* A sum is a fold, that is a recursive function on the subsets of the set, *)
(* so each fact is an induction on finite sets.  It is made with sets only: *)
(* among the subsets for which a fact would fail there is a smallest one    *)
(* (SmallestSet), and taking an element out of it gives a contradiction.    *)
(***************************************************************************)
EXTENDS Integers, FiniteSets, Totals, FiniteSetTheorems, WellFoundedInduction, TLAPS

(* The element the fold takes out of s first. *)
First(s) == CHOOSE x \in s : TRUE

(* g is the fold's recursive function for the sum of f over the subsets of S. *)
IsIter(g, f, S) ==
    g = [s \in SUBSET S |-> IF s = {} THEN 0 ELSE f[First(s)] + g[s \ {First(s)}]]
Iter(f, S) == CHOOSE g : IsIter(g, f, S)

-----------------------------------------------------------------------------
(* The fold is well defined.                                                 *)

(* The library sum is the value of such a function. *)
LEMMA SumIsIter ==
    ASSUME NEW f, NEW S
    PROVE  SumFunctionOnSet(f, S) = Iter(f, S)[S]
  BY DEF SumFunctionOnSet, FoldFunctionOnSet, MapThenFoldSet, Iter, IsIter, First

(* The element taken out is one of the set. *)
LEMMA FirstIn ==
    ASSUME NEW s, s # {}
    PROVE  First(s) \in s
  BY DEF First

(* A set of finite sets that is not empty has a member none of whose proper
   subsets belongs to it. *)
LEMMA SmallestSet ==
    ASSUME NEW S, IsFiniteSet(S), NEW B \in SUBSET SUBSET S, B # {}
    PROVE  \E s \in B : \A t \in SUBSET s : t \in B => t = s
<1> DEFINE R == StrictSubsetOrdering(S)
<1>1. IsWellFoundedOn(R, SUBSET S)
  BY FS_StrictSubsetOrderingWellFounded, FS_FiniteSubsetsOfFinite
<1> HIDE DEF R
<1>2. PICK s \in B : \A t \in B : ~(<<t, s>> \in R)
  BY <1>1, WFMin
<1>3. ASSUME NEW t \in B, t \subseteq s, t # s PROVE FALSE
  <2>1. <<t, s>> \in R
    BY <1>3 DEF R, StrictSubsetOrdering
  <2>2. QED
    BY <1>2, <2>1
<1>4. QED
  BY <1>2, <1>3

(* The recursive function unfolds once. *)
LEMMA IterStep ==
    ASSUME NEW f, NEW S, NEW g, IsIter(g, f, S), NEW s \in SUBSET S
    PROVE  g[s] = IF s = {} THEN 0 ELSE f[First(s)] + g[s \ {First(s)}]
  BY DEF IsIter

(* Two such functions agree where both are defined. *)
LEMMA IterAgree ==
    ASSUME NEW f, NEW S, IsFiniteSet(S), NEW T,
           NEW g, NEW h, IsIter(g, f, S), IsIter(h, f, T),
           NEW u \in SUBSET S, u \in SUBSET T
    PROVE  g[u] = h[u]
<1> DEFINE B == {s \in SUBSET S : s \in SUBSET T /\ g[s] # h[s]}
<1>1. SUFFICES ASSUME B # {} PROVE FALSE
  OBVIOUS
<1>2. PICK s \in B : \A t \in SUBSET s : t \in B => t = s
  <2>1. B \in SUBSET SUBSET S
    OBVIOUS
  <2> HIDE DEF B
  <2>2. QED
    BY <1>1, <2>1, SmallestSet
<1>3. CASE s = {}
  BY <1>2, <1>3 DEF IsIter
<1>4. CASE s # {}
  <2>1. PICK t : t = s \ {First(s)}
    OBVIOUS
  <2>2. t \in SUBSET s /\ t # s
    BY <2>1, <1>4, FirstIn
  <2>3. g[t] = h[t]
    BY <1>2, <2>2
  <2>4. g[s] = f[First(s)] + g[t]
    BY <1>4, <2>1, IterStep
  <2>5. h[s] = f[First(s)] + h[t]
    BY <1>4, <1>2, <2>1, IterStep
  <2>6. QED
    BY <1>2, <2>3, <2>4, <2>5
<1>5. QED
  BY <1>3, <1>4

(* There is such a function for every finite set: it is put together from
   those of the proper subsets. *)
LEMMA IterExists ==
    ASSUME NEW f, NEW S, IsFiniteSet(S)
    PROVE  IsIter(Iter(f, S), f, S)
<1> DEFINE B == {s \in SUBSET S : ~IsIter(Iter(f, s), f, s)}
<1>1. SUFFICES B = {}
  BY DEF Iter
<1>2. SUFFICES ASSUME B # {} PROVE FALSE
  OBVIOUS
<1>3. PICK s \in B : \A t \in SUBSET s : t \in B => t = s
  <2>1. B \in SUBSET SUBSET S
    OBVIOUS
  <2> HIDE DEF B
  <2>2. QED
    BY <1>2, <2>1, SmallestSet
<1>4. \A t \in SUBSET s : t # s => IsIter(Iter(f, t), f, t) /\ IsFiniteSet(t)
  BY <1>3, FS_Subset
<1> DEFINE val(t) == IF t = {} THEN 0 ELSE f[First(t)] + Iter(f, t \ {First(t)})[t \ {First(t)}]
           g == [t \in SUBSET s |-> val(t)]
<1>5. ASSUME NEW t \in SUBSET s, t # {}
      PROVE  g[t] = f[First(t)] + g[t \ {First(t)}]
  <2>1. PICK u : u = t \ {First(t)}
    OBVIOUS
  <2>2. u \in SUBSET s /\ u # s /\ u \in SUBSET u
    BY <2>1, <1>5, FirstIn
  <2>3. g[t] = f[First(t)] + Iter(f, u)[u]
    BY <2>1, <1>5
  <2>4. g[u] = Iter(f, u)[u]
    <3>1. CASE u = {}
      BY <3>1, <2>2, <1>4 DEF IsIter
    <3>2. CASE u # {}
      <4>1. PICK w : w = u \ {First(u)}
        OBVIOUS
      <4>2. w \in SUBSET u /\ w \in SUBSET s /\ w # s /\ w \in SUBSET w
        BY <4>1, <2>2, <3>2, FirstIn
      <4>3. Iter(f, u)[u] = f[First(u)] + Iter(f, u)[w]
        BY <2>2, <1>4, <4>1, <3>2 DEF IsIter
      <4>4. Iter(f, u)[w] = Iter(f, w)[w]
        BY <1>4, <2>2, <4>2, IterAgree
      <4>5. g[u] = f[First(u)] + Iter(f, w)[w]
        BY <2>2, <3>2, <4>1
      <4>6. QED
        BY <4>3, <4>4, <4>5
    <3>3. QED
      BY <3>1, <3>2
  <2>5. QED
    BY <2>1, <2>3, <2>4
<1>6. g[{}] = 0
  OBVIOUS
<1>7. IsIter(g, f, s)
  <2>1. g = [t \in SUBSET s |-> g[t]]
    OBVIOUS
  <2>2. \A t \in SUBSET s : g[t] = IF t = {} THEN 0 ELSE f[First(t)] + g[t \ {First(t)}]
    BY <1>5, <1>6
  <2> HIDE DEF g
  <2>3. QED
    BY <2>1, <2>2 DEF IsIter
<1> HIDE DEF g
<1>8. IsIter(Iter(f, s), f, s)
  BY <1>7 DEF Iter
<1>9. QED
  BY <1>3, <1>8

-----------------------------------------------------------------------------

(* The laws of sums.                                                         *)

(* The sum over nothing is zero. *)
LEMMA SumEmpty ==
    ASSUME NEW f
    PROVE  SumFunctionOnSet(f, {}) = 0
  BY FS_EmptySet, SumIsIter, IterExists, IterStep

(* The fold takes its first element out. *)
LEMMA SumFirst ==
    ASSUME NEW f, NEW S, IsFiniteSet(S), S # {}
    PROVE  SumFunctionOnSet(f, S) = f[First(S)] + SumFunctionOnSet(f, S \ {First(S)})
<1>1. PICK T : T = S \ {First(S)}
  OBVIOUS
<1>2. T \in SUBSET S /\ T \in SUBSET T /\ S \in SUBSET S /\ IsFiniteSet(T)
  BY <1>1, FS_Subset
<1>3. Iter(f, S)[S] = f[First(S)] + Iter(f, S)[T]
  <2>1. PICK g : g = Iter(f, S) /\ IsIter(g, f, S)
    BY IterExists
  <2>2. g[S] = f[First(S)] + g[T]
    BY <1>1, <1>2, <2>1, IterStep
  <2>3. QED
    BY <2>1, <2>2
<1>4. Iter(f, S)[T] = Iter(f, T)[T]
  BY <1>2, IterExists, IterAgree
<1>5. QED
  BY <1>1, <1>3, <1>4, SumIsIter

(* A sum of integers is an integer. *)
LEMMA SumInt ==
    ASSUME NEW f, NEW S, IsFiniteSet(S), \A x \in S : f[x] \in Int
    PROVE  SumFunctionOnSet(f, S) \in Int
<1> DEFINE B == {s \in SUBSET S : SumFunctionOnSet(f, s) \notin Int}
<1>1. SUFFICES ASSUME B # {} PROVE FALSE
  OBVIOUS
<1>2. PICK s \in B : \A t \in SUBSET s : t \in B => t = s
  <2>1. B \in SUBSET SUBSET S
    OBVIOUS
  <2> HIDE DEF B
  <2>2. QED
    BY <1>1, <2>1, SmallestSet
<1>3. s # {}
  <2>1. SumFunctionOnSet(f, {}) \in Int
    BY SumEmpty
  <2>2. SumFunctionOnSet(f, s) \notin Int
    BY <1>2
  <2>3. QED
    BY <2>1, <2>2
<1>4. First(s) \in s
  BY <1>3, FirstIn
<1>5. SumFunctionOnSet(f, s \ {First(s)}) \in Int
  BY <1>2, <1>4
<1>6. SumFunctionOnSet(f, s) = f[First(s)] + SumFunctionOnSet(f, s \ {First(s)})
  BY <1>2, <1>3, SumFirst, FS_Subset
<1>7. QED
  BY <1>2, <1>4, <1>5, <1>6

(* Any element may be taken out of the sum. *)
LEMMA SumRemove ==
    ASSUME NEW f, NEW S, IsFiniteSet(S), \A y \in S : f[y] \in Int, NEW x \in S
    PROVE  SumFunctionOnSet(f, S) = f[x] + SumFunctionOnSet(f, S \ {x})
<1> DEFINE B == {s \in SUBSET S : \E y \in s :
                    SumFunctionOnSet(f, s) # f[y] + SumFunctionOnSet(f, s \ {y})}
<1>1. SUFFICES ASSUME B # {} PROVE FALSE
  OBVIOUS
<1>2. PICK s \in B : \A t \in SUBSET s : t \in B => t = s
  <2>1. B \in SUBSET SUBSET S
    OBVIOUS
  <2> HIDE DEF B
  <2>2. QED
    BY <1>1, <2>1, SmallestSet
<1> DEFINE Taken(t) == \A y \in t : SumFunctionOnSet(f, t) = f[y] + SumFunctionOnSet(f, t \ {y})
<1>2a. \A t \in SUBSET s : t # s => Taken(t)
  BY <1>2
<1> HIDE DEF Taken
<1>3. PICK y \in s : SumFunctionOnSet(f, s) # f[y] + SumFunctionOnSet(f, s \ {y})
  BY <1>2
<1>4. PICK c : c = First(s)
  OBVIOUS
<1>5. c \in s /\ IsFiniteSet(s) /\ SumFunctionOnSet(f, s) = f[c] + SumFunctionOnSet(f, s \ {c})
  BY <1>2, <1>3, <1>4, FirstIn, SumFirst, FS_Subset
<1>6. y # c
  BY <1>3, <1>5
<1>7. SumFunctionOnSet(f, s \ {c}) = f[y] + SumFunctionOnSet(f, (s \ {c}) \ {y})
  <2>1. y \in s \ {c} /\ s \ {c} \in SUBSET s /\ s \ {c} # s
    BY <1>3, <1>5, <1>6
  <2>2. QED
    BY <2>1, <1>2a DEF Taken
<1>8. SumFunctionOnSet(f, s \ {y}) = f[c] + SumFunctionOnSet(f, (s \ {y}) \ {c})
  <2>1. c \in s \ {y} /\ s \ {y} \in SUBSET s /\ s \ {y} # s
    BY <1>3, <1>5, <1>6
  <2>2. QED
    BY <2>1, <1>2a DEF Taken
<1>9. (s \ {c}) \ {y} = (s \ {y}) \ {c}
  OBVIOUS
<1>10. f[c] \in Int /\ f[y] \in Int /\ SumFunctionOnSet(f, (s \ {c}) \ {y}) \in Int
  <2>1. IsFiniteSet((s \ {c}) \ {y}) /\ (s \ {c}) \ {y} \subseteq S
    BY <1>2, <1>5, FS_Subset
  <2>2. QED
    BY <1>2, <1>3, <1>5, <2>1, SumInt
<1>11. QED
  BY <1>3, <1>5, <1>7, <1>8, <1>9, <1>10

(* A new element adds its value. *)
LEMMA SumAdd ==
    ASSUME NEW f, NEW S, IsFiniteSet(S), \A y \in S : f[y] \in Int,
           NEW x, x \notin S, f[x] \in Int
    PROVE  SumFunctionOnSet(f, S \cup {x}) = f[x] + SumFunctionOnSet(f, S)
<1>1. PICK T : T = S \cup {x}
  OBVIOUS
<1>2. IsFiniteSet(T) /\ x \in T /\ T \ {x} = S /\ \A y \in T : f[y] \in Int
  BY <1>1, FS_AddElement
<1>3. QED
  BY <1>1, <1>2, SumRemove

(* Functions with equal values have equal sums. *)
LEMMA SumEqual ==
    ASSUME NEW f, NEW g, NEW S, IsFiniteSet(S), \A x \in S : f[x] = g[x]
    PROVE  SumFunctionOnSet(f, S) = SumFunctionOnSet(g, S)
<1> DEFINE B == {s \in SUBSET S : SumFunctionOnSet(f, s) # SumFunctionOnSet(g, s)}
<1>1. SUFFICES ASSUME B # {} PROVE FALSE
  OBVIOUS
<1>2. PICK s \in B : \A t \in SUBSET s : t \in B => t = s
  <2>1. B \in SUBSET SUBSET S
    OBVIOUS
  <2> HIDE DEF B
  <2>2. QED
    BY <1>1, <2>1, SmallestSet
<1>3. s # {} /\ IsFiniteSet(s)
  BY <1>2, SumEmpty, FS_Subset
<1>4. PICK c : c = First(s) /\ c \in s
  BY <1>3, FirstIn
<1>5. SumFunctionOnSet(f, s \ {c}) = SumFunctionOnSet(g, s \ {c})
  BY <1>2, <1>4
<1>6. /\ SumFunctionOnSet(f, s) = f[c] + SumFunctionOnSet(f, s \ {c})
      /\ SumFunctionOnSet(g, s) = g[c] + SumFunctionOnSet(g, s \ {c})
  BY <1>3, <1>4, SumFirst
<1>7. f[c] = g[c]
  BY <1>2, <1>4
<1>8. QED
  BY <1>2, <1>5, <1>6, <1>7

(* The sum over two disjoint sets is the sum of the sums. *)
LEMMA SumUnion ==
    ASSUME NEW f, NEW S, NEW T, IsFiniteSet(S), IsFiniteSet(T), S \cap T = {},
           \A x \in S \cup T : f[x] \in Int
    PROVE  SumFunctionOnSet(f, S \cup T) = SumFunctionOnSet(f, S) + SumFunctionOnSet(f, T)
<1> DEFINE B == {s \in SUBSET T : SumFunctionOnSet(f, S \cup s)
                                  # SumFunctionOnSet(f, S) + SumFunctionOnSet(f, s)}
<1>1. SUFFICES ASSUME B # {} PROVE FALSE
  OBVIOUS
<1>2. PICK s \in B : \A t \in SUBSET s : t \in B => t = s
  <2>1. B \in SUBSET SUBSET T
    OBVIOUS
  <2> HIDE DEF B
  <2>2. QED
    BY <1>1, <2>1, SmallestSet
<1>3. SumFunctionOnSet(f, S) \in Int /\ IsFiniteSet(s) /\ \A t \in SUBSET s : IsFiniteSet(t)
  BY <1>2, SumInt, FS_Subset
<1>4. s # {}
  <2>1. ASSUME s = {} PROVE FALSE
    <3>1. S \cup s = S
      BY <2>1
    <3>2. QED
      BY <1>2, <1>3, <2>1, <3>1, SumEmpty
  <2>2. QED
    BY <2>1
<1>5. PICK c : c \in s
  BY <1>4
<1>6. PICK t : t = s \ {c}
  OBVIOUS
<1>7. t \in SUBSET s /\ t # s /\ t \in SUBSET T
  BY <1>2, <1>5, <1>6
<1>8. SumFunctionOnSet(f, S \cup t) = SumFunctionOnSet(f, S) + SumFunctionOnSet(f, t)
  BY <1>2, <1>7
<1>9. SumFunctionOnSet(f, s) = f[c] + SumFunctionOnSet(f, t)
  BY <1>2, <1>3, <1>5, <1>6, SumRemove
<1>10. SumFunctionOnSet(f, S \cup s) = f[c] + SumFunctionOnSet(f, S \cup t)
  <2>1. IsFiniteSet(S \cup s)
    BY <1>3, FS_Union
  <2>2. c \in S \cup s /\ (S \cup s) \ {c} = S \cup t
    BY <1>2, <1>5, <1>6
  <2>3. \A x \in S \cup s : f[x] \in Int
    BY <1>2
  <2>4. QED
    BY <2>1, <2>2, <2>3, SumRemove
<1>11. f[c] \in Int /\ SumFunctionOnSet(f, t) \in Int
  BY <1>2, <1>3, <1>5, <1>7, SumInt
<1>12. QED
  BY <1>2, <1>3, <1>8, <1>9, <1>10, <1>11

(* Leaving out a part takes its sum away. *)
LEMMA SumWithout ==
    ASSUME NEW f, NEW S, NEW T, IsFiniteSet(S), T \subseteq S, \A x \in S : f[x] \in Int
    PROVE  SumFunctionOnSet(f, S \ T) = SumFunctionOnSet(f, S) - SumFunctionOnSet(f, T)
<1>1. PICK U : U = S \ T
  OBVIOUS
<1>2. IsFiniteSet(T) /\ IsFiniteSet(U) /\ U \cap T = {} /\ U \cup T = S
  BY <1>1, FS_Subset
<1>3. SumFunctionOnSet(f, S) = SumFunctionOnSet(f, U) + SumFunctionOnSet(f, T)
  BY <1>2, SumUnion
<1>4. SumFunctionOnSet(f, U) \in Int /\ SumFunctionOnSet(f, T) \in Int
  BY <1>1, <1>2, SumInt
<1>5. QED
  BY <1>1, <1>3, <1>4

(* A function that changes at one point changes its sum by the difference. *)
LEMMA SumChange ==
    ASSUME NEW f, NEW g, NEW S, IsFiniteSet(S), NEW x \in S,
           \A y \in S : f[y] \in Int /\ g[y] \in Int, \A y \in S \ {x} : f[y] = g[y]
    PROVE  SumFunctionOnSet(g, S) = SumFunctionOnSet(f, S) - f[x] + g[x]
<1>1. PICK T : T = S \ {x}
  OBVIOUS
<1>2. /\ SumFunctionOnSet(g, S) = g[x] + SumFunctionOnSet(g, T)
      /\ SumFunctionOnSet(f, S) = f[x] + SumFunctionOnSet(f, T)
  BY <1>1, SumRemove
<1>3. SumFunctionOnSet(f, T) = SumFunctionOnSet(g, T) /\ SumFunctionOnSet(f, T) \in Int
  BY <1>1, FS_Subset, SumEqual, SumInt
<1>4. QED
  BY <1>2, <1>3

(* The sum of a sum of functions is the sum of their sums. *)
LEMMA SumPlus ==
    ASSUME NEW f, NEW g, NEW h, NEW S, IsFiniteSet(S),
           \A x \in S : f[x] \in Int /\ g[x] \in Int /\ h[x] = f[x] + g[x]
    PROVE  SumFunctionOnSet(h, S) = SumFunctionOnSet(f, S) + SumFunctionOnSet(g, S)
<1> DEFINE B == {s \in SUBSET S : SumFunctionOnSet(h, s)
                                  # SumFunctionOnSet(f, s) + SumFunctionOnSet(g, s)}
<1>1. SUFFICES ASSUME B # {} PROVE FALSE
  OBVIOUS
<1>2. PICK s \in B : \A t \in SUBSET s : t \in B => t = s
  <2>1. B \in SUBSET SUBSET S
    OBVIOUS
  <2> HIDE DEF B
  <2>2. QED
    BY <1>1, <2>1, SmallestSet
<1>3. s # {}
  <2>1. SumFunctionOnSet(h, {}) = SumFunctionOnSet(f, {}) + SumFunctionOnSet(g, {})
    BY SumEmpty
  <2>2. QED
    BY <1>2, <2>1
<1>4. PICK c, t : c \in s /\ t = s \ {c}
  BY <1>3
<1>5. /\ IsFiniteSet(s) /\ IsFiniteSet(t) /\ t \in SUBSET s /\ t # s
      /\ t \in SUBSET S /\ s \in SUBSET S
  BY <1>2, <1>4, FS_Subset
<1>6. /\ SumFunctionOnSet(f, s) = f[c] + SumFunctionOnSet(f, t)
      /\ SumFunctionOnSet(g, s) = g[c] + SumFunctionOnSet(g, t)
      /\ SumFunctionOnSet(h, s) = h[c] + SumFunctionOnSet(h, t)
  BY <1>4, <1>5, SumRemove
<1>7. SumFunctionOnSet(h, t) = SumFunctionOnSet(f, t) + SumFunctionOnSet(g, t)
  BY <1>2, <1>5
<1>8. SumFunctionOnSet(f, t) \in Int /\ SumFunctionOnSet(g, t) \in Int
  BY <1>5, SumInt
<1>9. c \in S /\ f[c] \in Int /\ g[c] \in Int /\ h[c] = f[c] + g[c]
  BY <1>4, <1>5
<1>10. QED
  BY <1>2, <1>6, <1>7, <1>8, <1>9

(* Smaller values have the smaller sum. *)
LEMMA SumBound ==
    ASSUME NEW f, NEW g, NEW S, IsFiniteSet(S),
           \A x \in S : f[x] \in Int /\ g[x] \in Int /\ f[x] <= g[x]
    PROVE  SumFunctionOnSet(f, S) <= SumFunctionOnSet(g, S)
<1> DEFINE B == {s \in SUBSET S : ~(SumFunctionOnSet(f, s) <= SumFunctionOnSet(g, s))}
<1>1. SUFFICES ASSUME B # {} PROVE FALSE
  OBVIOUS
<1>2. PICK s \in B : \A t \in SUBSET s : t \in B => t = s
  <2>1. B \in SUBSET SUBSET S
    OBVIOUS
  <2> HIDE DEF B
  <2>2. QED
    BY <1>1, <2>1, SmallestSet
<1>3. s # {}
  <2>1. SumFunctionOnSet(f, {}) <= SumFunctionOnSet(g, {})
    BY SumEmpty
  <2>2. QED
    BY <1>2, <2>1
<1>4. PICK c, t : c \in s /\ t = s \ {c}
  BY <1>3
<1>5. /\ IsFiniteSet(s) /\ IsFiniteSet(t) /\ t \in SUBSET s /\ t # s
      /\ t \in SUBSET S /\ s \in SUBSET S
  BY <1>2, <1>4, FS_Subset
<1>6. /\ SumFunctionOnSet(f, s) = f[c] + SumFunctionOnSet(f, t)
      /\ SumFunctionOnSet(g, s) = g[c] + SumFunctionOnSet(g, t)
  BY <1>4, <1>5, SumRemove
<1>7. SumFunctionOnSet(f, t) <= SumFunctionOnSet(g, t)
  BY <1>2, <1>5
<1>8. SumFunctionOnSet(f, t) \in Int /\ SumFunctionOnSet(g, t) \in Int
  BY <1>5, SumInt
<1>9. c \in S /\ f[c] \in Int /\ g[c] \in Int /\ f[c] <= g[c]
  BY <1>4, <1>5
<1>10. QED
  BY <1>2, <1>6, <1>7, <1>8, <1>9

(* A sum of zeros is zero. *)
LEMMA SumZero ==
    ASSUME NEW f, NEW S, IsFiniteSet(S), \A x \in S : f[x] = 0
    PROVE  SumFunctionOnSet(f, S) = 0
<1>1. PICK n : n = SumFunctionOnSet(f, S)
  OBVIOUS
<1>2. \A x \in S : f[x] \in Int /\ f[x] = f[x] + f[x]
  OBVIOUS
<1>3. n = n + n
  BY <1>1, <1>2, SumPlus
<1>4. n \in Int
  BY <1>1, <1>2, SumInt
<1>5. n = 0
  BY <1>3, <1>4
<1>6. QED
  BY <1>1, <1>5

(* The sum of the opposite values is the opposite of the sum. *)
LEMMA SumNegated ==
    ASSUME NEW f, NEW g, NEW S, IsFiniteSet(S), \A x \in S : f[x] \in Int /\ g[x] = -f[x]
    PROVE  SumFunctionOnSet(g, S) = -SumFunctionOnSet(f, S)
<1>1. PICK z : z = [x \in S |-> 0]
  OBVIOUS
<1>2. SumFunctionOnSet(z, S) = SumFunctionOnSet(f, S) + SumFunctionOnSet(g, S)
  BY <1>1, SumPlus
<1>3. SumFunctionOnSet(z, S) = 0
  BY <1>1, SumZero
<1>4. SumFunctionOnSet(f, S) \in Int /\ SumFunctionOnSet(g, S) \in Int
  BY SumInt
<1>5. QED
  BY <1>2, <1>3, <1>4

(* A sum of natural numbers is a natural number. *)
LEMMA SumNat ==
    ASSUME NEW f, NEW S, IsFiniteSet(S), \A x \in S : f[x] \in Nat
    PROVE  SumFunctionOnSet(f, S) \in Nat
<1>1. PICK z : z = [x \in S |-> 0]
  OBVIOUS
<1>2. SumFunctionOnSet(z, S) <= SumFunctionOnSet(f, S)
  BY <1>1, SumBound
<1>3. SumFunctionOnSet(z, S) = 0 /\ SumFunctionOnSet(f, S) \in Int
  BY <1>1, SumZero, SumInt
<1>4. QED
  BY <1>2, <1>3

(* A part of a sum of natural numbers is at most the whole. *)
LEMMA SumPart ==
    ASSUME NEW f, NEW S, IsFiniteSet(S), \A x \in S : f[x] \in Nat, NEW T, T \subseteq S
    PROVE  SumFunctionOnSet(f, T) <= SumFunctionOnSet(f, S)
<1>1. SumFunctionOnSet(f, S \ T) = SumFunctionOnSet(f, S) - SumFunctionOnSet(f, T)
  BY SumWithout
<1>2. SumFunctionOnSet(f, S \ T) \in Nat /\ SumFunctionOnSet(f, T) \in Nat
      /\ SumFunctionOnSet(f, S) \in Nat
  BY FS_Subset, SumNat
<1>3. QED
  BY <1>1, <1>2

(* Elements of value zero may be left out. *)
LEMMA SumSupport ==
    ASSUME NEW f, NEW S, IsFiniteSet(S), \A x \in S : f[x] \in Int,
           NEW T, T \subseteq S, \A x \in S \ T : f[x] = 0
    PROVE  SumFunctionOnSet(f, T) = SumFunctionOnSet(f, S)
<1>1. SumFunctionOnSet(f, S \ T) = SumFunctionOnSet(f, S) - SumFunctionOnSet(f, T)
  BY SumWithout
<1>2. SumFunctionOnSet(f, S \ T) = 0 /\ SumFunctionOnSet(f, T) \in Int
      /\ SumFunctionOnSet(f, S) \in Int
  BY FS_Subset, SumInt, SumZero
<1>3. QED
  BY <1>1, <1>2

(* The image of a finite set is finite. *)
LEMMA FiniteImage ==
    ASSUME NEW b, NEW S, IsFiniteSet(S)
    PROVE  IsFiniteSet({b[x] : x \in S})
<1> DEFINE T == {b[x] : x \in S}
           g == [x \in S |-> b[x]]
<1>1. g \in Surjection(S, T)
  BY DEF Surjection
<1> HIDE DEF g, T
<1>2. IsFiniteSet(T)
  BY <1>1, FS_Surjection
<1>3. QED
  BY <1>2 DEF T

(* The sum does not depend on the names of the elements. *)
LEMMA SumRenamed ==
    ASSUME NEW f, NEW g, NEW b, NEW S, IsFiniteSet(S),
           \A x, y \in S : b[x] = b[y] => x = y,
           \A x \in S : f[x] \in Int /\ g[b[x]] = f[x]
    PROVE  SumFunctionOnSet(g, {b[x] : x \in S}) = SumFunctionOnSet(f, S)
<1> DEFINE Im(s) == {b[x] : x \in s}
           B == {s \in SUBSET S : SumFunctionOnSet(g, Im(s)) # SumFunctionOnSet(f, s)}
<1>1. SUFFICES ASSUME B # {} PROVE FALSE
  OBVIOUS
<1>2. PICK s \in B : \A t \in SUBSET s : t \in B => t = s
  <2>1. B \in SUBSET SUBSET S
    OBVIOUS
  <2> HIDE DEF B
  <2>2. QED
    BY <1>1, <2>1, SmallestSet
<1>3. s # {}
  <2>1. SumFunctionOnSet(g, {}) = SumFunctionOnSet(f, {}) /\ Im({}) = {}
    BY SumEmpty
  <2>2. QED
    BY <1>2, <2>1
<1>4. PICK c, t : c \in s /\ t = s \ {c}
  BY <1>3
<1>5. /\ IsFiniteSet(s) /\ IsFiniteSet(t) /\ t \in SUBSET s /\ t # s
      /\ t \in SUBSET S /\ s \in SUBSET S
  BY <1>2, <1>4, FS_Subset
<1>6. SumFunctionOnSet(f, s) = f[c] + SumFunctionOnSet(f, t)
  BY <1>4, <1>5, SumRemove
<1>7. SumFunctionOnSet(g, Im(t)) = SumFunctionOnSet(f, t)
  BY <1>2, <1>5
<1>8. Im(s) = Im(t) \cup {b[c]} /\ b[c] \notin Im(t)
  BY <1>4, <1>5
<1>9. IsFiniteSet(Im(t)) /\ \A y \in Im(t) : g[y] \in Int
  <2>1. IsFiniteSet(Im(t))
    BY <1>5, FiniteImage
  <2>2. QED
    BY <1>5, <2>1
<1>10. c \in S /\ g[b[c]] = f[c] /\ g[b[c]] \in Int
  BY <1>4, <1>5
<1>11. SumFunctionOnSet(g, Im(s)) = g[b[c]] + SumFunctionOnSet(g, Im(t))
  <2> HIDE DEF Im
  <2>1. QED
    BY <1>8, <1>9, <1>10, SumAdd
<1>12. QED
  BY <1>2, <1>6, <1>7, <1>10, <1>11

-----------------------------------------------------------------------------
(* Totals of rows.                                                           *)

(* Finitely many rows, each with an amount. *)
HasAmounts(S) == IsFiniteSet(S) /\ \A x \in S : x.amount \in Int

(* Parts of such a set have amounts too. *)
LEMMA PartHasAmounts ==
    ASSUME NEW S, HasAmounts(S), NEW T, T \subseteq S
    PROVE  HasAmounts(T)
  BY FS_Subset DEF HasAmounts

(* So has the union of two. *)
LEMMA UnionHasAmounts ==
    ASSUME NEW S, NEW T, HasAmounts(S), HasAmounts(T)
    PROVE  HasAmounts(S \cup T)
  BY FS_Union DEF HasAmounts

(* The totals of the parts of a set of rows are sums of one function. *)
LEMMA TotalAsSum ==
    ASSUME NEW S, HasAmounts(S), NEW T, T \subseteq S
    PROVE  Total(T) = SumFunctionOnSet([x \in S |-> x.amount], T)
<1> DEFINE f == [x \in S |-> x.amount]
           g == [x \in T |-> x.amount]
<1>1. \A x \in T : g[x] = f[x]
  OBVIOUS
<1>2. Total(T) = SumFunctionOnSet(g, T)
  BY DEF Total, SumFunction
<1>3. IsFiniteSet(T)
  BY FS_Subset DEF HasAmounts
<1> HIDE DEF f, g
<1>4. SumFunctionOnSet(g, T) = SumFunctionOnSet(f, T)
  BY <1>1, <1>3, SumEqual
<1>5. QED
  BY <1>2, <1>4 DEF f

(* The total of no rows is zero. *)
LEMMA TotalEmpty == Total({}) = 0
<1>1. Total({}) = SumFunctionOnSet([x \in {} |-> x.amount], {})
  BY DEF Total, SumFunction
<1>2. QED
  BY <1>1, SumEmpty

(* The total of amounts is a number. *)
LEMMA TotalInt ==
    ASSUME NEW S, HasAmounts(S)
    PROVE  Total(S) \in Int
<1> DEFINE f == [x \in S |-> x.amount]
<1>1. Total(S) = SumFunctionOnSet(f, S) /\ \A x \in S : f[x] \in Int
  BY TotalAsSum DEF HasAmounts
<1> HIDE DEF f
<1>2. QED
  BY <1>1, SumInt DEF HasAmounts

(* Rows that are joined add their totals. *)
LEMMA TotalUnion ==
    ASSUME NEW S, NEW T, HasAmounts(S), HasAmounts(T), S \cap T = {}
    PROVE  Total(S \cup T) = Total(S) + Total(T)
<1> DEFINE f == [x \in S \cup T |-> x.amount]
<1>1. HasAmounts(S \cup T)
  BY UnionHasAmounts
<1>2. /\ Total(S \cup T) = SumFunctionOnSet(f, S \cup T)
      /\ Total(S) = SumFunctionOnSet(f, S) /\ Total(T) = SumFunctionOnSet(f, T)
  <2>1. S \subseteq S \cup T /\ T \subseteq S \cup T /\ S \cup T \subseteq S \cup T
    OBVIOUS
  <2>2. QED
    BY <1>1, <2>1, TotalAsSum
<1>3. \A x \in S \cup T : f[x] \in Int
  BY DEF HasAmounts
<1> HIDE DEF f
<1>4. QED
  BY <1>2, <1>3, SumUnion DEF HasAmounts

(* Rows that leave take their total along. *)
LEMMA TotalWithout ==
    ASSUME NEW S, HasAmounts(S), NEW T, T \subseteq S
    PROVE  Total(S \ T) = Total(S) - Total(T)
<1>1. HasAmounts(T) /\ HasAmounts(S \ T) /\ (S \ T) \cap T = {} /\ (S \ T) \cup T = S
  BY PartHasAmounts
<1>2. Total(S) = Total(S \ T) + Total(T)
  BY <1>1, TotalUnion
<1>3. Total(S \ T) \in Int /\ Total(T) \in Int
  BY <1>1, TotalInt
<1>4. QED
  BY <1>2, <1>3

(* The total of one row is its amount. *)
LEMMA TotalOne ==
    ASSUME NEW x, x.amount \in Int
    PROVE  HasAmounts({x}) /\ Total({x}) = x.amount
<1> DEFINE f == [y \in {x} |-> y.amount]
<1>1. HasAmounts({x})
  BY FS_Singleton DEF HasAmounts
<1>2. Total({x}) = SumFunctionOnSet(f, {x}) /\ f[x] = x.amount /\ \A y \in {x} : f[y] \in Int
  BY <1>1, TotalAsSum
<1> HIDE DEF f
<1>3. SumFunctionOnSet(f, {x}) = f[x] + SumFunctionOnSet(f, {x} \ {x})
  BY <1>1, <1>2, SumRemove DEF HasAmounts
<1>4. {x} \ {x} = {}
  OBVIOUS
<1>5. QED
  BY <1>1, <1>2, <1>3, <1>4, SumEmpty

(* Outflows add up to an outflow. *)
LEMMA TotalNegative ==
    ASSUME NEW S, HasAmounts(S), S # {}, \A x \in S : x.amount < 0
    PROVE  Total(S) < 0
<1>1. PICK x : x \in S
  OBVIOUS
<1> DEFINE T == S \ {x}
           f == [y \in T |-> y.amount]
           z == [y \in T |-> 0]
<1>2. HasAmounts(T) /\ HasAmounts({x}) /\ T \cap {x} = {} /\ T \cup {x} = S
  BY <1>1, PartHasAmounts
<1>3. x.amount \in Int /\ x.amount < 0
  BY <1>1 DEF HasAmounts
<1>4. Total(S) = Total(T) + Total({x}) /\ Total({x}) = x.amount /\ Total(T) \in Int
  BY <1>2, <1>3, TotalUnion, TotalOne, TotalInt
<1>5. Total(T) = SumFunctionOnSet(f, T)
  BY <1>2, TotalAsSum
<1>5a. ASSUME NEW y \in T PROVE f[y] \in Int /\ z[y] \in Int /\ f[y] <= z[y] /\ z[y] = 0
  <2>1. y.amount \in Int /\ y.amount < 0
    BY <1>2 DEF HasAmounts
  <2>2. QED
    BY <2>1
<1> HIDE DEF f, z
<1>6. SumFunctionOnSet(f, T) <= SumFunctionOnSet(z, T) /\ SumFunctionOnSet(z, T) = 0
  BY <1>2, <1>5a, SumBound, SumZero DEF HasAmounts
<1>7. QED
  BY <1>3, <1>4, <1>5, <1>6

(* Rows copied one by one, with their amounts or with the opposite amounts. *)
LEMMA TotalCopied ==
    ASSUME NEW S, HasAmounts(S), NEW b, \A x, y \in S : b[x] = b[y] => x = y,
           NEW T, T = {b[x] : x \in S}
    PROVE  /\ (\A x \in S : b[x].amount = x.amount) => Total(T) = Total(S)
           /\ (\A x \in S : b[x].amount = -x.amount) => Total(T) = -Total(S)
<1> DEFINE f == [x \in S |-> x.amount]
           h == [x \in S |-> -x.amount]
           g == [x \in T |-> x.amount]
<1>1. \A x \in S : b[x] \in T
  OBVIOUS
<1>2. IsFiniteSet(S) /\ IsFiniteSet(T)
  BY FiniteImage DEF HasAmounts
<1>3. Total(S) = SumFunctionOnSet(f, S) /\ Total(T) = SumFunctionOnSet(g, T)
  BY DEF Total, SumFunction
<1>4. \A x \in S : f[x] \in Int /\ h[x] \in Int /\ h[x] = -f[x]
  BY DEF HasAmounts
<1>5. ASSUME \A x \in S : b[x].amount = x.amount PROVE \A x \in S : g[b[x]] = f[x]
  BY <1>1, <1>5
<1>6. ASSUME \A x \in S : b[x].amount = -x.amount PROVE \A x \in S : g[b[x]] = h[x]
  BY <1>1, <1>6
<1> HIDE DEF f, g, h
<1>7. SumFunctionOnSet(h, S) = -SumFunctionOnSet(f, S)
  BY <1>2, <1>4, SumNegated
<1>8. ASSUME \A x \in S : b[x].amount = x.amount PROVE Total(T) = Total(S)
  BY <1>2, <1>3, <1>4, <1>5, <1>8, SumRenamed
<1>9. ASSUME \A x \in S : b[x].amount = -x.amount PROVE Total(T) = -Total(S)
  <2>0. \A x \in S : h[x] \in Int /\ g[b[x]] = h[x]
    BY <1>4, <1>6, <1>9
  <2>1. SumFunctionOnSet(g, {b[x] : x \in S}) = SumFunctionOnSet(h, S)
    BY <1>2, <2>0, SumRenamed
  <2>2. QED
    BY <2>1, <1>3, <1>7
<1>10. QED
  BY <1>8, <1>9

(* Rows made one by one for the elements of a set, with the opposite of a value
   of each as their amount. *)
LEMMA TotalOfNegated ==
    ASSUME NEW I, IsFiniteSet(I), NEW f, \A i \in I : f[i] \in Int,
           NEW b, \A i, j \in I : b[i] = b[j] => i = j, \A i \in I : b[i].amount = -f[i],
           NEW T, T = {b[i] : i \in I}
    PROVE  HasAmounts(T) /\ Total(T) = -SumFunctionOnSet(f, I)
<1> DEFINE h == [i \in I |-> -f[i]]
           g == [x \in T |-> x.amount]
<1>1. HasAmounts(T)
  BY FiniteImage DEF HasAmounts
<1>2. Total(T) = SumFunctionOnSet(g, T)
  BY DEF Total, SumFunction
<1>3. \A i \in I : h[i] = -f[i] /\ h[i] \in Int /\ g[b[i]] = h[i]
  OBVIOUS
<1> HIDE DEF g, h
<1>4. SumFunctionOnSet(g, T) = SumFunctionOnSet(h, I)
  BY <1>3, SumRenamed
<1>5. SumFunctionOnSet(h, I) = -SumFunctionOnSet(f, I)
  BY <1>3, SumNegated
<1>6. QED
  BY <1>1, <1>2, <1>4, <1>5

(* Finitely many values, if there are any, have a greatest one. *)
LEMMA GreatestValue ==
    ASSUME NEW S, IsFiniteSet(S), S # {}, NEW f, \A x \in S : f[x] \in Int
    PROVE  \E m \in S : \A x \in S : f[m] >= f[x]
<1> DEFINE Tops(s) == {m \in s : \A x \in s : f[m] >= f[x]}
           B == {s \in SUBSET S : s # {} /\ Tops(s) = {}}
<1>0. SUFFICES B = {}
  <2>1. S \notin B => Tops(S) # {}
    OBVIOUS
  <2>2. Tops(S) # {} => \E m \in S : \A x \in S : f[m] >= f[x]
    OBVIOUS
  <2> HIDE DEF B, Tops
  <2>3. QED
    BY <2>1, <2>2
<1>1. SUFFICES ASSUME B # {} PROVE FALSE
  OBVIOUS
<1>2. PICK s \in B : \A t \in SUBSET s : t \in B => t = s
  <2>1. B \in SUBSET SUBSET S
    OBVIOUS
  <2> HIDE DEF B
  <2>2. QED
    BY <1>1, <2>1, SmallestSet
<1>3. s \in SUBSET S /\ s # {} /\ Tops(s) = {}
  BY <1>2
<1>4. PICK c : c \in s
  BY <1>3
<1>5. PICK t : t = s \ {c}
  OBVIOUS
<1>6. t \notin B /\ t \in SUBSET S
  <2>1. t \in SUBSET s /\ t # s
    BY <1>4, <1>5
  <2>2. t \in SUBSET S
    BY <1>3, <2>1
  <2> HIDE DEF B
  <2>3. QED
    BY <1>2, <2>1, <2>2
<1>7. t = {} \/ Tops(t) # {}
  BY <1>6
<1>8. \A x \in s : f[x] \in Int
  BY <1>3
<1>9. CASE t = {}
  <2>1. s = {c}
    BY <1>4, <1>5, <1>9
  <2>2. c \in Tops(s)
    BY <1>8, <2>1
  <2>3. QED
    BY <1>3, <2>2
<1>10. CASE Tops(t) # {}
  <2>1. PICK m \in t : \A x \in t : f[m] >= f[x]
    BY <1>10
  <2>2. \A x \in s : x = c \/ f[m] >= f[x]
    BY <1>5, <2>1
  <2>3. f[m] \in Int /\ f[c] \in Int /\ m \in s
    BY <1>4, <1>5, <1>8, <2>1
  <2>4. c \in Tops(s) \/ m \in Tops(s)
    BY <1>4, <1>8, <2>2, <2>3
  <2>5. QED
    BY <1>3, <2>4
<1>11. QED
  BY <1>7, <1>9, <1>10

(* A finite set of numbers that is not empty has a greatest one. *)
LEMMA GreatestExists ==
    ASSUME NEW S, IsFiniteSet(S), S \subseteq Int, S # {}
    PROVE  \E m \in S : \A x \in S : m >= x
<1> DEFINE f == [x \in S |-> x]
<1>1. \A x \in S : f[x] = x /\ f[x] \in Int
  OBVIOUS
<1> HIDE DEF f
<1>2. PICK m \in S : \A x \in S : f[m] >= f[x]
  BY <1>1, GreatestValue, Zenon
<1>3. QED
  BY <1>1, <1>2
=============================================================================
