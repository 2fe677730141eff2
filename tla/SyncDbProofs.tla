---------------------------- MODULE SyncDbProofs ----------------------------
(***************************************************************************)
(* Proofs about the database bridge for every pool, bound and set of faults *)
(* in which statements fail and the process dies, but the transaction       *)
(* connection is neither dropped, nor late, nor a deadlock victim, and no   *)
(* handler runs DDL inside a transaction.  In that environment the two      *)
(* threads and the server agree on the nesting: the server's undo log is    *)
(* the stack of callbacks, level by level (Mirrored), and the savepoint     *)
(* names on the worker's stack are distinct (Increasing), so that           *)
(* each end of a callback touches exactly that callback's writes.           *)
(* Two sections at the end are about the other faults, where transactions   *)
(* are not nested: what lost connections and late answers cannot do to the  *)
(* data, and what deadlock retries and DDL cannot do to the depths.         *)
(***************************************************************************)
EXTENDS SyncDb, SequenceTheorems, TLAPS

(* The environment the theorems are about. *)
OrderlyFaults == /\ "lost" \notin Faults
                 /\ "timeout" \notin Faults
                 /\ "deadlock" \notin Faults
                 /\ "ddl" \notin Faults

(* No connection is late or dead, no COMMIT is in doubt. *)
Orderly == /\ late = {}
           /\ unsure = {}
           /\ \A c \in Conns : ~srv[c].dead

(* An undo log mirrors a stack of callbacks: level i holds what callback i
   wrote, and is named by the savepoint the worker pushed when it opened. *)
Mirror(log, fr, sps) ==
    /\ Len(log) = Len(fr)
    /\ \A i \in 1..Len(fr) : log[i].ws = fr[i]
    /\ Len(sps) = Len(fr) - 1
    /\ log[1].sp = 0
    /\ \A i \in 1..Len(sps) : log[i + 1].sp = sps[i]

(* Savepoint names climb with the stack and stay below the worker's counter. *)
Climbs(sps, top) ==
    /\ \A i \in 1..Len(sps) : sps[i] <= top
    /\ \A i, j \in 1..Len(sps) : i < j => sps[i] < sps[j]

(* The callbacks' writes are pairwise disjoint, disjoint from S, and were
   issued before the write numbered top + 1. *)
Parted(fr, S, top) ==
    /\ \A i, j \in 1..Len(fr) : i # j => fr[i] \cap fr[j] = {}
    /\ \A i \in 1..Len(fr) : fr[i] \cap S = {}
    /\ \A i \in 1..Len(fr) : \A w \in fr[i] : w <= top

Mirrored == frames # <<>> => /\ wk.conn \in Conns
                             /\ srv[wk.conn].tx
                             /\ Mirror(srv[wk.conn].log, frames, wk.sps)

Apart == /\ Parted(frames, store \cup failed, issued)
         /\ \A w \in store \cup failed : w <= issued
         /\ failed \cap store = {}
         /\ acked \subseteq store

IInv == /\ TypeOK
        /\ DepthsAgree
        /\ Orderly
        /\ Mirrored
        /\ Climbs(wk.sps, wk.seq)
        /\ Apart

-----------------------------------------------------------------------------
(* The sequence operations the bridge is built from.                         *)

(* Opening a callback or a savepoint pushes one element and keeps the rest. *)
LEMMA PushFacts ==
    ASSUME NEW S, NEW s \in Seq(S), NEW e \in S
    PROVE  /\ Append(s, e) \in Seq(S)
           /\ Len(Append(s, e)) = Len(s) + 1
           /\ Append(s, e) # <<>>
           /\ \A i \in 1..Len(s) : Append(s, e)[i] = s[i]
           /\ Append(s, e)[Len(s) + 1] = e
  OBVIOUS

(* Closing one pops the last element and keeps the rest. *)
LEMMA FrontFacts ==
    ASSUME NEW S, NEW s \in Seq(S), s # <<>>
    PROVE  /\ Front(s) \in Seq(S)
           /\ Len(Front(s)) = Len(s) - 1
           /\ \A i \in 1..(Len(s) - 1) : Front(s)[i] = s[i]
           /\ Len(s) \in 1..Len(s)
           /\ Last(s) = s[Len(s)]
           /\ Last(s) \in S
<1>1. Len(s) \in Nat \ {0} /\ \A i \in 1..Len(s) : s[i] \in S
  BY EmptySeq, ElementOfSeq
<1>2. PICK n \in Int : n = Len(s) - 1 /\ n \in Nat
  BY <1>1
<1>3. \A i \in 1..n : s[i] \in S
  BY <1>1, <1>2
<1>4. /\ SubSeq(s, 1, n) \in Seq(S)
      /\ Len(SubSeq(s, 1, n)) = IF 1 <= n THEN n - 1 + 1 ELSE 0
      /\ \A i \in 1..(n - 1 + 1) : SubSeq(s, 1, n)[i] = s[1 + i - 1]
  BY <1>3, SubSeqProperties
<1>5. QED
  BY <1>1, <1>2, <1>4 DEF Front, Last

(* Changing the last element keeps the rest. *)
LEMMA TouchFacts ==
    ASSUME NEW S, NEW s \in Seq(S), NEW i \in 1..Len(s), NEW e \in S
    PROVE  /\ [s EXCEPT ![i] = e] \in Seq(S)
           /\ Len([s EXCEPT ![i] = e]) = Len(s)
           /\ [s EXCEPT ![i] = e][i] = e
           /\ \A j \in 1..Len(s) : j # i => [s EXCEPT ![i] = e][j] = s[j]
  OBVIOUS

-----------------------------------------------------------------------------
(* What each kind of step does to the stacks.                                *)

(* START TRANSACTION mirrors the first callback. *)
LEMMA MirrorOpen ==
    ASSUME NEW log, NEW fr, NEW sps,
           Len(log) = 1, log[1] = Level(0), Len(fr) = 1, fr[1] = {}, Len(sps) = 0
    PROVE  Mirror(log, fr, sps)
<1>1. Level(0).sp = 0 /\ Level(0).ws = {}
  BY DEF Level
<1>2. ASSUME NEW i \in 1..Len(fr) PROVE log[i].ws = fr[i]
  <2>1. i = 1
    OBVIOUS
  <2>2. QED
    BY <1>1, <2>1
<1>3. log[1].sp = 0
  BY <1>1
<1>4. 1..Len(sps) = {}
  OBVIOUS
<1>5. QED
  BY <1>2, <1>3, <1>4 DEF Mirror

(* A savepoint and a callback opened together keep the mirror. *)
LEMMA MirrorPush ==
    ASSUME NEW log \in Seq(LevelType), NEW fr \in Seq(SUBSET Writes), fr # <<>>,
           NEW sps \in Seq(1..MaxSavepoints), NEW sp \in 1..MaxSavepoints,
           Mirror(log, fr, sps)
    PROVE  Mirror(Append(log, Level(sp)), Append(fr, {}), Append(sps, sp))
<1> DEFINE log1 == Append(log, Level(sp))
           fr1 == Append(fr, {})
           sps1 == Append(sps, sp)
           n == Len(fr)
<1>1. Level(sp) \in LevelType /\ Level(sp).sp = sp /\ Level(sp).ws = {}
  BY BoundsAssumption DEF Level, LevelType
<1>2. n \in Nat \ {0} /\ Len(log) = n /\ Len(sps) = n - 1
  BY EmptySeq DEF Mirror
<1>3. /\ Len(log1) = n + 1 /\ log1[n + 1] = Level(sp)
      /\ \A i \in 1..n : log1[i] = log[i]
  BY <1>1, <1>2, PushFacts
<1>4. /\ Len(fr1) = n + 1 /\ fr1[n + 1] = {}
      /\ \A i \in 1..n : fr1[i] = fr[i]
  BY PushFacts
<1>5. /\ Len(sps1) = n /\ sps1[n] = sp
      /\ \A i \in 1..(n - 1) : sps1[i] = sps[i]
  BY <1>2, PushFacts
<1> HIDE DEF log1, fr1, sps1
<1>6. ASSUME NEW i \in 1..(n + 1) PROVE log1[i].ws = fr1[i]
  <2>1. CASE i \in 1..n
    BY <2>1, <1>3, <1>4 DEF Mirror
  <2>2. CASE i = n + 1
    BY <2>2, <1>1, <1>3, <1>4
  <2>3. QED
    BY <1>2, <2>1, <2>2
<1>7. log1[1].sp = 0
  BY <1>2, <1>3 DEF Mirror
<1>8. ASSUME NEW i \in 1..n PROVE log1[i + 1].sp = sps1[i]
  <2>1. CASE i = n
    BY <2>1, <1>1, <1>3, <1>5
  <2>2. CASE i \in 1..(n - 1)
    <3>1. log[i + 1].sp = sps[i]
      BY <2>2, <1>2 DEF Mirror
    <3>2. i + 1 \in 1..n
      BY <2>2, <1>2
    <3>3. QED
      BY <3>1, <3>2, <2>2, <1>3, <1>5
  <2>3. QED
    BY <1>2, <2>1, <2>2
<1>9. QED
  BY <1>2, <1>3, <1>4, <1>5, <1>6, <1>7, <1>8 DEF Mirror, log1, fr1, sps1

(* A new savepoint name is above the others. *)
LEMMA ClimbsPush ==
    ASSUME NEW sps \in Seq(1..MaxSavepoints), NEW top \in 0..MaxSavepoints,
           top + 1 \in 1..MaxSavepoints, Climbs(sps, top)
    PROVE  Climbs(Append(sps, top + 1), top + 1)
<1> DEFINE sps1 == Append(sps, top + 1)
           n == Len(sps)
<1>1. /\ n \in Nat /\ Len(sps1) = n + 1 /\ sps1[n + 1] = top + 1
      /\ \A i \in 1..n : sps1[i] = sps[i]
  BY PushFacts
<1>2. ASSUME NEW i \in 1..n PROVE sps[i] \in Nat
  <2>1. sps[i] \in 1..MaxSavepoints
    BY ElementOfSeq
  <2>2. QED
    BY <2>1
<1> HIDE DEF sps1
<1>3. top \in Nat
  BY BoundsAssumption
<1>4. \A i \in 1..n : sps1[i] \in Nat /\ sps1[i] <= top
  BY <1>1, <1>2 DEF Climbs
<1>5. \A i \in 1..(n + 1) : i \in 1..n \/ i = n + 1
  BY <1>1
<1>6. ASSUME NEW i \in 1..(n + 1), NEW k \in 1..(n + 1), i < k PROVE sps1[i] < sps1[k]
  <2>1. i \in 1..n
    BY <1>1, <1>6
  <2>2. CASE k = n + 1
    BY <1>1, <1>3, <1>4, <2>1, <2>2
  <2>3. CASE k \in 1..n
    BY <1>1, <1>6, <2>1, <2>3 DEF Climbs
  <2>4. QED
    BY <1>5, <2>2, <2>3
<1>7. \A i \in 1..(n + 1) : sps1[i] <= top + 1
  BY <1>1, <1>3, <1>4, <1>5
<1>8. QED
  BY <1>1, <1>6, <1>7 DEF Climbs, sps1

(* A callback that has written nothing yet is disjoint from the others. *)
LEMMA PartedPush ==
    ASSUME NEW fr \in Seq(SUBSET Writes), NEW S, NEW top, Parted(fr, S, top)
    PROVE  Parted(Append(fr, {}), S, top)
<1> DEFINE fr1 == Append(fr, {})
           n == Len(fr)
<1>1. /\ n \in Nat /\ Len(fr1) = n + 1 /\ fr1[n + 1] = {}
      /\ \A i \in 1..n : fr1[i] = fr[i]
  BY PushFacts
<1> HIDE DEF fr1
<1>2. QED
  BY <1>1 DEF Parted, fr1

(* A statement's write lands in the innermost level on both sides. *)
LEMMA MirrorTouch ==
    ASSUME NEW log \in Seq(LevelType), NEW fr \in Seq(SUBSET Writes), fr # <<>>,
           NEW sps, NEW w \in Writes, Mirror(log, fr, sps)
    PROVE  /\ [log EXCEPT ![Len(log)].ws = @ \cup {w}] \in Seq(LevelType)
           /\ Mirror([log EXCEPT ![Len(log)].ws = @ \cup {w}],
                     [fr EXCEPT ![Len(fr)] = @ \cup {w}], sps)
<1> DEFINE n == Len(fr)
           lvl == [log[n] EXCEPT !.ws = @ \cup {w}]
           log1 == [log EXCEPT ![n] = lvl]
           fr1 == [fr EXCEPT ![n] = @ \cup {w}]
<1>1. n \in Nat \ {0} /\ Len(log) = n /\ n \in 1..n
  BY EmptySeq DEF Mirror
<1>2. log[n] \in LevelType /\ fr[n] \in SUBSET Writes
  BY <1>1, ElementOfSeq
<1>3. lvl \in LevelType /\ lvl.sp = log[n].sp /\ lvl.ws = log[n].ws \cup {w}
  BY <1>2 DEF LevelType
<1>4. log1 = [log EXCEPT ![Len(log)].ws = @ \cup {w}]
  BY <1>1
<1> HIDE DEF lvl
<1>5. /\ log1 \in Seq(LevelType) /\ Len(log1) = n /\ log1[n] = lvl
      /\ \A j \in 1..n : j # n => log1[j] = log[j]
  BY <1>1, <1>3, TouchFacts
<1>6. fr[n] \cup {w} \in SUBSET Writes
  BY <1>2
<1>7. /\ Len(fr1) = n /\ fr1[n] = fr[n] \cup {w}
      /\ \A j \in 1..n : j # n => fr1[j] = fr[j]
  BY <1>1, <1>6, TouchFacts
<1> HIDE DEF log1, fr1
<1>8. ASSUME NEW i \in 1..n PROVE log1[i].ws = fr1[i] /\ log1[i].sp = log[i].sp
  <2>1. log[i].ws = fr[i]
    BY DEF Mirror
  <2>2. CASE i = n
    BY <2>1, <2>2, <1>3, <1>5, <1>7
  <2>3. CASE i # n
    BY <2>1, <2>3, <1>5, <1>7
  <2>4. QED
    BY <2>2, <2>3
<1>9. log1[1].sp = 0 /\ Len(sps) = n - 1
  BY <1>1, <1>8 DEF Mirror
<1>10. ASSUME NEW i \in 1..Len(sps) PROVE log1[i + 1].sp = sps[i]
  <2>1. i + 1 \in 1..n /\ log[i + 1].sp = sps[i]
    BY <1>1, <1>9 DEF Mirror
  <2>2. QED
    BY <2>1, <1>8
<1>11. Mirror(log1, fr1, sps)
  BY <1>5, <1>7, <1>8, <1>9, <1>10 DEF Mirror
<1>12. QED
  BY <1>4, <1>5, <1>11 DEF fr1

(* The write is new, so the callbacks stay disjoint. *)
LEMMA PartedTouch ==
    ASSUME NEW fr \in Seq(SUBSET Writes), fr # <<>>, NEW S, NEW top \in Nat,
           top + 1 \in Writes, \A x \in S : x <= top, S \subseteq Writes,
           Parted(fr, S, top)
    PROVE  /\ [fr EXCEPT ![Len(fr)] = @ \cup {top + 1}] \in Seq(SUBSET Writes)
           /\ Len([fr EXCEPT ![Len(fr)] = @ \cup {top + 1}]) = Len(fr)
           /\ Parted([fr EXCEPT ![Len(fr)] = @ \cup {top + 1}], S, top + 1)
<1> DEFINE n == Len(fr)
           fr1 == [fr EXCEPT ![n] = @ \cup {top + 1}]
<1>1. n \in Nat \ {0} /\ n \in 1..n
  BY EmptySeq
<1>2. \A i \in 1..n : fr[i] \subseteq Writes
  BY ElementOfSeq
<1>3. fr[n] \cup {top + 1} \in SUBSET Writes
  BY <1>1, <1>2
<1>4. /\ fr1 \in Seq(SUBSET Writes) /\ Len(fr1) = n /\ fr1[n] = fr[n] \cup {top + 1}
      /\ \A j \in 1..n : j # n => fr1[j] = fr[j]
  BY <1>1, <1>3, TouchFacts
<1>5. top + 1 \notin S /\ \A i \in 1..n : top + 1 \notin fr[i]
  BY <1>1 DEF Parted
<1>6. ASSUME NEW i \in 1..n, NEW x \in fr1[i]
      PROVE  x \in fr[i] \/ (i = n /\ x = top + 1)
  BY <1>4
<1> HIDE DEF fr1
<1>7. ASSUME NEW i \in 1..n, NEW j \in 1..n, i # j, NEW x \in fr1[i], x \in fr1[j]
      PROVE  FALSE
  BY <1>5, <1>6, <1>7 DEF Parted
<1>8. ASSUME NEW i \in 1..n, NEW x \in fr1[i]
      PROVE  x \notin S /\ x <= top + 1
  <2>1. CASE x \in fr[i]
    <3>1. x \in Nat /\ x <= top /\ x \notin S
      BY <2>1, <1>2, BoundsAssumption DEF Parted, Writes
    <3>2. QED
      BY <3>1
  <2>2. CASE x = top + 1
    BY <2>2, <1>5
  <2>3. QED
    BY <2>1, <2>2, <1>6
<1>9. Parted(fr1, S, top + 1)
  BY <1>4, <1>7, <1>8 DEF Parted
<1>10. QED
  BY <1>4, <1>9 DEF fr1

(* RELEASE SAVEPOINT joins the two innermost levels on both sides. *)
LEMMA MirrorMerge ==
    ASSUME NEW log \in Seq(LevelType), NEW fr \in Seq(SUBSET Writes), Len(fr) > 1,
           NEW sps \in Seq(1..MaxSavepoints), Mirror(log, fr, sps)
    PROVE  /\ Merge(log) \in Seq(LevelType)
           /\ Mirror(Merge(log), [Front(fr) EXCEPT ![Len(fr) - 1] = @ \cup Last(fr)],
                     Front(sps))
<1> DEFINE n == Len(fr)
           below == Front(log)
           lvl == [below[n - 1] EXCEPT !.ws = @ \cup Last(log).ws]
           log1 == [below EXCEPT ![n - 1] = lvl]
           fr1 == [Front(fr) EXCEPT ![n - 1] = @ \cup Last(fr)]
           sps1 == Front(sps)
<1>1. /\ n \in Nat /\ n > 1 /\ Len(log) = n /\ Len(sps) = n - 1
      /\ n - 1 \in 1..(n - 1) /\ n \in 1..n
      /\ log # <<>> /\ fr # <<>> /\ sps # <<>>
  BY DEF Mirror
<1>2. /\ below \in Seq(LevelType) /\ Len(below) = n - 1
      /\ \A i \in 1..(n - 1) : below[i] = log[i]
      /\ Last(log) = log[n] /\ Last(log) \in LevelType
  BY <1>1, FrontFacts
<1>3. /\ Front(fr) \in Seq(SUBSET Writes) /\ Len(Front(fr)) = n - 1
      /\ \A i \in 1..(n - 1) : Front(fr)[i] = fr[i]
      /\ Last(fr) = fr[n] /\ Last(fr) \in SUBSET Writes
  BY <1>1, FrontFacts
<1>4. /\ sps1 \in Seq(1..MaxSavepoints) /\ Len(sps1) = n - 2
      /\ \A i \in 1..(n - 2) : sps1[i] = sps[i]
  BY <1>1, FrontFacts
<1>5. Merge(log) = log1
  BY <1>1, <1>2 DEF Merge
<1> HIDE DEF below, sps1
<1>6. below[n - 1] \in LevelType
  BY <1>1, <1>2, ElementOfSeq
<1>7. lvl \in LevelType /\ lvl.sp = log[n - 1].sp /\ lvl.ws = log[n - 1].ws \cup log[n].ws
  BY <1>1, <1>2, <1>6 DEF LevelType
<1> HIDE DEF lvl
<1>8. /\ log1 \in Seq(LevelType) /\ Len(log1) = n - 1 /\ log1[n - 1] = lvl
      /\ \A j \in 1..(n - 1) : j # n - 1 => log1[j] = log[j]
  BY <1>1, <1>2, <1>7, TouchFacts
<1>9. Front(fr)[n - 1] \cup Last(fr) \in SUBSET Writes
  BY <1>1, <1>3, ElementOfSeq
<1>10. /\ Len(fr1) = n - 1 /\ fr1[n - 1] = fr[n - 1] \cup fr[n]
       /\ \A j \in 1..(n - 1) : j # n - 1 => fr1[j] = fr[j]
  BY <1>1, <1>3, <1>9, TouchFacts
<1> HIDE DEF log1, fr1
<1>11. ASSUME NEW i \in 1..(n - 1) PROVE log1[i].ws = fr1[i] /\ log1[i].sp = log[i].sp
  <2>1. i \in 1..n /\ log[i].ws = fr[i] /\ log[n].ws = fr[n]
    BY <1>1 DEF Mirror
  <2>2. CASE i = n - 1
    BY <2>1, <2>2, <1>7, <1>8, <1>10
  <2>3. CASE i # n - 1
    BY <2>1, <2>3, <1>8, <1>10
  <2>4. QED
    BY <2>2, <2>3
<1>12. log1[1].sp = 0
  BY <1>1, <1>11 DEF Mirror
<1>13. ASSUME NEW i \in 1..(n - 2) PROVE log1[i + 1].sp = sps1[i]
  <2>1. i + 1 \in 1..(n - 1) /\ i \in 1..(n - 1) /\ log[i + 1].sp = sps[i]
    BY <1>1 DEF Mirror
  <2>2. QED
    BY <2>1, <1>4, <1>11
<1>14. Mirror(log1, fr1, sps1)
  BY <1>1, <1>4, <1>8, <1>10, <1>11, <1>12, <1>13 DEF Mirror
<1>15. QED
  BY <1>5, <1>8, <1>14 DEF fr1, sps1

(* The inner callback's writes become the enclosing one's. *)
LEMMA PartedMerge ==
    ASSUME NEW fr \in Seq(SUBSET Writes), Len(fr) > 1, NEW S, NEW top,
           Parted(fr, S, top)
    PROVE  /\ [Front(fr) EXCEPT ![Len(fr) - 1] = @ \cup Last(fr)] \in Seq(SUBSET Writes)
           /\ Len([Front(fr) EXCEPT ![Len(fr) - 1] = @ \cup Last(fr)]) = Len(fr) - 1
           /\ Parted([Front(fr) EXCEPT ![Len(fr) - 1] = @ \cup Last(fr)], S, top)
<1> DEFINE n == Len(fr)
           fr1 == [Front(fr) EXCEPT ![n - 1] = @ \cup Last(fr)]
<1>1. n \in Nat /\ n - 1 \in 1..(n - 1) /\ n \in 1..n /\ fr # <<>>
  OBVIOUS
<1>2. /\ Front(fr) \in Seq(SUBSET Writes) /\ Len(Front(fr)) = n - 1
      /\ \A i \in 1..(n - 1) : Front(fr)[i] = fr[i]
      /\ Last(fr) = fr[n] /\ Last(fr) \in SUBSET Writes
  BY <1>1, FrontFacts
<1>3. Front(fr)[n - 1] \cup Last(fr) \in SUBSET Writes
  BY <1>1, <1>2, ElementOfSeq
<1>4. /\ fr1 \in Seq(SUBSET Writes) /\ Len(fr1) = n - 1
      /\ fr1[n - 1] = fr[n - 1] \cup fr[n]
      /\ \A j \in 1..(n - 1) : j # n - 1 => fr1[j] = fr[j]
  BY <1>1, <1>2, <1>3, TouchFacts
<1> HIDE DEF fr1
<1>5. ASSUME NEW i \in 1..(n - 1), NEW x \in fr1[i]
      PROVE  x \in fr[i] \/ (i = n - 1 /\ x \in fr[n])
  BY <1>4
<1>6. Parted(fr1, S, top)
  <2>1. ASSUME NEW i \in 1..(n - 1), NEW j \in 1..(n - 1), i # j,
               NEW x \in fr1[i], x \in fr1[j]
        PROVE  FALSE
    BY <2>1, <1>1, <1>5 DEF Parted
  <2>2. ASSUME NEW i \in 1..(n - 1), NEW x \in fr1[i]
        PROVE  x \notin S /\ x <= top
    BY <1>1, <1>5 DEF Parted
  <2>3. QED
    BY <1>4, <2>1, <2>2 DEF Parted
<1>7. QED
  BY <1>4, <1>6 DEF fr1

(* ROLLBACK TO SAVEPOINT with the newest name drops exactly the newest level. *)
LEMMA MirrorCut ==
    ASSUME NEW log \in Seq(LevelType), NEW fr \in Seq(SUBSET Writes), Len(fr) > 1,
           NEW sps \in Seq(1..MaxSavepoints), NEW top,
           Mirror(log, fr, sps), Climbs(sps, top)
    PROVE  /\ HasLevel(log, Last(sps))
           /\ CutTo(log, Last(sps)) \in Seq(LevelType)
           /\ Mirror(CutTo(log, Last(sps)), Front(fr), Front(sps))
<1> DEFINE n == Len(fr)
           sp == Last(sps)
<1>1. /\ n \in Nat /\ n > 1 /\ Len(log) = n /\ Len(sps) = n - 1
      /\ log # <<>> /\ fr # <<>> /\ sps # <<>>
  BY DEF Mirror
<1>2. sp = sps[n - 1] /\ sp \in 1..MaxSavepoints
  BY <1>1, FrontFacts
<1>3. log[n].sp = sp
  BY <1>1, <1>2 DEF Mirror
<1>4. ASSUME NEW i \in 1..n, log[i].sp = sp PROVE i = n
  <2>1. CASE i = 1
    BY <2>1, <1>2, <1>4 DEF Mirror
  <2>2. CASE i \in 2..(n - 1)
    <3>1. i - 1 \in 1..(n - 1) /\ n - 1 \in 1..(n - 1) /\ i - 1 < n - 1
      BY <2>2, <1>1
    <3>2. log[(i - 1) + 1].sp = sps[i - 1]
      BY <3>1, <1>1 DEF Mirror
    <3>3. sps[i - 1] < sps[n - 1]
      BY <3>1, <1>1 DEF Climbs
    <3>4. sps[i - 1] \in 1..MaxSavepoints
      BY <3>1, <1>1, ElementOfSeq
    <3>5. (i - 1) + 1 = i
      OBVIOUS
    <3>6. QED
      BY <3>2, <3>3, <3>4, <3>5, <1>2, <1>4
  <2>3. QED
    BY <2>1, <2>2, <1>1
<1>5. (CHOOSE i \in 1..Len(log) : log[i].sp = sp) = n
  BY <1>1, <1>3, <1>4
<1>6. CutTo(log, sp) = Front(log)
  BY <1>1, <1>5 DEF CutTo, Front
<1>7. /\ Front(log) \in Seq(LevelType) /\ Len(Front(log)) = n - 1
      /\ \A i \in 1..(n - 1) : Front(log)[i] = log[i]
  BY <1>1, FrontFacts
<1>8. /\ Len(Front(fr)) = n - 1
      /\ \A i \in 1..(n - 1) : Front(fr)[i] = fr[i]
  BY <1>1, FrontFacts
<1>9. /\ Len(Front(sps)) = n - 2
      /\ \A i \in 1..(n - 2) : Front(sps)[i] = sps[i]
  BY <1>1, FrontFacts
<1>10. Mirror(Front(log), Front(fr), Front(sps))
  <2>1. ASSUME NEW i \in 1..(n - 1) PROVE Front(log)[i].ws = Front(fr)[i]
    BY <1>1, <1>7, <1>8 DEF Mirror
  <2>2. Front(log)[1].sp = 0
    BY <1>1, <1>7 DEF Mirror
  <2>3. ASSUME NEW i \in 1..(n - 2) PROVE Front(log)[i + 1].sp = Front(sps)[i]
    <3>1. i + 1 \in 1..(n - 1) /\ i \in 1..(n - 1) /\ log[i + 1].sp = sps[i]
      BY <1>1 DEF Mirror
    <3>2. QED
      BY <3>1, <1>7, <1>9
  <2>4. QED
    BY <1>1, <1>7, <1>8, <1>9, <2>1, <2>2, <2>3 DEF Mirror
<1>11. HasLevel(log, sp)
  BY <1>1, <1>3 DEF HasLevel
<1>12. QED
  BY <1>6, <1>7, <1>10, <1>11

(* Dropping the innermost callback keeps the others disjoint; what it wrote is
   disjoint from them. *)
LEMMA PartedFront ==
    ASSUME NEW fr \in Seq(SUBSET Writes), fr # <<>>, NEW S, NEW top,
           Parted(fr, S, top)
    PROVE  /\ Front(fr) \in Seq(SUBSET Writes)
           /\ Len(Front(fr)) = Len(fr) - 1
           /\ Parted(Front(fr), S \cup Last(fr), top)
           /\ Last(fr) \cap S = {}
           /\ \A w \in Last(fr) : w <= top
<1>1. /\ Front(fr) \in Seq(SUBSET Writes) /\ Len(Front(fr)) = Len(fr) - 1
      /\ \A i \in 1..(Len(fr) - 1) : Front(fr)[i] = fr[i]
      /\ Last(fr) = fr[Len(fr)] /\ Len(fr) \in 1..Len(fr)
  BY FrontFacts
<1>2. Len(fr) \in Nat
  OBVIOUS
<1>3. Parted(Front(fr), S \cup Last(fr), top)
  BY <1>1, <1>2 DEF Parted
<1>4. Last(fr) \cap S = {} /\ \A w \in Last(fr) : w <= top
  BY <1>1 DEF Parted
<1>5. QED
  BY <1>1, <1>3, <1>4

(* Popping a savepoint name keeps the rest climbing. *)
LEMMA ClimbsFront ==
    ASSUME NEW sps \in Seq(1..MaxSavepoints), sps # <<>>, NEW top, Climbs(sps, top)
    PROVE  /\ Front(sps) \in Seq(1..MaxSavepoints)
           /\ Climbs(Front(sps), top)
<1>1. /\ Front(sps) \in Seq(1..MaxSavepoints) /\ Len(Front(sps)) = Len(sps) - 1
      /\ \A i \in 1..(Len(sps) - 1) : Front(sps)[i] = sps[i]
  BY FrontFacts
<1>2. Len(sps) \in Nat
  OBVIOUS
<1>3. QED
  BY <1>1, <1>2 DEF Climbs

(* What the type invariant says of a transaction that is open. *)
LEMMA OpenFacts ==
    ASSUME IInv, frames # <<>>
    PROVE  /\ Len(frames) \in Nat \ {0}
           /\ wk.depth = Len(frames)
           /\ wk.conn \in Conns
           /\ srv[wk.conn].log \in Seq(LevelType)
           /\ srv[wk.conn].log # <<>>
           /\ srv[wk.conn].tx /\ ~srv[wk.conn].dead
           /\ Last(frames) \subseteq Writes
<1>1. frames \in Seq(SUBSET Writes) /\ Len(frames) \in Nat \ {0}
  BY EmptySeq DEF IInv, TypeOK
<1>2. wk.conn \in Conns /\ srv[wk.conn].tx /\ Len(srv[wk.conn].log) = Len(frames)
  BY DEF IInv, Mirrored, Mirror
<1>3. srv[wk.conn].log \in Seq(LevelType)
  BY <1>2 DEF IInv, TypeOK, ConnType
<1>4. srv[wk.conn].log # <<>>
  BY <1>1, <1>2, EmptySeq
<1>5. Last(frames) \in SUBSET Writes
  BY <1>1, FrontFacts
<1>6. QED
  BY <1>1, <1>2, <1>3, <1>4, <1>5 DEF IInv, Orderly, DepthsAgree

(* A worker deeper than the outermost transaction has an inner callback. *)
LEMMA DeeperFacts ==
    ASSUME IInv, wk.depth > 1
    PROVE  /\ frames # <<>>
           /\ Len(frames) \in Nat /\ Len(frames) > 1 /\ Len(frames) # 1
<1>1. wk.depth \in Nat /\ wk.depth # 1
  BY DEF IInv, TypeOK, WorkerType
<1>2. wk.depth = Len(frames)
  BY DEF IInv, DepthsAgree
<1>3. QED
  BY <1>1, <1>2

-----------------------------------------------------------------------------
(* One lemma per action: it preserves the inductive invariant.               *)

(* START TRANSACTION on a free connection opens the first callback. *)
LEMMA BeginOuterPreserves ==
    ASSUME IInv, BeginOuter
    PROVE  IInv'
<1>1. PICK c \in FreeConns :
          /\ wk' = [wk EXCEPT !.depth = 1, !.conn = c, !.sps = <<>>, !.held = @ \cup {c}]
          /\ srv' = [srv EXCEPT ![c] = OpenConn]
  BY DEF BeginOuter
<1>2. c \in Conns
  BY DEF FreeConns
<1>3. frames = <<>> /\ frames' = <<{}>>
  <2>1. Len(frames) = 0
    BY DEF IInv, DepthsAgree, BeginOuter
  <2>2. frames = <<>>
    BY <2>1, EmptySeq DEF IInv, TypeOK
  <2>3. QED
    BY <2>2 DEF BeginOuter
<1>4. wk'.depth = 1 /\ wk'.conn = c /\ wk'.sps = <<>> /\ wk'.seq = wk.seq
      /\ wk'.held = wk.held \cup {c}
  BY <1>1 DEF IInv, TypeOK
<1>5. srv'[c] = OpenConn /\ \A d \in Conns : d # c => srv'[d] = srv[d]
  BY <1>1, <1>2 DEF IInv, TypeOK
<1>6. OpenConn.log \in Seq(LevelType) /\ OpenConn.tx /\ ~OpenConn.dead
      /\ Len(OpenConn.log) = 1 /\ OpenConn.log[1] = Level(0)
  BY BoundsAssumption DEF OpenConn, LevelType, Level
<1>7. TypeOK'
  <2>1. frames' \in Seq(SUBSET Writes)
    BY <1>3
  <2>2. wk' \in WorkerType
    BY <1>1, <1>2, EmptySeq DEF IInv, TypeOK, WorkerType
  <2>3. OpenConn \in ConnType
    BY <1>6 DEF OpenConn, ConnType
  <2>4. srv' \in [Conns -> ConnType]
    BY <1>1, <2>3 DEF IInv, TypeOK
  <2>5. QED
    BY <2>1, <2>2, <2>4 DEF IInv, TypeOK, BeginOuter
<1>8. DepthsAgree'
  BY <1>3, <1>4 DEF DepthsAgree
<1>9. Orderly'
  BY <1>5, <1>6 DEF IInv, Orderly, BeginOuter
<1>10. Mirrored'
  <2>1. Len(frames') = 1 /\ frames'[1] = {} /\ Len(wk'.sps) = 0
    BY <1>3, <1>4
  <2>2. Mirror(OpenConn.log, frames', wk'.sps)
    BY <1>6, <2>1, MirrorOpen
  <2>3. QED
    BY <1>2, <1>4, <1>5, <1>6, <2>2 DEF Mirrored
<1>11. Climbs(wk'.sps, wk'.seq)
  BY <1>4 DEF Climbs
<1>12. Apart'
  <2>1. Parted(<<{}>>, store \cup failed, issued)
    BY DEF Parted
  <2>2. QED
    BY <1>3, <2>1 DEF IInv, Apart, BeginOuter
<1>13. QED
  BY <1>7, <1>8, <1>9, <1>10, <1>11, <1>12 DEF IInv

(* SAVEPOINT opens an inner callback on top of the others. *)
LEMMA BeginNestedPreserves ==
    ASSUME IInv, BeginNested
    PROVE  IInv'
<1> DEFINE c == wk.conn
           sp == wk.seq + 1
<1>1. /\ frames \in Seq(SUBSET Writes) /\ wk.sps \in Seq(1..MaxSavepoints)
      /\ wk.depth \in Nat /\ wk.seq \in 0..MaxSavepoints /\ sp \in 1..MaxSavepoints
  BY BoundsAssumption DEF IInv, TypeOK, WorkerType, BeginNested
<1>2. frames # <<>>
  BY DEF IInv, DepthsAgree, BeginNested
<1>3. /\ Len(frames) \in Nat /\ wk.depth = Len(frames)
      /\ c \in Conns /\ srv[c].log \in Seq(LevelType) /\ srv[c].tx /\ ~srv[c].dead
  BY <1>2, OpenFacts
<1>4. /\ wk' = [wk EXCEPT !.depth = @ + 1, !.seq = @ + 1, !.sps = Append(@, sp)]
      /\ srv' = [srv EXCEPT ![c].log = Append(@, Level(sp))]
      /\ frames' = Append(frames, {})
      /\ UNCHANGED <<throwing, late, store, issued, acked, failed, unsure>>
  BY <1>3 DEF BeginNested
<1>5. /\ wk'.depth = wk.depth + 1 /\ wk'.seq = sp /\ wk'.sps = Append(wk.sps, sp)
      /\ wk'.conn = c
  BY <1>4 DEF IInv, TypeOK, WorkerType
<1>6. /\ srv'[c].log = Append(srv[c].log, Level(sp))
      /\ srv'[c].tx = srv[c].tx
      /\ \A d \in Conns : srv'[d].dead = srv[d].dead
  BY <1>3, <1>4 DEF IInv, TypeOK, ConnType
<1>7. /\ Append(frames, {}) \in Seq(SUBSET Writes)
      /\ Len(Append(frames, {})) = Len(frames) + 1
  BY <1>1, PushFacts
<1>8. Append(wk.sps, sp) \in Seq(1..MaxSavepoints)
  BY <1>1, PushFacts
<1>9. Append(srv[c].log, Level(sp)) \in Seq(LevelType)
  <2>1. Level(sp) \in LevelType
    BY <1>1, BoundsAssumption DEF Level, LevelType
  <2>2. QED
    BY <1>3, <2>1, PushFacts
<1>10. TypeOK'
  <2>1. wk' \in WorkerType
    <3>1. wk.depth + 1 \in Nat /\ sp \in 0..MaxSavepoints
      BY <1>1, BoundsAssumption
    <3>2. QED
      BY <1>4, <1>8, <3>1 DEF IInv, TypeOK, WorkerType
  <2>2. srv' \in [Conns -> ConnType]
    BY <1>3, <1>4, <1>9 DEF IInv, TypeOK, ConnType
  <2>3. QED
    BY <1>4, <1>7, <2>1, <2>2 DEF IInv, TypeOK
<1>11. DepthsAgree'
  BY <1>3, <1>4, <1>5, <1>7 DEF DepthsAgree
<1>12. Orderly'
  BY <1>4, <1>6 DEF IInv, Orderly
<1>13. Mirrored'
  <2>1. Mirror(srv[c].log, frames, wk.sps)
    BY <1>2 DEF IInv, Mirrored
  <2>2. Mirror(srv'[c].log, frames', wk'.sps)
    <3>1. Mirror(Append(srv[c].log, Level(sp)), Append(frames, {}), Append(wk.sps, sp))
      BY <1>1, <1>2, <1>3, <2>1, MirrorPush
    <3>2. QED
      BY <1>4, <1>5, <1>6, <3>1
  <2>3. QED
    BY <1>3, <1>5, <1>6, <2>2 DEF Mirrored
<1>14. Climbs(wk'.sps, wk'.seq)
  BY <1>1, <1>5, ClimbsPush DEF IInv
<1>15. Apart'
  BY <1>1, <1>4, PartedPush DEF IInv, Apart
<1>16. QED
  BY <1>10, <1>11, <1>12, <1>13, <1>14, <1>15 DEF IInv

(* An exception that starts or stops propagating touches no stack. *)
LEMMA ControlPreserves ==
    ASSUME IInv, throwing' \in BOOLEAN,
           UNCHANGED <<frames, wk, late, srv, store, issued, acked, failed, unsure>>
    PROVE  IInv'
<1>1. TypeOK'
  BY DEF IInv, TypeOK
<1>2. QED
  BY <1>1 DEF IInv, DepthsAgree, Orderly, Mirrored, Apart

(* A statement inside a callback adds its write to the innermost level. *)
LEMMA WriteInTxPreserves ==
    ASSUME IInv, WriteInTx
    PROVE  IInv'
<1> DEFINE c == wk.conn
           w == issued + 1
<1>1. frames # <<>>
  BY DEF IInv, DepthsAgree, WriteInTx, InTx
<1>2. /\ Len(frames) \in Nat \ {0} /\ c \in Conns /\ srv[c].log \in Seq(LevelType)
      /\ srv[c].tx /\ ~srv[c].dead /\ frames \in Seq(SUBSET Writes)
  BY <1>1, OpenFacts DEF IInv, TypeOK
<1>3. /\ srv' = [srv EXCEPT ![c].log[Len(srv[c].log)].ws = @ \cup {w}]
      /\ frames' = [frames EXCEPT ![Len(frames)] = @ \cup {w}]
      /\ issued' = w
      /\ UNCHANGED <<throwing, wk, late, store, acked, failed, unsure>>
  BY <1>1, <1>2 DEF WriteInTx, Acknowledge
<1>4. issued \in Nat /\ w \in Writes /\ w \in 0..MaxWrites
  BY BoundsAssumption DEF IInv, TypeOK, WriteInTx, Writes
<1>5. Mirror(srv[c].log, frames, wk.sps)
  BY <1>1 DEF IInv, Mirrored
<1> DEFINE log1 == [srv[c].log EXCEPT ![Len(srv[c].log)].ws = @ \cup {w}]
<1>6. log1 \in Seq(LevelType) /\ Mirror(log1, frames', wk.sps)
  BY <1>1, <1>2, <1>3, <1>4, <1>5, MirrorTouch
<1>7. srv' = [srv EXCEPT ![c].log = log1]
  BY <1>3
<1> HIDE DEF log1
<1>8. /\ srv'[c].log = log1 /\ srv'[c].tx
      /\ \A d \in Conns : ~srv'[d].dead
      /\ srv' \in [Conns -> ConnType]
  BY <1>2, <1>6, <1>7 DEF IInv, TypeOK, ConnType, Orderly
<1>9. /\ frames' \in Seq(SUBSET Writes) /\ Len(frames') = Len(frames)
      /\ Parted(frames', store \cup failed, w)
  <2>1. /\ \A x \in store \cup failed : x <= issued
        /\ store \cup failed \subseteq Writes
        /\ Parted(frames, store \cup failed, issued)
    BY DEF IInv, TypeOK, Apart
  <2>2. QED
    BY <1>1, <1>2, <1>3, <1>4, <2>1, PartedTouch
<1>10. TypeOK'
  BY <1>3, <1>4, <1>8, <1>9 DEF IInv, TypeOK
<1>11. DepthsAgree'
  BY <1>3, <1>9 DEF IInv, DepthsAgree
<1>12. Orderly'
  BY <1>3, <1>8 DEF IInv, Orderly
<1>13. Mirrored'
  BY <1>2, <1>3, <1>6, <1>8 DEF Mirrored
<1>14. Apart'
  <2>1. \A x \in store \cup failed : x <= issued /\ x \in Nat
    BY BoundsAssumption DEF IInv, Apart, TypeOK, Writes
  <2>2. \A x \in store \cup failed : x <= w
    BY <2>1, <1>4
  <2>3. QED
    BY <1>3, <1>9, <2>2 DEF IInv, Apart
<1>15. QED
  BY <1>3, <1>10, <1>11, <1>12, <1>13, <1>14 DEF IInv

(* A statement outside every callback goes to the store and nowhere else. *)
LEMMA WriteOnPoolPreserves ==
    ASSUME IInv, WriteOnPool
    PROVE  IInv'
<1> DEFINE w == issued + 1
<1>1. frames = <<>>
  <2>1. SUFFICES ASSUME frames # <<>> PROVE FALSE
    OBVIOUS
  <2>2. wk.depth \in Nat \ {0} /\ wk.conn \in Conns
    BY <2>1, OpenFacts
  <2>3. QED
    BY <2>2, ConnsAssumption DEF WriteOnPool, InTx
<1>2. /\ issued' = w /\ store' = store \cup {w} /\ acked' = acked \cup {w}
      /\ UNCHANGED <<frames, throwing, wk, late, srv, failed, unsure>>
  BY <1>1 DEF WriteOnPool, Acknowledge
<1>3. issued \in Nat /\ w \in Writes /\ w \in 0..MaxWrites
  BY BoundsAssumption DEF IInv, TypeOK, WriteOnPool, Writes
<1>4. TypeOK'
  BY <1>2, <1>3 DEF IInv, TypeOK
<1>5. Apart'
  <2>1. \A x \in store \cup failed : x <= issued /\ x \in Nat
    BY BoundsAssumption DEF IInv, Apart, TypeOK, Writes
  <2>2. w \notin failed /\ \A x \in store' \cup failed : x <= w
    BY <1>2, <1>3, <2>1
  <2>3. Len(frames) = 0
    BY <1>1
  <2>4. Parted(frames, store' \cup failed, w)
    BY <2>3 DEF Parted
  <2>5. QED
    BY <1>2, <2>2, <2>4 DEF IInv, Apart
<1>6. QED
  BY <1>1, <1>2, <1>4, <1>5 DEF IInv, DepthsAgree, Orderly, Mirrored

(* RELEASE SAVEPOINT hands the innermost writes to the enclosing callback. *)
LEMMA ReleaseNestedPreserves ==
    ASSUME IInv, ReleaseNested
    PROVE  IInv'
<1> DEFINE c == wk.conn
           frames1 == [Front(frames) EXCEPT ![Len(frames) - 1] = @ \cup Last(frames)]
<1>1. /\ frames \in Seq(SUBSET Writes) /\ frames # <<>> /\ wk.sps # <<>>
      /\ wk.sps \in Seq(1..MaxSavepoints) /\ wk.depth > 1
  BY DEF IInv, TypeOK, WorkerType, ReleaseNested
<1>2. /\ Len(frames) \in Nat /\ Len(frames) > 1 /\ Len(frames) # 1
      /\ wk.depth = Len(frames)
      /\ c \in Conns /\ srv[c].log \in Seq(LevelType) /\ srv[c].tx
  BY <1>1, OpenFacts, DeeperFacts
<1>3. /\ srv' = [srv EXCEPT ![c].log = Merge(@)]
      /\ wk' = [wk EXCEPT !.depth = @ - 1, !.sps = Front(@)]
      /\ frames' = frames1
      /\ UNCHANGED <<throwing, late, store, issued, acked, failed, unsure>>
  <2>1. Returns
    BY DEF ReleaseNested
  <2>2. Len(frames) # 1
    BY <1>2
  <2>3. frames' = frames1 /\ UNCHANGED acked
    BY <2>1, <2>2 DEF Returns
  <2>4. QED
    BY <2>3 DEF ReleaseNested
<1>4. Mirror(srv[c].log, frames, wk.sps)
  BY <1>1 DEF IInv, Mirrored
<1>5. Merge(srv[c].log) \in Seq(LevelType)
      /\ Mirror(Merge(srv[c].log), frames1, Front(wk.sps))
  BY <1>1, <1>2, <1>4, MirrorMerge
<1>6. /\ frames1 \in Seq(SUBSET Writes) /\ Len(frames1) = Len(frames) - 1
      /\ Parted(frames1, store \cup failed, issued)
  BY <1>1, <1>2, PartedMerge DEF IInv, Apart
<1>7. Front(wk.sps) \in Seq(1..MaxSavepoints) /\ Climbs(Front(wk.sps), wk.seq)
  BY <1>1, ClimbsFront DEF IInv
<1> HIDE DEF frames1
<1>8. /\ wk'.depth = wk.depth - 1 /\ wk'.conn = c /\ wk'.seq = wk.seq
      /\ wk'.sps = Front(wk.sps)
      /\ wk' \in WorkerType
  <2>1. wk \in WorkerType /\ wk.depth - 1 \in Nat
    BY <1>1, <1>2 DEF IInv, TypeOK
  <2>2. PICK sps1 \in Seq(1..MaxSavepoints) : sps1 = Front(wk.sps)
    BY <1>7
  <2>3. wk' = [wk EXCEPT !.depth = wk.depth - 1, !.sps = sps1]
    BY <1>3, <2>2
  <2>4. QED
    BY <2>1, <2>2, <2>3 DEF WorkerType
<1>9. /\ srv'[c].log = Merge(srv[c].log) /\ srv'[c].tx
      /\ \A d \in Conns : ~srv'[d].dead
      /\ srv' \in [Conns -> ConnType]
  BY <1>2, <1>3, <1>5 DEF IInv, TypeOK, ConnType, Orderly
<1>10. TypeOK'
  BY <1>3, <1>6, <1>8, <1>9 DEF IInv, TypeOK
<1>11. DepthsAgree'
  BY <1>2, <1>3, <1>6, <1>8 DEF DepthsAgree
<1>12. Orderly'
  BY <1>3, <1>9 DEF IInv, Orderly
<1>13. Mirrored'
  BY <1>2, <1>3, <1>5, <1>8, <1>9 DEF Mirrored
<1>14. Climbs(wk'.sps, wk'.seq)
  BY <1>7, <1>8
<1>15. Apart'
  BY <1>3, <1>6 DEF IInv, Apart
<1>16. QED
  BY <1>10, <1>11, <1>12, <1>13, <1>14, <1>15 DEF IInv

(* Forgetting the connection leaves a worker of the right shape. *)
LEMMA ReleasedFacts ==
    ASSUME NEW w \in WorkerType
    PROVE  /\ Released(w) \in WorkerType
           /\ Released(w).depth = 0 /\ Released(w).sps = <<>>
           /\ Released(w).seq = w.seq
<1>1. <<>> \in Seq(1..MaxSavepoints) /\ 0 \in Nat /\ w.held \ {w.conn} \in SUBSET Conns
  BY EmptySeq DEF WorkerType
<1>2. QED
  BY <1>1 DEF Released, WorkerType

(* COMMIT publishes what the one open callback wrote and nothing else. *)
LEMMA CommitOuterEffect ==
    ASSUME IInv, CommitOuter
    PROVE  /\ Len(frames) = 1 /\ wk.conn \in Conns
           /\ Last(frames) \subseteq Writes
           /\ store' = store \cup Last(frames)
           /\ acked' = acked \cup Last(frames)
           /\ frames' = <<>>
           /\ srv' = [srv EXCEPT ![wk.conn] = IdleConn]
           /\ wk' = Released(wk)
           /\ UNCHANGED <<throwing, late, issued, failed, unsure>>
<1> DEFINE c == wk.conn
<1>1. frames \in Seq(SUBSET Writes) /\ frames # <<>> /\ wk.depth = 1
  BY DEF IInv, TypeOK, CommitOuter
<1>2. /\ Len(frames) = 1 /\ c \in Conns /\ srv[c].log \in Seq(LevelType)
      /\ Last(frames) = frames[1] /\ Last(frames) \subseteq Writes
  BY <1>1, OpenFacts DEF Last
<1>3. LogWrites(c) = Last(frames)
  <2>1. Len(srv[c].log) = 1 /\ srv[c].log[1].ws = frames[1]
    BY <1>1, <1>2 DEF IInv, Mirrored, Mirror
  <2>2. LogWrites(c) = UNION {srv[c].log[i].ws : i \in 1..1}
    BY <2>1 DEF LogWrites
  <2>3. 1..1 = {1}
    OBVIOUS
  <2>4. QED
    BY <1>2, <2>1, <2>2, <2>3
<1>4. /\ store' = store \cup Last(frames) /\ acked' = acked \cup Last(frames)
      /\ frames' = <<>>
      /\ srv' = [srv EXCEPT ![c] = IdleConn]
      /\ wk' = Released(wk)
      /\ UNCHANGED <<throwing, late, issued, failed, unsure>>
  <2>1. Returns
    BY DEF CommitOuter
  <2>2. frames' = <<>> /\ acked' = acked \cup Last(frames)
    BY <2>1, <1>2 DEF Returns
  <2>3. QED
    BY <2>2, <1>3 DEF CommitOuter
<1>5. QED
  BY <1>2, <1>4

(* The published writes leave the callback and join the store. *)
LEMMA CommitOuterPreserves ==
    ASSUME IInv, CommitOuter
    PROVE  IInv'
<1>1. frames \in Seq(SUBSET Writes) /\ frames # <<>>
  BY DEF IInv, TypeOK, CommitOuter
<1>2. /\ Last(frames) \subseteq Writes /\ wk.conn \in Conns
      /\ store' = store \cup Last(frames) /\ acked' = acked \cup Last(frames)
      /\ frames' = <<>> /\ srv' = [srv EXCEPT ![wk.conn] = IdleConn]
      /\ wk' = Released(wk)
      /\ UNCHANGED <<throwing, late, issued, failed, unsure>>
  BY CommitOuterEffect
<1>3. wk'.depth = 0 /\ wk'.sps = <<>> /\ wk'.seq = wk.seq /\ wk' \in WorkerType
  BY <1>2, ReleasedFacts DEF IInv, TypeOK
<1>4. IdleConn \in ConnType /\ ~IdleConn.dead
  BY DEF IdleConn, ConnType
<1>5. srv' \in [Conns -> ConnType] /\ \A d \in Conns : ~srv'[d].dead
  BY <1>2, <1>4 DEF IInv, TypeOK, Orderly
<1>6. TypeOK'
  <2>1. <<>> \in Seq(SUBSET Writes)
    BY EmptySeq
  <2>2. QED
    BY <1>2, <1>3, <1>5, <2>1 DEF IInv, TypeOK
<1>7. DepthsAgree' /\ Mirrored' /\ Orderly' /\ Climbs(wk'.sps, wk'.seq)
  BY <1>2, <1>3, <1>5 DEF IInv, DepthsAgree, Mirrored, Orderly, Climbs
<1>8. Apart'
  <2>1. Parted(frames', store' \cup failed', issued')
    BY <1>2 DEF Parted
  <2>2. Last(frames) \cap (store \cup failed) = {} /\ \A w \in Last(frames) : w <= issued
    BY <1>1, PartedFront DEF IInv, Apart
  <2>3. QED
    BY <1>2, <2>1, <2>2 DEF IInv, Apart
<1>9. QED
  BY <1>6, <1>7, <1>8 DEF IInv

(* An exception that leaves a callback takes exactly its writes away. *)
LEMMA UnwindPreserves ==
    ASSUME IInv, Unwind
    PROVE  IInv'
<1> DEFINE c == wk.conn
<1>1. frames \in Seq(SUBSET Writes) /\ frames # <<>> /\ wk.sps \in Seq(1..MaxSavepoints)
      /\ wk \in WorkerType /\ srv \in [Conns -> ConnType]
  BY DEF IInv, TypeOK, WorkerType, Unwind
<1>2. /\ Len(frames) \in Nat \ {0} /\ c \in Conns /\ srv[c].log \in Seq(LevelType)
      /\ srv[c].tx /\ ~srv[c].dead /\ Last(frames) \subseteq Writes
      /\ wk.depth = Len(frames)
  BY <1>1, OpenFacts
<1>3. Mirror(srv[c].log, frames, wk.sps) /\ Climbs(wk.sps, wk.seq)
  BY <1>1 DEF IInv, Mirrored
<1>4. /\ wk' = RollbackWorker(wk) /\ srv' = RollbackServer(wk)
      /\ failed' = failed \cup Last(frames) /\ frames' = Front(frames)
      /\ UNCHANGED <<throwing, late, store, issued, acked, unsure>>
  BY DEF Unwind
<1>5. /\ frames' \in Seq(SUBSET Writes) /\ Len(frames') = Len(frames) - 1
      /\ Parted(frames', (store \cup failed) \cup Last(frames), issued)
      /\ Last(frames) \cap (store \cup failed) = {}
      /\ \A w \in Last(frames) : w <= issued
  BY <1>1, <1>4, PartedFront DEF IInv, Apart
<1>6. Apart'
  <2>1. store' \cup failed' = (store \cup failed) \cup Last(frames)
    BY <1>4
  <2>2. QED
    BY <1>4, <1>5, <2>1 DEF IInv, Apart
<1>7. CASE Len(frames) = 1
  <2>1. wk' = Released(wk) /\ srv' = [srv EXCEPT ![c] = IdleConn]
    BY <1>2, <1>4, <1>7 DEF RollbackWorker, RollbackServer
  <2>2. wk'.depth = 0 /\ wk'.sps = <<>> /\ wk'.seq = wk.seq /\ wk' \in WorkerType
    BY <1>1, <2>1, ReleasedFacts
  <2>3. IdleConn \in ConnType /\ ~IdleConn.dead
    BY DEF IdleConn, ConnType
  <2>4. srv' \in [Conns -> ConnType] /\ \A d \in Conns : ~srv'[d].dead
    BY <1>1, <1>2, <2>1, <2>3 DEF IInv, Orderly
  <2>5. TypeOK'
    BY <1>2, <1>4, <1>5, <2>2, <2>4 DEF IInv, TypeOK
  <2>6. frames' = <<>>
    BY <1>5, <1>7, EmptySeq
  <2>7. DepthsAgree' /\ Mirrored' /\ Orderly' /\ Climbs(wk'.sps, wk'.seq)
    BY <1>4, <2>2, <2>4, <2>6 DEF IInv, DepthsAgree, Mirrored, Orderly, Climbs
  <2>8. QED
    BY <1>6, <2>5, <2>7 DEF IInv
<1>8. CASE Len(frames) # 1
  <2> DEFINE log1 == CutTo(srv[c].log, Last(wk.sps))
             sps1 == Front(wk.sps)
  <2>1. Len(frames) > 1 /\ Len(wk.sps) = Len(frames) - 1
    <3>1. \A k \in Nat \ {0} : k # 1 => k > 1
      OBVIOUS
    <3>2. Len(frames) > 1
      BY <1>2, <1>8, <3>1, Zenon
    <3>3. QED
      BY <3>2, <1>3 DEF Mirror
  <2>2. wk.sps # <<>>
    BY <1>2, <2>1
  <2>3. /\ HasLevel(srv[c].log, Last(wk.sps))
        /\ log1 \in Seq(LevelType)
        /\ Mirror(log1, frames', sps1)
    BY <1>1, <1>2, <1>3, <1>4, <2>1, MirrorCut
  <2>4. sps1 \in Seq(1..MaxSavepoints) /\ Climbs(sps1, wk.seq)
    BY <1>1, <1>3, <2>2, ClimbsFront
  <2>5. wk.depth > 1 /\ wk.depth # 0 /\ wk.depth - 1 \in Nat
    BY <1>2, <2>1
  <2>6. wk' = [wk EXCEPT !.depth = @ - 1, !.sps = sps1]
    BY <1>4, <2>2, <2>5 DEF RollbackWorker
  <2>7. srv' = [srv EXCEPT ![c].log = log1]
    BY <1>2, <1>4, <2>2, <2>3, <2>5 DEF RollbackServer, HasSavepoint
  <2> HIDE DEF log1, sps1
  <2>8. /\ wk'.depth = wk.depth - 1 /\ wk'.conn = c /\ wk'.seq = wk.seq
        /\ wk'.sps = sps1 /\ wk' \in WorkerType
    BY <1>1, <2>4, <2>5, <2>6 DEF WorkerType
  <2>9. /\ srv'[c].log = log1 /\ srv'[c].tx
        /\ \A d \in Conns : ~srv'[d].dead
        /\ srv' \in [Conns -> ConnType]
    BY <1>1, <1>2, <2>3, <2>7 DEF IInv, ConnType, Orderly
  <2>10. TypeOK'
    BY <1>2, <1>4, <1>5, <2>8, <2>9 DEF IInv, TypeOK
  <2>11. DepthsAgree' /\ Orderly'
    BY <1>2, <1>4, <1>5, <2>8, <2>9 DEF IInv, DepthsAgree, Orderly
  <2>12. Mirrored'
    BY <1>2, <2>3, <2>8, <2>9 DEF Mirrored
  <2>13. Climbs(wk'.sps, wk'.seq)
    BY <2>4, <2>8
  <2>14. QED
    BY <1>6, <2>10, <2>11, <2>12, <2>13 DEF IInv
<1>9. QED
  BY <1>7, <1>8

(* txCommit cannot throw: the worker and the server are never out of step. *)
LEMMA CommitNeverThrows ==
    ASSUME IInv, CommitThrows
    PROVE  FALSE
<1> DEFINE c == wk.conn
<1>1. frames \in Seq(SUBSET Writes) /\ frames # <<>> /\ wk.sps \in Seq(1..MaxSavepoints)
  BY DEF IInv, TypeOK, WorkerType, CommitThrows
<1>2. /\ Len(frames) \in Nat \ {0} /\ c \in Conns /\ srv[c].log \in Seq(LevelType)
      /\ srv[c].tx /\ ~srv[c].dead /\ wk.depth = Len(frames)
  BY <1>1, OpenFacts
<1>3. Mirror(srv[c].log, frames, wk.sps) /\ Climbs(wk.sps, wk.seq)
  BY <1>1 DEF IInv, Mirrored
<1>4. wk.depth > 1 /\ ~(wk.sps # <<>> /\ srv[c].tx /\ HasSavepoint(c, Last(wk.sps)))
  BY <1>2 DEF CommitThrows
<1>5. wk.sps # <<>>
  BY <1>2, <1>3, <1>4 DEF Mirror
<1>6. HasSavepoint(c, Last(wk.sps))
  BY <1>1, <1>2, <1>3, <1>4, MirrorCut DEF HasSavepoint
<1>7. QED
  BY <1>2, <1>4, <1>5, <1>6

(* A crash takes away every open callback. *)
LEMMA CrashPreserves ==
    ASSUME IInv, Crash
    PROVE  IInv'
<1>1. frames \in Seq(SUBSET Writes) /\ \A i \in 1..Len(frames) : frames[i] \subseteq Writes
  BY ElementOfSeq DEF IInv, TypeOK
<1>2. FrameWrites \subseteq Writes
  BY <1>1 DEF FrameWrites
<1>3. wk' = NewWorker /\ NewWorker \in WorkerType
      /\ wk'.depth = 0 /\ wk'.sps = <<>> /\ wk'.seq = 0
  BY BoundsAssumption, EmptySeq DEF Crash, NewWorker, WorkerType
<1>4. IdleConn \in ConnType /\ ~IdleConn.dead
  BY DEF IdleConn, ConnType
<1>5. TypeOK'
  BY <1>2, <1>3, <1>4, EmptySeq DEF IInv, TypeOK, Crash
<1>6. DepthsAgree' /\ Mirrored' /\ Orderly' /\ Climbs(wk'.sps, wk'.seq)
  BY <1>3, <1>4 DEF Crash, IInv, DepthsAgree, Mirrored, Orderly, Climbs
<1>7. Apart'
  <2>1. FrameWrites \cap store = {} /\ \A w \in FrameWrites : w <= issued
    BY DEF FrameWrites, IInv, Apart, Parted
  <2>2. Parted(frames', store' \cup failed', issued')
    BY DEF Crash, Parted
  <2>3. QED
    BY <2>1, <2>2 DEF Crash, IInv, Apart
<1>8. QED
  BY <1>5, <1>6, <1>7 DEF IInv

-----------------------------------------------------------------------------
(* The inductive invariant.                                                  *)

(* Initially no stack holds anything. *)
LEMMA InitHolds ==
    ASSUME Init PROVE IInv
<1>1. wk = NewWorker /\ NewWorker \in WorkerType
      /\ wk.depth = 0 /\ wk.sps = <<>> /\ wk.seq = 0
  BY BoundsAssumption, EmptySeq DEF Init, NewWorker, WorkerType
<1>2. IdleConn \in ConnType /\ ~IdleConn.dead
  BY DEF IdleConn, ConnType
<1>3. TypeOK
  <2>1. frames \in Seq(SUBSET Writes) /\ 0 \in 0..MaxWrites
    BY BoundsAssumption, EmptySeq DEF Init
  <2>2. srv \in [Conns -> ConnType]
    BY <1>2 DEF Init
  <2>3. QED
    BY <1>1, <2>1, <2>2 DEF Init, TypeOK
<1>4. DepthsAgree /\ Mirrored /\ Orderly /\ Climbs(wk.sps, wk.seq)
  BY <1>1, <1>2 DEF Init, DepthsAgree, Mirrored, Orderly, Climbs
<1>5. Apart
  BY DEF Init, Apart, Parted
<1>6. QED
  BY <1>3, <1>4, <1>5 DEF IInv

(* Every step of an orderly environment preserves the inductive invariant. *)
LEMMA NextPreserves ==
    ASSUME OrderlyFaults, IInv, [Next]_vars
    PROVE  IInv'
<1>1. CASE BeginOuter
  BY <1>1, BeginOuterPreserves
<1>2. CASE BeginNested
  BY <1>2, BeginNestedPreserves
<1>3. CASE WriteInTx
  BY <1>3, WriteInTxPreserves
<1>4. CASE WriteOnPool
  BY <1>4, WriteOnPoolPreserves
<1>5. CASE StatementError \/ Throw \/ Catch
  BY <1>5, ControlPreserves DEF StatementError, Throw, Catch
<1>6. CASE CommitOuter
  BY <1>6, CommitOuterPreserves
<1>7. CASE ReleaseNested
  BY <1>7, ReleaseNestedPreserves
<1>8. CASE CommitThrows
  BY <1>8, CommitNeverThrows
<1>9. CASE Unwind
  BY <1>9, UnwindPreserves
<1>10. CASE Crash
  BY <1>10, CrashPreserves
<1>11. CASE WriteDeadlocks \/ ExecDdl \/ LoseConn \/ LoseConnInCommit \/ BeginTimesOut
            \/ LateBegin
  BY <1>11 DEF OrderlyFaults, IInv, Orderly, WriteDeadlocks, ExecDdl, LoseConn,
               LoseConnInCommit, BeginTimesOut, LateBegin
<1>12. CASE UNCHANGED vars
  BY <1>12, ControlPreserves DEF vars, IInv, TypeOK
<1>13. QED
  BY <1>1, <1>2, <1>3, <1>4, <1>5, <1>6, <1>7, <1>8, <1>9, <1>10, <1>11, <1>12 DEF Next

(* In an orderly environment the worker's stacks, the server's undo log and
   the handler's callbacks stay in step (mysqlWorker.mjs txBegin, txCommit,
   txRollback under mysqlDatabase.js transaction). *)
THEOREM BridgeInvariant ==
    ASSUME OrderlyFaults
    PROVE  Spec => []IInv
<1>1. Init => IInv
  BY InitHolds
<1>2. IInv /\ [Next]_vars => IInv'
  BY NextPreserves
<1>3. QED
  BY <1>1, <1>2, PTL DEF Spec

(* The state keeps its shape: in particular the worker never refers to a
   connection outside the pool. *)
THEOREM BridgeTypes ==
    ASSUME OrderlyFaults
    PROVE  Spec => []TypeOK
<1>1. IInv => TypeOK
  BY DEF IInv
<1>2. QED
  BY <1>1, BridgeInvariant, PTL

(* What a transaction that threw wrote, at any depth, is never durable. *)
THEOREM FailedNeverDurable ==
    ASSUME OrderlyFaults
    PROVE  Spec => []FailedLeavesNothing
<1>1. IInv => FailedLeavesNothing
  BY DEF IInv, Apart, FailedLeavesNothing
<1>2. QED
  BY <1>1, BridgeInvariant, PTL

(* What a caller was told is committed is durable, across crashes too. *)
THEOREM AckedAlwaysDurable ==
    ASSUME OrderlyFaults
    PROVE  Spec => []AckedIsDurable
<1>1. IInv => AckedIsDurable
  BY DEF IInv, Apart, AckedIsDurable
<1>2. QED
  BY <1>1, BridgeInvariant, PTL

(* No other connection sees the writes of an open callback. *)
THEOREM OpenNeverVisible ==
    ASSUME OrderlyFaults
    PROVE  Spec => []OpenIsInvisible
<1>1. IInv => OpenIsInvisible
  BY DEF IInv, Apart, Parted, OpenIsInvisible, FrameWrites
<1>2. QED
  BY <1>1, BridgeInvariant, PTL

(* The worker's txDepth and the main thread's transactionDepth agree. *)
THEOREM DepthsAlwaysAgree ==
    ASSUME OrderlyFaults
    PROVE  Spec => []DepthsAgree
<1>1. IInv => DepthsAgree
  BY DEF IInv
<1>2. QED
  BY <1>1, BridgeInvariant, PTL

-----------------------------------------------------------------------------
(* Refinement.                                                               *)

(* Every step of the bridge is a step of NestedTx, or leaves its state alone. *)
LEMMA StepRefines ==
    ASSUME OrderlyFaults, IInv, [Next]_vars
    PROVE  [Abstract!Next]_(Abstract!vars)
<1> USE DEF Abstract!Next, Abstract!vars
<1>1. CASE BeginOuter \/ BeginNested
  <2>1. CASE BeginOuter
    BY <2>1 DEF BeginOuter, Abstract!Begin
  <2>2. CASE BeginNested
    <3>1. frames # <<>>
      BY <2>2 DEF IInv, DepthsAgree, BeginNested
    <3>2. ~srv[wk.conn].dead
      BY <3>1, OpenFacts
    <3>3. QED
      BY <2>2, <3>2 DEF BeginNested, Abstract!Begin
  <2>3. QED
    BY <1>1, <2>1, <2>2
<1>2. CASE WriteInTx
  <2>1. frames # <<>> /\ srv[wk.conn].tx
    <3>1. frames # <<>>
      BY <1>2 DEF IInv, DepthsAgree, WriteInTx, InTx
    <3>2. QED
      BY <3>1, OpenFacts
  <2>2. issued + 1 \in Writes
    BY <1>2, BoundsAssumption DEF IInv, TypeOK, WriteInTx, Writes
  <2>3. Abstract!WriteInside(issued + 1)
    BY <1>2, <2>1 DEF WriteInTx, Acknowledge, Abstract!WriteInside
  <2>4. QED
    BY <2>2, <2>3
<1>3. CASE WriteOnPool
  <2>1. frames = <<>>
    <3>1. SUFFICES ASSUME frames # <<>> PROVE FALSE
      OBVIOUS
    <3>2. wk.depth \in Nat \ {0} /\ wk.conn \in Conns
      BY <3>1, OpenFacts
    <3>3. QED
      BY <1>3, <3>2, ConnsAssumption DEF WriteOnPool, InTx
  <2>2. issued + 1 \in Writes
    BY <1>3, BoundsAssumption DEF IInv, TypeOK, WriteOnPool, Writes
  <2>3. Abstract!WriteAlone(issued + 1)
    BY <1>3, <2>1 DEF WriteOnPool, Acknowledge, Abstract!WriteAlone
  <2>4. QED
    BY <2>2, <2>3
<1>4. CASE StatementError \/ Throw \/ Catch \/ UNCHANGED vars
  BY <1>4 DEF StatementError, Throw, Catch, vars
<1>5. CASE CommitOuter
  BY <1>5, CommitOuterEffect DEF Abstract!CommitOuter, Abstract!Top, Last
<1>6. CASE ReleaseNested
  <2>1. frames # <<>> /\ wk.depth > 1 /\ Returns /\ UNCHANGED <<store, failed>>
    BY <1>6 DEF ReleaseNested
  <2>2. Len(frames) > 1 /\ Len(frames) # 1
    BY <2>1, DeeperFacts
  <2>3. Abstract!CommitInner
    BY <2>1, <2>2 DEF Returns, Front, Last, Abstract!CommitInner, Abstract!Pop, Abstract!Top
  <2>4. QED
    BY <2>3
<1>7. CASE CommitThrows
  BY <1>7, CommitNeverThrows
<1>8. CASE Unwind
  BY <1>8 DEF Unwind, Front, Last, Abstract!Abort, Abstract!Pop, Abstract!Top
<1>9. CASE Crash
  <2>1. CASE frames = <<>>
    BY <1>9, <2>1 DEF Crash, FrameWrites
  <2>2. CASE frames # <<>>
    BY <1>9, <2>2 DEF Crash, FrameWrites, Abstract!AbortAll
  <2>3. QED
    BY <2>1, <2>2
<1>10. CASE WriteDeadlocks \/ ExecDdl \/ LoseConn \/ LoseConnInCommit \/ BeginTimesOut
            \/ LateBegin
  BY <1>10 DEF OrderlyFaults, IInv, Orderly, WriteDeadlocks, ExecDdl, LoseConn,
               LoseConnInCommit, BeginTimesOut, LateBegin
<1>11. QED
  BY <1>1, <1>2, <1>3, <1>4, <1>5, <1>6, <1>7, <1>8, <1>9, <1>10 DEF Next

(* The bridge implements nested all-or-nothing transactions. *)
THEOREM BridgeImplementsNestedTx ==
    ASSUME OrderlyFaults
    PROVE  Spec => Implements
<1>1. Init => Abstract!Init
  BY DEF Init, Abstract!Init
<1>2. IInv /\ [Next]_vars => [Abstract!Next]_(Abstract!vars)
  BY StepRefines
<1>3. QED
  BY <1>1, <1>2, BridgeInvariant, PTL DEF Spec, Implements, Abstract!Spec

-----------------------------------------------------------------------------
(* Without nesting: dropped connections and late answers.                    *)
(*                                                                          *)
(* A handler that opens no transaction inside another one may lose its      *)
(* connection at any time, have its txBegin answered late, or die.  Late    *)
(* answers leave the worker deeper than the handler (DepthsAgree fails),    *)
(* but a COMMIT is only ever sent for a transaction that its own txBegin    *)
(* opened, whose log then holds just the writes of the callback (FlatInv).  *)

FlatFaults == /\ MaxDepth <= 1
              /\ "deadlock" \notin Faults
              /\ "ddl" \notin Faults

(* Open, durable, failed and doubtful writes stay apart and were issued before
   the write numbered top + 1; each doubtful group is durable or absent. *)
Separate(F, S, X, U, top) ==
    /\ \A x \in F \cup S \cup X \cup UNION U : x \in Nat /\ x <= top
    /\ F \cap (S \cup X) = {} /\ X \cap S = {}
    /\ \A g \in U : g \cap F = {} /\ (g \subseteq S \/ g \cap S = {})

(* The records have the fields the bridge reads and writes. *)
WorkerShape(w) == DOMAIN w = {"depth", "conn", "sps", "seq", "held"} /\ w.depth \in Nat
ServerShape(s) == DOMAIN s = Conns /\ \A c \in Conns : DOMAIN s[c] = {"tx", "dead", "log"}

(* The worker's connection is lost or inside a transaction. *)
Attached(w, s) == w.depth > 0 => w.conn \in Conns /\ (s[w.conn].dead \/ s[w.conn].tx)

(* What a COMMIT would make durable is what the callback wrote. *)
OwnLog == frames # <<>> /\ wk.depth = 1 /\ ~srv[wk.conn].dead
             => srv[wk.conn].log = <<[sp |-> 0, ws |-> frames[1]]>>

FlatInv == /\ frames \in Seq(SUBSET Nat) /\ Len(frames) <= 1 /\ issued \in Nat
           /\ late \subseteq Conns
           /\ WorkerShape(wk) /\ ServerShape(srv) /\ Attached(wk, srv)
           /\ frames # <<>> => wk.depth > 0
           /\ OwnLog
           /\ Separate(FrameWrites, store, failed, unsure, issued)

(* Writes move from one of the four places to another. *)
LEMMA SeparateMoves ==
    ASSUME NEW F, NEW S, NEW X, NEW U, NEW top \in Nat, Separate(F, S, X, U, top)
    PROVE  /\ Separate(F \cup {top + 1}, S, X, U, top + 1)
           /\ Separate(F, S \cup {top + 1}, X, U, top + 1)
           /\ Separate(F, S, X, U, top + 1)
           /\ Separate({}, S \cup F, X, U, top)
           /\ Separate({}, S, X \cup F, U, top)
           /\ Separate({}, S, X, U \cup {F}, top)
           /\ Separate({}, S \cup F, X, U \cup {F}, top)
<1>1. \A x \in F \cup S \cup X \cup UNION U : x # top + 1 /\ x <= top + 1
  BY DEF Separate
<1>2. Separate(F \cup {top + 1}, S, X, U, top + 1)
  BY <1>1 DEF Separate
<1>3. Separate(F, S \cup {top + 1}, X, U, top + 1)
  BY <1>1 DEF Separate
<1>4. Separate(F, S, X, U, top + 1)
  BY <1>1 DEF Separate
<1>5. Separate({}, S \cup F, X, U, top) /\ Separate({}, S, X \cup F, U, top)
  BY DEF Separate
<1>6. UNION (U \cup {F}) = (UNION U) \cup F
  OBVIOUS
<1>7. Separate({}, S, X, U \cup {F}, top)
  BY <1>6 DEF Separate
<1>8. Separate({}, S \cup F, X, U \cup {F}, top)
  BY <1>6 DEF Separate
<1>9. QED
  BY <1>2, <1>3, <1>4, <1>5, <1>7, <1>8

(* A stack of at most one callback. *)
LEMMA OneFrame ==
    ASSUME frames \in Seq(SUBSET Nat), Len(frames) <= 1
    PROVE  /\ frames = <<>> => Len(frames) = 0 /\ FrameWrites = {}
           /\ frames # <<>> => /\ Len(frames) = 1 /\ Last(frames) = frames[1]
                               /\ FrameWrites = frames[1] /\ frames[1] \subseteq Nat
                               /\ Front(frames) = <<>>
<1>1. Len(frames) \in Nat
  OBVIOUS
<1>2. CASE frames = <<>>
  BY <1>2 DEF FrameWrites
<1>3. CASE frames # <<>>
  <2>1. Len(frames) = 1
    <3>1. PICK n : n = Len(frames)
      OBVIOUS
    <3>2. n # 0
      BY <1>3, <3>1, EmptySeq
    <3>3. n \in Nat /\ n <= 1
      BY <1>1, <3>1
    <3>4. n = 1
      BY <3>2, <3>3
    <3>5. QED
      BY <3>1, <3>4
  <2>2. frames[1] \subseteq Nat /\ Last(frames) = frames[1]
    BY <2>1, ElementOfSeq DEF Last
  <2>3. FrameWrites = frames[1]
    <3>1. {frames[i] : i \in 1..1} = {frames[1]}
      OBVIOUS
    <3>2. QED
      BY <2>1, <3>1 DEF FrameWrites
  <2>4. Front(frames) = <<>>
    <3>1. Front(frames) \in Seq(SUBSET Nat) /\ Len(Front(frames)) = 0
      BY <1>3, <2>1, FrontFacts
    <3>2. QED
      BY <3>1, EmptySeq
  <2>5. QED
    BY <1>3, <2>1, <2>2, <2>3, <2>4
<1>4. QED
  BY <1>2, <1>3

(* A rollback, also one that throws, leaves the worker on a lost connection, in
   a transaction, or on none. *)
LEMMA RollbackAttached ==
    ASSUME WorkerShape(wk), ServerShape(srv), NEW w, WorkerShape(w), w.conn = wk.conn,
           Attached(w, srv)
    PROVE  /\ WorkerShape(RollbackWorker(w)) /\ ServerShape(RollbackServer(w))
           /\ Attached(RollbackWorker(w), RollbackServer(w))
<1>1. CASE w.depth = 0
  BY <1>1 DEF RollbackWorker, RollbackServer
<1>2. ASSUME w.depth > 0
      PROVE  w.depth \in Nat /\ w.depth # 0 /\ w.conn \in Conns /\ w.conn # NoConn
             /\ (srv[w.conn].dead \/ srv[w.conn].tx)
  BY <1>2, ConnsAssumption DEF WorkerShape, Attached
<1>3. CASE w.depth > 0 /\ srv[w.conn].dead
  <2>1. RollbackServer(w) = srv
    BY <1>2, <1>3 DEF RollbackServer
  <2>2. PICK r : r = RollbackWorker(w)
    OBVIOUS
  <2>3. DOMAIN r = DOMAIN w /\ r.depth = w.depth - 1 /\ r.conn = w.conn
    BY <1>2, <1>3, <2>2 DEF RollbackWorker, WorkerShape
  <2>4. r.depth \in Nat
    BY <1>2, <1>3, <2>3
  <2>5. QED
    BY <1>2, <1>3, <2>1, <2>2, <2>3, <2>4 DEF WorkerShape, Attached
<1>4. CASE w.depth > 1 /\ w.sps # <<>> /\ ~srv[w.conn].dead
  <2>1. w.depth > 0
    BY <1>4 DEF WorkerShape
  <2>2. PICK r : r = RollbackWorker(w)
    OBVIOUS
  <2>3. DOMAIN r = DOMAIN w /\ r.depth = w.depth - 1 /\ r.conn = w.conn
    BY <1>2, <1>4, <2>1, <2>2 DEF RollbackWorker, WorkerShape
  <2>4. r.depth \in Nat
    BY <1>2, <2>1, <2>3
  <2>5. PICK s : s = RollbackServer(w)
    OBVIOUS
  <2>6. \/ s = srv
        \/ s = [srv EXCEPT ![w.conn].log = CutTo(srv[w.conn].log, Last(w.sps))]
    BY <1>2, <1>4, <2>1, <2>5 DEF RollbackServer
  <2>7. ServerShape(s) /\ s[w.conn].tx = srv[w.conn].tx
    BY <1>2, <2>1, <2>6 DEF ServerShape
  <2>8. QED
    BY <1>2, <1>4, <2>1, <2>2, <2>3, <2>4, <2>5, <2>7 DEF WorkerShape, Attached
<1>5. CASE w.depth > 0 /\ ~(w.depth > 1 /\ w.sps # <<>>) /\ ~srv[w.conn].dead
  <2>1. RollbackWorker(w) = Released(w) /\ RollbackServer(w) = [srv EXCEPT ![w.conn] = IdleConn]
    BY <1>2, <1>5 DEF RollbackWorker, RollbackServer
  <2>2. PICK r : r = Released(w)
    OBVIOUS
  <2>3. DOMAIN r = DOMAIN w /\ r.depth = 0
    BY <2>2 DEF Released, WorkerShape
  <2>4. ServerShape([srv EXCEPT ![w.conn] = IdleConn])
    BY <1>2, <1>5 DEF ServerShape, IdleConn
  <2>5. QED
    BY <2>1, <2>2, <2>3, <2>4 DEF WorkerShape, Attached
<1>6. w.depth \in Nat
  BY DEF WorkerShape
<1>7. QED
  BY <1>1, <1>3, <1>4, <1>5, <1>6

LEMMA FlatInit == ASSUME Init PROVE FlatInv
<1>1. frames = <<>> /\ Len(frames) = 0 /\ frames \in Seq(SUBSET Nat) /\ FrameWrites = {}
  BY EmptySeq DEF Init, FrameWrites
<1>2. WorkerShape(wk) /\ ServerShape(srv) /\ wk.depth = 0
  BY DEF Init, WorkerShape, ServerShape, NewWorker, IdleConn
<1>3. Separate({}, {}, {}, {}, 0)
  BY DEF Separate
<1>4. QED
  BY <1>1, <1>2, <1>3 DEF FlatInv, Init, Attached, OwnLog

(* A step after which no callback is open. *)
LEMMA FlatClosed ==
    ASSUME frames' = <<>>, late' \subseteq Conns, issued' \in Nat,
           WorkerShape(wk'), ServerShape(srv'), Attached(wk', srv'),
           NEW F, Separate(F, store', failed', unsure', issued')
    PROVE  FlatInv'
<1>1. frames' \in Seq(SUBSET Nat) /\ Len(frames') = 0 /\ FrameWrites' = {}
  BY EmptySeq DEF FrameWrites
<1>2. Separate({}, store', failed', unsure', issued')
  BY DEF Separate
<1>3. QED
  BY <1>1, <1>2 DEF FlatInv, OwnLog

(* Steps that only touch who throws, who is late and what is acknowledged. *)
LEMMA FlatControl ==
    ASSUME FlatInv, late' \subseteq Conns,
           UNCHANGED <<frames, wk, srv, store, issued, failed, unsure>>
    PROVE  FlatInv'
<1>1. FrameWrites' = FrameWrites
  BY DEF FrameWrites
<1>2. QED
  BY <1>1 DEF FlatInv, OwnLog

(* The stack with its first callback. *)
LEMMA FirstFrame ==
    ASSUME NEW s, s = <<>>, NEW fr, fr = Append(s, {})
    PROVE  /\ fr \in Seq(SUBSET Nat) /\ Len(fr) = 1 /\ fr[1] = {} /\ fr # <<>>
           /\ UNION {fr[i] : i \in 1..Len(fr)} = {}
<1>1. fr = <<{}>>
  OBVIOUS
<1>2. {} \in SUBSET Nat
  OBVIOUS
<1>3. fr \in Seq(SUBSET Nat) /\ Len(fr) = 1 /\ fr[1] = {} /\ fr # <<>>
  BY <1>1, <1>2
<1>4. QED
  BY <1>3

LEMMA FlatBegins ==
    ASSUME FlatInv, MaxDepth <= 1, BeginOuter \/ BeginNested
    PROVE  FlatInv'
<1>1. frames = <<>>
  <2>1. Len(frames) = 0
    <3>1. PICK n : n = Len(frames)
      OBVIOUS
    <3>2. n < MaxDepth
      BY <3>1 DEF BeginOuter, BeginNested
    <3>3. n \in Nat
      BY <3>1 DEF FlatInv
    <3>4. n = 0
      BY <3>2, <3>3, BoundsAssumption
    <3>5. QED
      BY <3>1, <3>4
  <2>2. QED
    BY <2>1, EmptySeq DEF FlatInv
<1>2. Separate({}, store, failed, unsure, issued)
  BY DEF FlatInv, Separate
<1>3. CASE BeginOuter
  <2>1. PICK c \in FreeConns :
           /\ wk' = [wk EXCEPT !.depth = 1, !.conn = c, !.sps = <<>>, !.held = @ \cup {c}]
           /\ srv' = [srv EXCEPT ![c] = OpenConn]
    BY <1>3 DEF BeginOuter
  <2>2. c \in Conns
    BY DEF FreeConns
  <2>3. WorkerShape(wk') /\ wk'.depth = 1 /\ wk'.conn = c
    BY <2>1 DEF FlatInv, WorkerShape
  <2>4. /\ ServerShape(srv') /\ srv'[c].tx /\ srv'[c].log = <<[sp |-> 0, ws |-> {}]>>
    BY <2>1, <2>2 DEF FlatInv, ServerShape, OpenConn, Level
  <2>5. /\ frames' = Append(frames, {})
        /\ UNCHANGED <<late, store, issued, failed, unsure>>
    BY <1>3 DEF BeginOuter
  <2>6. /\ frames' \in Seq(SUBSET Nat) /\ Len(frames') = 1 /\ frames'[1] = {} /\ frames' # <<>>
        /\ FrameWrites' = {}
    <3>1. PICK fr : fr = frames'
      OBVIOUS
    <3>2. /\ fr \in Seq(SUBSET Nat) /\ Len(fr) = 1 /\ fr[1] = {} /\ fr # <<>>
          /\ UNION {fr[i] : i \in 1..Len(fr)} = {}
      <4>1. fr = Append(frames, {})
        BY <2>5, <3>1
      <4>2. QED
        BY <1>1, <4>1, FirstFrame
    <3>3. FrameWrites' = UNION {fr[i] : i \in 1..Len(fr)}
      BY <3>1 DEF FrameWrites
    <3>4. QED
      BY <3>1, <3>2, <3>3
  <2>7. Attached(wk', srv') /\ OwnLog'
    BY <2>2, <2>3, <2>4, <2>6 DEF Attached, OwnLog
  <2>8. QED
    BY <1>2, <2>3, <2>4, <2>5, <2>6, <2>7 DEF FlatInv
<1>4. CASE BeginNested /\ srv[wk.conn].dead
  <2>1. /\ wk' = [wk EXCEPT !.seq = @ + 1]
        /\ UNCHANGED <<frames, srv, late, store, issued, failed, unsure>>
    BY <1>4 DEF BeginNested
  <2>2. WorkerShape(wk') /\ wk'.depth = wk.depth /\ wk'.conn = wk.conn
    BY <2>1 DEF FlatInv, WorkerShape
  <2>3. Attached(wk', srv')
    BY <2>1, <2>2 DEF FlatInv, Attached
  <2>4. QED
    BY <1>1, <1>2, <2>1, <2>2, <2>3, FlatClosed DEF FlatInv
<1>5. CASE BeginNested /\ ~srv[wk.conn].dead
  <2>1. /\ wk' = [wk EXCEPT !.depth = @ + 1, !.seq = @ + 1, !.sps = Append(@, wk.seq + 1)]
        /\ srv' = IF srv[wk.conn].tx
                  THEN [srv EXCEPT ![wk.conn].log = Append(@, Level(wk.seq + 1))]
                  ELSE srv
        /\ frames' = Append(frames, {}) /\ wk.depth > 0
        /\ UNCHANGED <<late, store, issued, failed, unsure>>
    BY <1>5 DEF BeginNested
  <2>2. WorkerShape(wk') /\ wk'.depth = wk.depth + 1 /\ wk'.conn = wk.conn
    BY <2>1 DEF FlatInv, WorkerShape
  <2>3. wk.conn \in Conns /\ (srv[wk.conn].dead \/ srv[wk.conn].tx)
    BY <2>1 DEF FlatInv, Attached
  <2>4. ServerShape(srv') /\ srv'[wk.conn].tx
    BY <1>5, <2>1, <2>3 DEF FlatInv, ServerShape
  <2>5. /\ frames' \in Seq(SUBSET Nat) /\ Len(frames') = 1 /\ frames' # <<>>
        /\ FrameWrites' = {}
    <3>1. PICK fr : fr = frames'
      OBVIOUS
    <3>2. /\ fr \in Seq(SUBSET Nat) /\ Len(fr) = 1 /\ fr # <<>>
          /\ UNION {fr[i] : i \in 1..Len(fr)} = {}
      <4>1. fr = Append(frames, {})
        BY <2>1, <3>1
      <4>2. QED
        BY <1>1, <4>1, FirstFrame
    <3>3. FrameWrites' = UNION {fr[i] : i \in 1..Len(fr)}
      BY <3>1 DEF FrameWrites
    <3>4. QED
      BY <3>1, <3>2, <3>3
  <2>6. wk'.depth > 0 /\ wk'.depth # 1
    BY <2>1, <2>2 DEF FlatInv, WorkerShape
  <2>7. Attached(wk', srv') /\ OwnLog'
    BY <2>2, <2>3, <2>4, <2>6 DEF Attached, OwnLog
  <2>8. QED
    BY <1>2, <2>1, <2>2, <2>4, <2>5, <2>6, <2>7 DEF FlatInv
<1>6. QED
  BY <1>3, <1>4, <1>5

LEMMA FlatWrites ==
    ASSUME FlatInv, WriteInTx \/ WriteOnPool
    PROVE  FlatInv'
<1> DEFINE c == wk.conn
           w == issued + 1
<1>1. Separate(FrameWrites, store, failed, unsure, issued) /\ issued \in Nat /\ w \in Nat
  BY DEF FlatInv
<1>2. /\ Separate(FrameWrites \cup {w}, store, failed, unsure, w)
      /\ Separate(FrameWrites, store \cup {w}, failed, unsure, w)
      /\ Separate(FrameWrites, store, failed, unsure, w)
  BY <1>1, SeparateMoves
<1>3. CASE WriteInTx
  <2>1. /\ wk.depth > 0 /\ ~srv[c].dead /\ issued' = w
        /\ UNCHANGED <<wk, late, failed, unsure>> /\ Acknowledge(w)
    BY <1>3 DEF WriteInTx, InTx
  <2>2. c \in Conns /\ srv[c].tx
    BY <2>1 DEF FlatInv, Attached
  <2>3. srv' = [srv EXCEPT ![c].log[Len(srv[c].log)].ws = @ \cup {w}] /\ store' = store
    BY <1>3, <2>2 DEF WriteInTx
  <2>4. ServerShape(srv') /\ srv'[c].tx /\ (srv'[c].dead <=> srv[c].dead)
    BY <2>2, <2>3 DEF FlatInv, ServerShape
  <2>5. Attached(wk', srv')
    BY <2>1, <2>2, <2>4 DEF Attached
  <2>6. CASE frames = <<>>
    <3>1. frames' = <<>>
      BY <2>1, <2>6 DEF Acknowledge
    <3>2. QED
      BY <1>1, <1>2, <2>1, <2>3, <2>4, <2>5, <3>1, FlatClosed DEF FlatInv
  <2>7. CASE frames # <<>>
    <3>1. /\ Len(frames) = 1 /\ FrameWrites = frames[1] /\ frames[1] \subseteq Nat
          /\ frames \in Seq(SUBSET Nat)
      BY <2>7, OneFrame DEF FlatInv
    <3>2. frames' = [frames EXCEPT ![1] = frames[1] \cup {w}]
      BY <2>1, <2>7, <3>1 DEF Acknowledge
    <3>3. /\ frames' \in Seq(SUBSET Nat) /\ Len(frames') = 1
          /\ frames'[1] = frames[1] \cup {w}
      <4>1. frames[1] \cup {w} \in SUBSET Nat /\ 1 \in 1..Len(frames)
        BY <1>1, <3>1
      <4>2. QED
        BY <3>1, <3>2, <4>1, TouchFacts
    <3>4. FrameWrites' = FrameWrites \cup {w} /\ frames' # <<>>
      <4>1. {frames'[i] : i \in 1..1} = {frames'[1]}
        OBVIOUS
      <4>2. FrameWrites' = frames'[1]
        BY <3>3, <4>1 DEF FrameWrites
      <4>3. frames' # <<>>
        BY <3>3
      <4>4. QED
        BY <3>1, <3>3, <4>2, <4>3
    <3>5. OwnLog'
      <4>1. SUFFICES ASSUME wk.depth = 1
                     PROVE  srv'[c].log = <<[sp |-> 0, ws |-> frames'[1]]>>
        BY <2>1 DEF OwnLog
      <4>2. srv[c].log = <<[sp |-> 0, ws |-> frames[1]]>>
        BY <2>1, <2>7, <4>1 DEF FlatInv, OwnLog
      <4>3. Len(srv[c].log) = 1
        BY <4>2
      <4>4. srv'[c].log = [srv[c].log EXCEPT ![1].ws = @ \cup {w}]
        BY <2>2, <2>3, <4>3 DEF FlatInv, ServerShape
      <4>5. PICK L : L = srv[c].log
        OBVIOUS
      <4>6. [L EXCEPT ![1].ws = @ \cup {w}] = <<[sp |-> 0, ws |-> frames[1] \cup {w}]>>
        BY <4>2, <4>5
      <4>7. QED
        BY <3>3, <4>4, <4>5, <4>6
    <3>6. Separate(FrameWrites', store', failed', unsure', issued')
      BY <1>2, <2>1, <2>3, <3>4
    <3>7. WorkerShape(wk') /\ late' \subseteq Conns /\ issued' \in Nat /\ wk'.depth > 0
      BY <1>1, <2>1 DEF FlatInv
    <3>8. QED
      BY <2>4, <2>5, <3>3, <3>5, <3>6, <3>7 DEF FlatInv
  <2>8. QED
    BY <2>6, <2>7
<1>4. CASE WriteOnPool
  <2>1. wk.depth = 0
    BY <1>4, ConnsAssumption DEF WriteOnPool, InTx, FlatInv, Attached, WorkerShape
  <2>2. frames = <<>>
    BY <2>1 DEF FlatInv
  <2>3. /\ frames' = <<>> /\ issued' = w /\ store' = store \cup {w}
        /\ UNCHANGED <<wk, late, srv, failed, unsure>>
    BY <1>4, <2>2 DEF WriteOnPool, Acknowledge
  <2>4. QED
    BY <1>1, <1>2, <2>3, FlatClosed DEF FlatInv
<1>5. QED
  BY <1>3, <1>4

LEMMA FlatCommits ==
    ASSUME FlatInv, CommitOuter \/ ReleaseNested
    PROVE  FlatInv'
<1>1. /\ frames # <<>> /\ Len(frames) = 1 /\ frames' = <<>>
      /\ FrameWrites = frames[1] /\ UNCHANGED <<late, issued, failed, unsure>>
  BY OneFrame DEF CommitOuter, ReleaseNested, Returns, FlatInv
<1>2. Separate(FrameWrites, store, failed, unsure, issued) /\ issued \in Nat /\ late \subseteq Conns
  BY DEF FlatInv
<1>3. CASE CommitOuter
  <2>1. /\ wk.depth = 1 /\ ~srv[wk.conn].dead
        /\ store' = store \cup LogWrites(wk.conn)
        /\ srv' = [srv EXCEPT ![wk.conn] = IdleConn] /\ wk' = Released(wk)
    BY <1>3 DEF CommitOuter
  <2>2. LogWrites(wk.conn) = FrameWrites
    <3>1. PICK L : L = srv[wk.conn].log
      OBVIOUS
    <3>2. L = <<[sp |-> 0, ws |-> frames[1]]>>
      BY <1>1, <2>1, <3>1 DEF FlatInv, OwnLog
    <3>3. UNION {L[i].ws : i \in 1..Len(L)} = frames[1]
      <4>1. Len(L) = 1 /\ L[1].ws = frames[1]
        BY <3>2
      <4>2. {L[i].ws : i \in 1..1} = {L[1].ws}
        OBVIOUS
      <4>3. QED
        BY <4>1, <4>2
    <3>4. QED
      BY <1>1, <3>1, <3>3 DEF LogWrites
  <2>3. WorkerShape(wk') /\ wk'.depth = 0
    BY <2>1 DEF FlatInv, WorkerShape, Released
  <2>4. ServerShape(srv')
    BY <2>1 DEF FlatInv, ServerShape, IdleConn
  <2>5. Attached(wk', srv')
    BY <2>3 DEF Attached
  <2>6. Separate({}, store \cup FrameWrites, failed, unsure, issued)
    BY <1>2, SeparateMoves
  <2>7. QED
    BY <1>1, <1>2, <2>1, <2>2, <2>3, <2>4, <2>5, <2>6, FlatClosed
<1>4. CASE ReleaseNested
  <2>1. /\ wk.depth > 1 /\ ~srv[wk.conn].dead /\ srv[wk.conn].tx /\ store' = store
        /\ srv' = [srv EXCEPT ![wk.conn].log = Merge(@)]
        /\ wk' = [wk EXCEPT !.depth = @ - 1, !.sps = Front(@)]
    BY <1>4 DEF ReleaseNested
  <2>2. WorkerShape(wk') /\ wk'.conn = wk.conn
    BY <2>1 DEF FlatInv, WorkerShape
  <2>3. wk.conn \in Conns
    BY <2>1 DEF FlatInv, Attached, WorkerShape
  <2>4. ServerShape(srv') /\ srv'[wk.conn].tx
    BY <2>1, <2>3 DEF FlatInv, ServerShape
  <2>5. Attached(wk', srv')
    BY <2>2, <2>3, <2>4 DEF Attached
  <2>6. QED
    BY <1>1, <1>2, <2>1, <2>2, <2>4, <2>5, FlatClosed
<1>5. QED
  BY <1>3, <1>4

LEMMA FlatFails ==
    ASSUME FlatInv, CommitThrows \/ Unwind
    PROVE  FlatInv'
<1>1. /\ frames # <<>> /\ Len(frames) = 1 /\ frames' = <<>>
      /\ failed' = failed \cup FrameWrites /\ UNCHANGED <<late, store, issued, unsure>>
  BY OneFrame DEF CommitThrows, Unwind, FlatInv
<1>2. Separate({}, store', failed', unsure', issued') /\ issued' \in Nat /\ late' \subseteq Conns
  <2>1. Separate(FrameWrites, store, failed, unsure, issued) /\ issued \in Nat
        /\ late \subseteq Conns
    BY DEF FlatInv
  <2>2. Separate({}, store, failed \cup FrameWrites, unsure, issued)
    BY <2>1, SeparateMoves
  <2>3. QED
    BY <1>1, <2>1, <2>2
<1>3. WorkerShape(wk) /\ ServerShape(srv) /\ Attached(wk, srv)
  BY DEF FlatInv
<1>4. \E w : /\ WorkerShape(w) /\ w.conn = wk.conn /\ Attached(w, srv)
             /\ wk' = RollbackWorker(w) /\ srv' = RollbackServer(w)
  <2>1. CASE Unwind
    BY <1>3, <2>1 DEF Unwind
  <2>2. CASE CommitThrows /\ wk.depth = 0
    BY <1>3, <2>2 DEF CommitThrows
  <2>3. CASE CommitThrows /\ wk.depth # 0
    <3>1. PICK popped : popped = IF wk.depth > 1 /\ wk.sps # <<>> THEN Front(wk.sps) ELSE wk.sps
      OBVIOUS
    <3>2. PICK w : w = [wk EXCEPT !.depth = @ - 1, !.sps = popped]
      OBVIOUS
    <3>3. wk' = RollbackWorker(w) /\ srv' = RollbackServer(w)
      BY <2>3, <3>1, <3>2 DEF CommitThrows
    <3>4. WorkerShape(w) /\ w.conn = wk.conn /\ w.depth = wk.depth - 1
      BY <1>3, <2>3, <3>2 DEF WorkerShape
    <3>5. Attached(w, srv)
      BY <1>3, <3>4 DEF Attached, WorkerShape
    <3>6. QED
      BY <3>3, <3>4, <3>5
  <2>4. QED
    BY <2>1, <2>2, <2>3
<1>5. WorkerShape(wk') /\ ServerShape(srv') /\ Attached(wk', srv')
  BY <1>3, <1>4, RollbackAttached
<1>6. QED
  BY <1>1, <1>2, <1>5, FlatClosed

LEMMA FlatLoses ==
    ASSUME FlatInv, LoseConn
    PROVE  FlatInv'
<1>1. /\ wk.depth > 0 /\ srv' = [srv EXCEPT ![wk.conn] = [IdleConn EXCEPT !.dead = TRUE]]
      /\ wk' = [wk EXCEPT !.held = @ \ {wk.conn}]
      /\ UNCHANGED <<frames, late, store, issued, failed, unsure>>
  BY DEF LoseConn, InTx
<1>2. wk.conn \in Conns
  BY <1>1 DEF FlatInv, Attached
<1>3. WorkerShape(wk') /\ wk'.conn = wk.conn /\ wk'.depth = wk.depth
  BY <1>1 DEF FlatInv, WorkerShape
<1>4. ServerShape(srv') /\ srv'[wk.conn].dead
  BY <1>1, <1>2 DEF FlatInv, ServerShape, IdleConn
<1>5. Attached(wk', srv') /\ OwnLog'
  BY <1>2, <1>3, <1>4 DEF Attached, OwnLog
<1>6. FrameWrites' = FrameWrites
  BY <1>1 DEF FrameWrites
<1>7. QED
  BY <1>1, <1>3, <1>4, <1>5, <1>6 DEF FlatInv

LEMMA FlatDoubts ==
    ASSUME FlatInv, LoseConnInCommit
    PROVE  FlatInv'
<1>1. /\ wk.depth = 1 /\ ~srv[wk.conn].dead /\ frames # <<>>
      /\ store' \in {store, store \cup LogWrites(wk.conn)}
      /\ srv' = [srv EXCEPT ![wk.conn] = [IdleConn EXCEPT !.dead = TRUE]]
      /\ wk' = [wk EXCEPT !.depth = 0, !.held = @ \ {wk.conn}]
      /\ srv[wk.conn].tx => unsure' = unsure \cup {Last(frames)} /\ failed' = failed
      /\ frames' = Front(frames)
      /\ UNCHANGED <<late, issued>>
  BY DEF LoseConnInCommit
<1>2. FrameWrites = frames[1] /\ Last(frames) = frames[1] /\ frames' = <<>>
  BY <1>1, OneFrame DEF FlatInv
<1>2a. unsure' = unsure \cup {Last(frames)} /\ failed' = failed
  BY <1>1 DEF FlatInv, Attached
<1>3. LogWrites(wk.conn) = FrameWrites
  <2>1. PICK L : L = srv[wk.conn].log
    OBVIOUS
  <2>2. L = <<[sp |-> 0, ws |-> frames[1]]>>
    BY <1>1, <1>2, <2>1 DEF FlatInv, OwnLog
  <2>3. UNION {L[i].ws : i \in 1..Len(L)} = frames[1]
    <3>1. Len(L) = 1 /\ L[1].ws = frames[1]
      BY <2>2
    <3>2. {L[i].ws : i \in 1..1} = {L[1].ws}
      OBVIOUS
    <3>3. QED
      BY <3>1, <3>2
  <2>4. QED
    BY <1>2, <2>1, <2>3 DEF LogWrites
<1>4. WorkerShape(wk') /\ wk'.depth = 0
  BY <1>1 DEF FlatInv, WorkerShape
<1>5. ServerShape(srv') /\ Attached(wk', srv')
  BY <1>1, <1>4 DEF FlatInv, ServerShape, IdleConn, Attached
<1>6. Separate(FrameWrites, store, failed, unsure, issued) /\ issued \in Nat /\ late \subseteq Conns
  BY DEF FlatInv
<1>7. /\ Separate({}, store, failed, unsure \cup {FrameWrites}, issued)
      /\ Separate({}, store \cup FrameWrites, failed, unsure \cup {FrameWrites}, issued)
  BY <1>6, SeparateMoves
<1>8. Separate({}, store', failed', unsure', issued')
  BY <1>1, <1>2, <1>3, <1>2a, <1>7
<1>9. QED
  BY <1>1, <1>2, <1>4, <1>5, <1>6, <1>8, FlatClosed

LEMMA FlatLate ==
    ASSUME FlatInv, LateBegin
    PROVE  FlatInv'
<1>1. PICK c \in late :
         /\ late' = late \ {c} /\ srv' = [srv EXCEPT ![c] = OpenConn]
         /\ wk' = [wk EXCEPT !.depth = @ + 1, !.conn = c, !.sps = <<>>, !.held = @ \cup {c}]
  BY DEF LateBegin
<1>2. c \in Conns /\ UNCHANGED <<frames, store, issued, failed, unsure>>
  BY DEF LateBegin, FlatInv
<1>3. WorkerShape(wk') /\ wk'.conn = c /\ wk'.depth = wk.depth + 1
  BY <1>1 DEF FlatInv, WorkerShape
<1>4. ServerShape(srv') /\ srv'[c].tx
  BY <1>1, <1>2 DEF FlatInv, ServerShape, OpenConn
<1>5. Attached(wk', srv')
  BY <1>2, <1>3, <1>4 DEF Attached
<1>6. frames' # <<>> => wk'.depth > 0 /\ wk'.depth # 1
  BY <1>2, <1>3 DEF FlatInv, WorkerShape
<1>7. FrameWrites' = FrameWrites /\ OwnLog'
  BY <1>2, <1>6 DEF FrameWrites, OwnLog
<1>8. late' \subseteq Conns
  BY <1>1 DEF FlatInv
<1>9. QED
  BY <1>2, <1>3, <1>4, <1>5, <1>6, <1>7, <1>8 DEF FlatInv

LEMMA FlatDies ==
    ASSUME FlatInv, Crash
    PROVE  FlatInv'
<1>1. /\ frames' = <<>> /\ wk' = NewWorker /\ late' = {} /\ srv' = [c \in Conns |-> IdleConn]
      /\ failed' = failed \cup FrameWrites /\ UNCHANGED <<store, issued, unsure>>
  BY DEF Crash
<1>2. WorkerShape(wk') /\ wk'.depth = 0 /\ ServerShape(srv')
  BY <1>1 DEF WorkerShape, NewWorker, ServerShape, IdleConn
<1>3. Attached(wk', srv')
  BY <1>2 DEF Attached
<1>4. Separate(FrameWrites, store, failed, unsure, issued) /\ issued \in Nat
  BY DEF FlatInv
<1>5. Separate({}, store, failed \cup FrameWrites, unsure, issued)
  BY <1>4, SeparateMoves
<1>6. late' \subseteq Conns
  BY <1>1
<1>7. QED
  BY <1>1, <1>2, <1>3, <1>4, <1>5, <1>6, FlatClosed

LEMMA FlatNext ==
    ASSUME FlatFaults, FlatInv, [Next]_vars
    PROVE  FlatInv'
<1>1. CASE BeginOuter \/ BeginNested
  BY <1>1, FlatBegins DEF FlatFaults
<1>2. CASE WriteInTx \/ WriteOnPool
  BY <1>2, FlatWrites
<1>3. CASE CommitOuter \/ ReleaseNested
  BY <1>3, FlatCommits
<1>4. CASE CommitThrows \/ Unwind
  BY <1>4, FlatFails
<1>5. CASE StatementError \/ Throw \/ Catch \/ BeginTimesOut \/ UNCHANGED vars
  <2>1. UNCHANGED <<frames, wk, srv, store, issued, failed, unsure>>
    BY <1>5 DEF StatementError, Throw, Catch, BeginTimesOut, vars
  <2>2. late' \subseteq Conns
    BY <1>5 DEF StatementError, Throw, Catch, BeginTimesOut, vars, FreeConns, FlatInv
  <2>3. QED
    BY <2>1, <2>2, FlatControl
<1>6. CASE LoseConn
  BY <1>6, FlatLoses
<1>7. CASE LoseConnInCommit
  BY <1>7, FlatDoubts
<1>8. CASE LateBegin
  BY <1>8, FlatLate
<1>9. CASE Crash
  BY <1>9, FlatDies
<1>10. ~WriteDeadlocks /\ ~ExecDdl
  BY DEF FlatFaults, WriteDeadlocks, ExecDdl
<1>11. QED
  BY <1>1, <1>2, <1>3, <1>4, <1>5, <1>6, <1>7, <1>8, <1>9, <1>10 DEF Next

(* Without nesting, every reachable state satisfies FlatInv however often the
   connection drops, txBegin is answered late or the process dies. *)
THEOREM FlatInvariant ==
    ASSUME FlatFaults
    PROVE  Spec => []FlatInv
<1>1. Init => FlatInv
  BY FlatInit
<1>2. FlatInv /\ [Next]_vars => FlatInv'
  BY FlatNext
<1>3. QED
  BY <1>1, <1>2, PTL DEF Spec

(* A COMMIT that got no answer made the whole transaction durable or none of it,
   also when late txBegins have opened other connections behind the handler's
   back (mysqlWorker.mjs, txCommit on txConn). *)
THEOREM DoubtIsAtomic ==
    ASSUME FlatFaults
    PROVE  Spec => []UnsureIsAtomic
<1>1. FlatInv => UnsureIsAtomic
  BY DEF FlatInv, Separate, UnsureIsAtomic
<1>2. QED
  BY <1>1, FlatInvariant, PTL

(* What a transaction that threw wrote is never durable, and what an open one
   wrote not yet, although the worker ignores a failed rollback and a late
   txBegin replaces its connection. *)
THEOREM FaultsLeaveNothing ==
    ASSUME FlatFaults
    PROVE  Spec => [](FailedLeavesNothing /\ OpenIsInvisible)
<1>1. FlatInv => FailedLeavesNothing /\ OpenIsInvisible
  BY DEF FlatInv, Separate, FailedLeavesNothing, OpenIsInvisible
<1>2. QED
  BY <1>1, FlatInvariant, PTL

-----------------------------------------------------------------------------
(* Whatever breaks: connections that the pool may hand out.                  *)
(*                                                                          *)
(* Every fault, at any nesting depth.  What is durable can then be anything, *)
(* and the depths of the threads part; but a transaction is open only on a   *)
(* connection that the worker holds (PooledIsClean), and as long as no       *)
(* txBegin is given up on, the worker holds none when no callback is open.   *)

HeldInv == /\ WorkerShape(wk) /\ ServerShape(srv)
           /\ late \subseteq Conns
           /\ wk.depth > 0 => wk.conn \in Conns
           /\ PooledIsClean

(* The worker goes one level up or more, and one connection at most changes. *)
LEMMA RollbackClean ==
    ASSUME ServerShape(srv), PooledIsClean, NEW w, WorkerShape(w), w.held = wk.held,
           w.depth > 0 => w.conn \in Conns
    PROVE  /\ WorkerShape(RollbackWorker(w)) /\ ServerShape(RollbackServer(w))
           /\ RollbackWorker(w).conn = w.conn \/ RollbackWorker(w).depth = 0
           /\ RollbackWorker(w).depth <= w.depth
           /\ w.depth > 0 => RollbackWorker(w).depth < w.depth
           /\ \A c \in Conns : RollbackServer(w)[c].tx => c \in RollbackWorker(w).held
           /\ RollbackWorker(w).held \subseteq w.held
<1>1. CASE w.depth = 0
  BY <1>1 DEF RollbackWorker, RollbackServer, PooledIsClean, WorkerShape
<1>2. CASE w.depth > 0 /\ w.depth > 1 /\ w.sps # <<>>
  <2>1. RollbackWorker(w) = [w EXCEPT !.depth = @ - 1, !.sps = Front(@)]
    BY <1>2 DEF RollbackWorker, WorkerShape
  <2>2. RollbackServer(w) = srv
        \/ RollbackServer(w) = [srv EXCEPT ![w.conn].log = CutTo(@, Last(w.sps))]
    BY <1>2 DEF RollbackServer, WorkerShape
  <2>3. PICK L : RollbackServer(w) = srv \/ RollbackServer(w) = [srv EXCEPT ![w.conn].log = L]
    BY <2>2
  <2>4. ServerShape(RollbackServer(w)) /\ \A c \in Conns : RollbackServer(w)[c].tx = srv[c].tx
    BY <2>3 DEF ServerShape
  <2>5. QED
    BY <1>2, <2>1, <2>4 DEF WorkerShape, PooledIsClean
<1>3. CASE w.depth > 0 /\ ~(w.depth > 1 /\ w.sps # <<>>) /\ srv[w.conn].dead
  <2>1. RollbackWorker(w) = [w EXCEPT !.depth = @ - 1]
    BY <1>3 DEF RollbackWorker, WorkerShape
  <2>2. w.conn # NoConn
    BY <1>3, ConnsAssumption
  <2>3. RollbackServer(w) = srv
    BY <1>3, <2>2 DEF RollbackServer
  <2>4. QED
    BY <1>3, <2>1, <2>3 DEF WorkerShape, PooledIsClean
<1>4. CASE w.depth > 0 /\ ~(w.depth > 1 /\ w.sps # <<>>) /\ ~srv[w.conn].dead
  <2>1. RollbackWorker(w) = Released(w)
    BY <1>4 DEF RollbackWorker, WorkerShape
  <2>2. RollbackServer(w) = [srv EXCEPT ![w.conn] = IdleConn]
    BY <1>4 DEF RollbackServer, WorkerShape
  <2>3. ServerShape(RollbackServer(w))
    BY <2>2 DEF ServerShape, IdleConn
  <2>4. /\ WorkerShape(Released(w)) /\ Released(w).depth = 0
        /\ Released(w).held = w.held \ {w.conn}
    BY DEF Released, WorkerShape
  <2>5. \A c \in Conns : RollbackServer(w)[c].tx => c # w.conn /\ srv[c].tx
    BY <2>2 DEF ServerShape, IdleConn
  <2>6. QED
    BY <1>4, <2>1, <2>3, <2>4, <2>5 DEF PooledIsClean, WorkerShape
<1>5. QED
  BY <1>1, <1>2, <1>3, <1>4 DEF WorkerShape

(* txCommit that threw has gone one level up, before txRollback goes on. *)
LEMMA CommitThrowsFrom ==
    ASSUME WorkerShape(wk), CommitThrows
    PROVE  \E w : /\ WorkerShape(w) /\ w.held = wk.held /\ w.conn = wk.conn
                  /\ w.depth <= wk.depth /\ (wk.depth > 0 => w.depth = wk.depth - 1)
                  /\ wk' = RollbackWorker(w) /\ srv' = RollbackServer(w)
                  /\ wk.depth > 0 => srv[wk.conn].dead \/ wk.depth > 1
<1> DEFINE popped == IF wk.depth > 1 /\ wk.sps # <<>> THEN Front(wk.sps) ELSE wk.sps
           w == IF wk.depth = 0 THEN wk ELSE [wk EXCEPT !.depth = @ - 1, !.sps = popped]
<1>1. wk' = RollbackWorker(w) /\ srv' = RollbackServer(w)
  BY DEF CommitThrows
<1>2. wk.depth > 0 => srv[wk.conn].dead \/ wk.depth > 1
  BY DEF CommitThrows, WorkerShape
<1>3. /\ WorkerShape(w) /\ w.held = wk.held /\ w.conn = wk.conn
      /\ w.depth <= wk.depth /\ (wk.depth > 0 => w.depth = wk.depth - 1)
  <2> HIDE DEF popped
  <2>1. QED
    BY DEF WorkerShape
<1> HIDE DEF w
<1>4. QED
  BY <1>1, <1>2, <1>3

(* The steps that hand over, take back or drop a connection. *)
LEMMA HeldNext ==
    ASSUME HeldInv, [Next]_vars
    PROVE  HeldInv'
<1>1. CASE BeginOuter \/ LateBegin
  <2>1. PICK c \in Conns :
           /\ srv' = [srv EXCEPT ![c] = OpenConn] /\ late' \subseteq late
           /\ \E d \in Nat : wk' = [wk EXCEPT !.depth = d, !.conn = c, !.sps = <<>>,
                                              !.held = @ \cup {c}]
    <3>1. CASE BeginOuter
      <4>1. PICK c \in FreeConns :
               /\ wk' = [wk EXCEPT !.depth = 1, !.conn = c, !.sps = <<>>, !.held = @ \cup {c}]
               /\ srv' = [srv EXCEPT ![c] = OpenConn]
        BY <3>1 DEF BeginOuter
      <4>2. c \in Conns /\ 1 \in Nat /\ late' \subseteq late
        BY <3>1 DEF BeginOuter, FreeConns
      <4>3. QED
        BY <4>1, <4>2
    <3>2. CASE LateBegin
      <4>1. PICK c \in late :
               /\ wk' = [wk EXCEPT !.depth = wk.depth + 1, !.conn = c, !.sps = <<>>,
                                   !.held = @ \cup {c}]
               /\ srv' = [srv EXCEPT ![c] = OpenConn] /\ late' = late \ {c}
        BY <3>2 DEF LateBegin
      <4>2. c \in Conns /\ wk.depth + 1 \in Nat /\ late' \subseteq late
        BY <4>1 DEF HeldInv, WorkerShape
      <4>3. QED
        BY <4>1, <4>2
    <3>3. QED
      BY <1>1, <3>1, <3>2
  <2>2. /\ WorkerShape(wk') /\ wk'.conn = c /\ wk'.held = wk.held \cup {c}
        /\ ServerShape(srv') /\ \A d \in Conns \ {c} : srv'[d] = srv[d]
    BY <2>1 DEF HeldInv, WorkerShape, ServerShape, OpenConn
  <2>3. QED
    BY <2>1, <2>2 DEF HeldInv, PooledIsClean
<1>2. CASE BeginNested
  <2>1. /\ late' = late
        /\ \E d \in Nat : \E q, n : wk' = [wk EXCEPT !.depth = d, !.seq = n, !.sps = q]
    <3>1. wk' = [wk EXCEPT !.depth = wk.depth, !.seq = @ + 1, !.sps = wk.sps]
          \/ wk' = [wk EXCEPT !.depth = wk.depth + 1, !.seq = @ + 1,
                              !.sps = Append(@, wk.seq + 1)]
      BY <1>2 DEF BeginNested, HeldInv, WorkerShape
    <3>2. wk.depth \in Nat /\ wk.depth + 1 \in Nat
      BY DEF HeldInv, WorkerShape
    <3>3. QED
      BY <1>2, <3>1, <3>2 DEF BeginNested
  <2>2. srv' = srv \/ \E L : srv' = [srv EXCEPT ![wk.conn].log = L]
    BY <1>2 DEF BeginNested
  <2>3. WorkerShape(wk') /\ wk'.conn = wk.conn /\ wk'.held = wk.held
    BY <2>1 DEF HeldInv, WorkerShape
  <2>4. wk.conn \in Conns
    BY <1>2 DEF BeginNested, HeldInv
  <2>5. ServerShape(srv') /\ \A d \in Conns : srv'[d].tx = srv[d].tx
    <3>1. CASE srv' = srv
      BY <3>1 DEF HeldInv
    <3>2. CASE \E L : srv' = [srv EXCEPT ![wk.conn].log = L]
      BY <2>4, <3>2 DEF HeldInv, ServerShape
    <3>3. QED
      BY <2>2, <3>1, <3>2
  <2>6. QED
    BY <2>1, <2>3, <2>4, <2>5 DEF HeldInv, PooledIsClean
<1>3. CASE WriteInTx \/ WriteOnPool \/ WriteDeadlocks \/ ExecDdl
  <2>1. /\ UNCHANGED <<wk, late>>
        /\ \/ srv' = srv
           \/ wk.depth > 0 /\ \E L : srv' = [srv EXCEPT ![wk.conn].log = L]
           \/ wk.depth > 0 /\ srv' = [srv EXCEPT ![wk.conn] = IdleConn]
    BY <1>3 DEF WriteInTx, WriteOnPool, WriteDeadlocks, ExecDdl, InTx
  <2>2. CASE srv' = srv
    BY <2>1, <2>2 DEF HeldInv, PooledIsClean
  <2>3. CASE wk.depth > 0 /\ \E L : srv' = [srv EXCEPT ![wk.conn].log = L]
    <3>1. ServerShape(srv') /\ \A d \in Conns : srv'[d].tx = srv[d].tx
      BY <2>3 DEF HeldInv, ServerShape
    <3>2. QED
      BY <2>1, <3>1 DEF HeldInv, PooledIsClean
  <2>4. CASE wk.depth > 0 /\ srv' = [srv EXCEPT ![wk.conn] = IdleConn]
    <3>1. ServerShape(srv') /\ \A d \in Conns : srv'[d].tx => srv[d].tx
      BY <2>4 DEF HeldInv, ServerShape, IdleConn
    <3>2. QED
      BY <2>1, <3>1 DEF HeldInv, PooledIsClean
  <2>5. QED
    BY <2>1, <2>2, <2>3, <2>4
<1>4. CASE CommitOuter
  <2>1. /\ srv' = [srv EXCEPT ![wk.conn] = IdleConn] /\ wk' = Released(wk) /\ late' = late
        /\ wk.conn \in Conns
    BY <1>4 DEF CommitOuter, HeldInv
  <2>2. WorkerShape(wk') /\ wk'.depth = 0 /\ wk'.held = wk.held \ {wk.conn}
    BY <2>1 DEF HeldInv, WorkerShape, Released
  <2>3. ServerShape(srv') /\ \A d \in Conns : srv'[d].tx => srv[d].tx /\ d # wk.conn
    BY <2>1 DEF HeldInv, ServerShape, IdleConn
  <2>4. QED
    BY <2>1, <2>2, <2>3 DEF HeldInv, PooledIsClean
<1>5. CASE ReleaseNested
  <2>1. PICK q, L : /\ srv' = [srv EXCEPT ![wk.conn].log = L] /\ late' = late
                    /\ wk' = [wk EXCEPT !.depth = @ - 1, !.sps = q] /\ wk.depth > 1
    BY <1>5 DEF ReleaseNested
  <2>2. WorkerShape(wk') /\ wk'.conn = wk.conn /\ wk'.held = wk.held
    BY <2>1 DEF HeldInv, WorkerShape
  <2>3. wk.conn \in Conns
    BY <2>1 DEF HeldInv, WorkerShape
  <2>4. ServerShape(srv') /\ \A d \in Conns : srv'[d].tx = srv[d].tx
    BY <2>1, <2>3 DEF HeldInv, ServerShape
  <2>5. QED
    BY <2>1, <2>2, <2>3, <2>4 DEF HeldInv, PooledIsClean
<1>6. CASE CommitThrows \/ Unwind
  <2>1. PICK w : /\ WorkerShape(w) /\ w.held = wk.held /\ w.conn = wk.conn /\ w.depth <= wk.depth
                 /\ wk' = RollbackWorker(w) /\ srv' = RollbackServer(w)
    <3>1. CASE CommitThrows
      BY <3>1, CommitThrowsFrom DEF HeldInv
    <3>2. CASE Unwind
      BY <3>2 DEF Unwind, HeldInv, WorkerShape
    <3>3. QED
      BY <1>6, <3>1, <3>2
  <2>2. w.depth > 0 => w.conn \in Conns
    BY <2>1 DEF HeldInv, WorkerShape
  <2>3. /\ WorkerShape(wk') /\ ServerShape(srv') /\ (wk'.conn = w.conn \/ wk'.depth = 0)
        /\ wk'.depth <= w.depth /\ \A c \in Conns : srv'[c].tx => c \in wk'.held
    BY <2>1, <2>2, RollbackClean DEF HeldInv
  <2>4. wk'.depth > 0 => wk'.conn \in Conns
    <3>1. wk'.depth > 0 => w.depth > 0 /\ wk'.conn = w.conn
      BY <2>1, <2>3 DEF WorkerShape
    <3>2. QED
      BY <2>2, <3>1
  <2>5. late' = late
    BY <1>6 DEF CommitThrows, Unwind
  <2>6. QED
    BY <2>3, <2>4, <2>5 DEF HeldInv, PooledIsClean
<1>7. CASE LoseConn \/ LoseConnInCommit
  <2>1. /\ srv' = [srv EXCEPT ![wk.conn] = [IdleConn EXCEPT !.dead = TRUE]] /\ late' = late
        /\ \E d \in {0, wk.depth} : wk' = [wk EXCEPT !.depth = d, !.held = @ \ {wk.conn}]
        /\ wk.conn \in Conns
    <3>1. CASE LoseConn
      BY <3>1 DEF LoseConn, InTx, HeldInv, WorkerShape
    <3>2. CASE LoseConnInCommit
      BY <3>2 DEF LoseConnInCommit, HeldInv, WorkerShape
    <3>3. QED
      BY <1>7, <3>1, <3>2
  <2>2. WorkerShape(wk') /\ wk'.conn = wk.conn /\ wk'.held = wk.held \ {wk.conn}
    BY <2>1 DEF HeldInv, WorkerShape
  <2>3. ServerShape(srv') /\ \A d \in Conns : srv'[d].tx => srv[d].tx /\ d # wk.conn
    BY <2>1 DEF HeldInv, ServerShape, IdleConn
  <2>4. QED
    BY <2>1, <2>2, <2>3 DEF HeldInv, PooledIsClean
<1>8. CASE Crash
  BY <1>8 DEF Crash, HeldInv, WorkerShape, NewWorker, ServerShape, IdleConn, PooledIsClean
<1>9. CASE StatementError \/ Throw \/ Catch \/ BeginTimesOut \/ UNCHANGED vars
  <2>1. UNCHANGED <<wk, srv>> /\ late' \subseteq Conns
    BY <1>9 DEF StatementError, Throw, Catch, BeginTimesOut, vars, FreeConns, HeldInv
  <2>2. QED
    BY <2>1 DEF HeldInv, PooledIsClean
<1>10. QED
  BY <1>1, <1>2, <1>3, <1>4, <1>5, <1>6, <1>7, <1>8, <1>9 DEF Next

(* No connection goes back to the pool inside a transaction, whatever breaks and
   however deep: lost connections, late answers of txBegin, deadlocks and DDL that
   end the transaction behind the worker's back, rollbacks that fail
   (mysqlWorker.mjs, txCommit and txRollback). *)
THEOREM PoolStaysClean == Spec => []PooledIsClean
<1>1. Init => HeldInv
  BY DEF Init, HeldInv, WorkerShape, ServerShape, NewWorker, IdleConn, PooledIsClean
<1>2. HeldInv /\ [Next]_vars => HeldInv'
  BY HeldNext
<1>3. HeldInv => PooledIsClean
  BY DEF HeldInv
<1>4. QED
  BY <1>1, <1>2, <1>3, PTL DEF Spec

-----------------------------------------------------------------------------
(* What a request leaves behind.                                             *)

(* The worker holds its own connection at most, and none at depth 0 or once the
   connection is lost. *)
EmptyHanded(w, s) == /\ w.held \subseteq {w.conn}
                     /\ w.depth = 0 => w.held = {}
                     /\ w.conn \in Conns /\ s[w.conn].dead => w.held = {}

CleanInv == /\ HeldInv
            /\ frames \in Seq(SUBSET Nat) /\ issued \in Nat
            /\ late = {}
            /\ wk.depth <= Len(frames)
            /\ EmptyHanded(wk, srv)

LEMMA RollbackEmpties ==
    ASSUME ServerShape(srv), NEW w, WorkerShape(w), EmptyHanded(w, srv),
           w.depth > 0 => w.conn \in Conns
    PROVE  EmptyHanded(RollbackWorker(w), RollbackServer(w))
<1>1. CASE w.depth = 0
  BY <1>1 DEF RollbackWorker, RollbackServer, EmptyHanded
<1>2. CASE w.depth > 0 /\ w.depth > 1 /\ w.sps # <<>>
  <2>1. RollbackWorker(w) = [w EXCEPT !.depth = @ - 1, !.sps = Front(@)]
    BY <1>2 DEF RollbackWorker, WorkerShape
  <2>2. PICK L : RollbackServer(w) = srv \/ RollbackServer(w) = [srv EXCEPT ![w.conn].log = L]
    BY <1>2 DEF RollbackServer, WorkerShape
  <2>3. RollbackServer(w)[w.conn].dead = srv[w.conn].dead
    BY <1>2, <2>2 DEF ServerShape
  <2>4. PICK v : v = RollbackWorker(w)
    OBVIOUS
  <2>5. v.conn = w.conn /\ v.held = w.held /\ v.depth = w.depth - 1
    BY <2>1, <2>4 DEF WorkerShape
  <2>6. QED
    BY <1>2, <2>3, <2>4, <2>5 DEF EmptyHanded, WorkerShape
<1>3. CASE w.depth > 0 /\ ~(w.depth > 1 /\ w.sps # <<>>) /\ srv[w.conn].dead
  <2>1. RollbackWorker(w) = [w EXCEPT !.depth = @ - 1]
    BY <1>3 DEF RollbackWorker, WorkerShape
  <2>2. w.held = {}
    BY <1>3 DEF EmptyHanded
  <2>3. QED
    BY <2>1, <2>2 DEF EmptyHanded, WorkerShape
<1>4. CASE w.depth > 0 /\ ~(w.depth > 1 /\ w.sps # <<>>) /\ ~srv[w.conn].dead
  <2>1. RollbackWorker(w) = Released(w)
    BY <1>4 DEF RollbackWorker, WorkerShape
  <2>2. Released(w).held = w.held \ {w.conn}
    BY DEF Released, WorkerShape
  <2>3. QED
    BY <2>1, <2>2 DEF EmptyHanded
<1>5. QED
  BY <1>1, <1>2, <1>3, <1>4 DEF WorkerShape

(* The stack after a callback opens, a statement runs or a callback ends. *)
LEMMA StackMoves ==
    ASSUME frames \in Seq(SUBSET Nat), NEW w \in Nat
    PROVE  /\ Append(frames, {}) \in Seq(SUBSET Nat)
           /\ Len(Append(frames, {})) = Len(frames) + 1
           /\ Acknowledge(w) => frames' \in Seq(SUBSET Nat) /\ Len(frames') = Len(frames)
           /\ frames # <<>> => /\ Front(frames) \in Seq(SUBSET Nat)
                               /\ Len(Front(frames)) = Len(frames) - 1
                               /\ Returns => /\ frames' \in Seq(SUBSET Nat)
                                             /\ Len(frames') = Len(frames) - 1
<1>1. {} \in SUBSET Nat
  OBVIOUS
<1>2. /\ Append(frames, {}) \in Seq(SUBSET Nat)
      /\ Len(Append(frames, {})) = Len(frames) + 1
  BY <1>1, PushFacts
<1>3. ASSUME frames # <<>>
      PROVE  /\ Front(frames) \in Seq(SUBSET Nat) /\ Len(Front(frames)) = Len(frames) - 1
             /\ Len(frames) \in 1..Len(frames) /\ Last(frames) \in SUBSET Nat
             /\ Last(frames) = frames[Len(frames)]
  BY <1>3, FrontFacts
<1>4. ASSUME Acknowledge(w) PROVE frames' \in Seq(SUBSET Nat) /\ Len(frames') = Len(frames)
  <2>1. CASE frames = <<>>
    BY <1>4, <2>1 DEF Acknowledge
  <2>2. CASE frames # <<>>
    <3>1. PICK e \in SUBSET Nat : frames' = [frames EXCEPT ![Len(frames)] = e]
      <4>1. frames' = [frames EXCEPT ![Len(frames)] = frames[Len(frames)] \cup {w}]
        BY <1>4, <2>2 DEF Acknowledge
      <4>2. frames[Len(frames)] \cup {w} \in SUBSET Nat
        BY <1>3, <2>2
      <4>3. QED
        BY <4>1, <4>2
    <3>2. QED
      BY <1>3, <2>2, <3>1, TouchFacts
  <2>3. QED
    BY <2>1, <2>2
<1>5. ASSUME frames # <<>>, Returns PROVE frames' \in Seq(SUBSET Nat) /\ Len(frames') = Len(frames) - 1
  <2>1. CASE Len(frames) = 1
    BY <1>5, <2>1 DEF Returns
  <2>2. CASE Len(frames) # 1
    <3>1. PICK fr \in Seq(SUBSET Nat) : fr = Front(frames) /\ Len(fr) = Len(frames) - 1
      BY <1>3, <1>5
    <3>2. Len(frames) - 1 \in 1..Len(fr)
      BY <1>3, <1>5, <2>2, <3>1
    <3>3. frames' = [fr EXCEPT ![Len(frames) - 1] = fr[Len(frames) - 1] \cup Last(frames)]
      BY <1>5, <2>2, <3>1 DEF Returns
    <3>4. fr[Len(frames) - 1] \cup Last(frames) \in SUBSET Nat
      BY <1>3, <1>5, <3>1, <3>2, ElementOfSeq
    <3>5. QED
      BY <3>1, <3>2, <3>3, <3>4, TouchFacts
  <2>3. QED
    BY <2>1, <2>2
<1>6. QED
  BY <1>2, <1>3, <1>4, <1>5

LEMMA CleanNext ==
    ASSUME "timeout" \notin Faults, CleanInv, [Next]_vars
    PROVE  CleanInv'
<1>1. HeldInv' /\ HeldInv
  BY HeldNext DEF CleanInv
<1>2. /\ WorkerShape(wk) /\ ServerShape(srv) /\ (wk.depth > 0 => wk.conn \in Conns)
      /\ WorkerShape(wk') /\ ServerShape(srv')
  BY <1>1 DEF HeldInv
<1>3. Len(frames) \in Nat /\ issued \in Nat /\ issued + 1 \in Nat
  BY DEF CleanInv
<1>4. CASE BeginOuter
  <2>1. PICK c \in Conns :
           /\ wk' = [wk EXCEPT !.depth = 1, !.conn = c, !.sps = <<>>, !.held = @ \cup {c}]
           /\ srv' = [srv EXCEPT ![c] = OpenConn]
    BY <1>4 DEF BeginOuter, FreeConns
  <2>2. wk'.depth = 1 /\ wk'.conn = c /\ wk'.held = {c} /\ ~srv'[c].dead
    BY <1>2, <1>4, <2>1 DEF BeginOuter, CleanInv, EmptyHanded, WorkerShape, ServerShape, OpenConn
  <2>3. /\ frames' \in Seq(SUBSET Nat) /\ Len(frames') = Len(frames) + 1
        /\ UNCHANGED <<issued, late>>
    BY <1>3, <1>4, StackMoves DEF BeginOuter, CleanInv
  <2>4. QED
    BY <1>1, <1>3, <2>2, <2>3 DEF CleanInv, EmptyHanded
<1>5. CASE BeginNested
  <2>1. /\ wk'.conn = wk.conn /\ wk'.held = wk.held /\ wk.depth > 0 /\ wk'.depth > 0
        /\ wk'.depth - wk.depth = Len(frames') - Len(frames)
        /\ frames' \in Seq(SUBSET Nat) /\ Len(frames') \in Nat
    <3>1. CASE srv[wk.conn].dead
      BY <1>2, <1>3, <1>5, <3>1 DEF BeginNested, CleanInv, WorkerShape
    <3>2. CASE ~srv[wk.conn].dead
      <4>1. frames' \in Seq(SUBSET Nat) /\ Len(frames') = Len(frames) + 1
        BY <1>3, <1>5, <3>2, StackMoves DEF BeginNested, CleanInv
      <4>2. /\ wk'.conn = wk.conn /\ wk'.held = wk.held /\ wk'.depth = wk.depth + 1
            /\ wk.depth > 0
        BY <1>2, <1>5, <3>2 DEF BeginNested, WorkerShape
      <4>3. QED
        BY <1>2, <1>3, <4>1, <4>2 DEF WorkerShape
    <3>3. QED
      BY <3>1, <3>2
  <2>2. srv'[wk.conn].dead = srv[wk.conn].dead
    BY <1>2, <1>5, <2>1 DEF BeginNested, ServerShape
  <2>3. UNCHANGED <<issued, late>>
    BY <1>5 DEF BeginNested
  <2>4. wk'.depth <= Len(frames')
    BY <1>2, <1>3, <2>1 DEF CleanInv, WorkerShape
  <2>5. QED
    BY <1>1, <2>1, <2>2, <2>3, <2>4 DEF CleanInv, EmptyHanded
<1>6. CASE WriteInTx \/ WriteOnPool \/ WriteDeadlocks
  <2>1. /\ Acknowledge(issued + 1) /\ issued' = issued + 1 /\ UNCHANGED <<wk, late>>
    BY <1>6 DEF WriteInTx, WriteOnPool, WriteDeadlocks
  <2>2. frames' \in Seq(SUBSET Nat) /\ Len(frames') = Len(frames)
    BY <1>3, <2>1, StackMoves DEF CleanInv
  <2>3. \/ srv' = srv
        \/ wk.conn \in Conns /\ \E L : srv' = [srv EXCEPT ![wk.conn].log = L]
        \/ wk.conn \in Conns /\ srv' = [srv EXCEPT ![wk.conn] = IdleConn]
    BY <1>2, <1>6 DEF WriteInTx, WriteOnPool, WriteDeadlocks, InTx
  <2>4. wk.conn \in Conns /\ srv'[wk.conn].dead => srv[wk.conn].dead
    <3>1. CASE wk.conn \in Conns /\ \E L : srv' = [srv EXCEPT ![wk.conn].log = L]
      <4>1. PICK L : srv' = [srv EXCEPT ![wk.conn].log = L]
        BY <3>1
      <4>2. QED
        BY <1>2, <3>1, <4>1 DEF ServerShape
    <3>2. CASE wk.conn \in Conns /\ srv' = [srv EXCEPT ![wk.conn] = IdleConn]
      BY <1>2, <3>2 DEF ServerShape, IdleConn
    <3>3. QED
      BY <2>3, <3>1, <3>2
  <2>5. QED
    BY <1>1, <1>3, <2>1, <2>2, <2>4 DEF CleanInv, EmptyHanded
<1>7. CASE ExecDdl
  <2>1. UNCHANGED <<frames, wk, late, issued>> /\ srv' = [srv EXCEPT ![wk.conn] = IdleConn]
    BY <1>7 DEF ExecDdl
  <2>2. wk.conn \in Conns => ~srv'[wk.conn].dead
    BY <1>2, <2>1 DEF ServerShape, IdleConn
  <2>3. QED
    BY <1>1, <2>1, <2>2 DEF CleanInv, EmptyHanded
<1>8. CASE CommitOuter
  <2>1. /\ frames # <<>> /\ Returns /\ wk.depth = 1 /\ wk' = Released(wk)
        /\ UNCHANGED <<late, issued>>
    BY <1>8 DEF CommitOuter
  <2>2. frames' \in Seq(SUBSET Nat) /\ Len(frames') = Len(frames) - 1
    BY <1>3, <2>1, StackMoves DEF CleanInv
  <2>3. wk'.depth = 0 /\ wk'.held = {} /\ Len(frames') >= 0
    BY <1>2, <1>3, <2>1, <2>2 DEF CleanInv, EmptyHanded, Released, WorkerShape
  <2>4. QED
    BY <1>1, <2>1, <2>2, <2>3 DEF CleanInv, EmptyHanded
<1>9. CASE ReleaseNested
  <2>1. PICK q, L : /\ srv' = [srv EXCEPT ![wk.conn].log = L] /\ UNCHANGED <<late, issued>>
                    /\ wk' = [wk EXCEPT !.depth = @ - 1, !.sps = q] /\ wk.depth > 1
                    /\ frames # <<>> /\ Returns
    BY <1>9 DEF ReleaseNested
  <2>2. frames' \in Seq(SUBSET Nat) /\ Len(frames') = Len(frames) - 1
    BY <1>3, <2>1, StackMoves DEF CleanInv
  <2>3. wk'.conn = wk.conn /\ wk'.held = wk.held /\ wk'.depth = wk.depth - 1 /\ wk'.depth > 0
    BY <1>2, <2>1 DEF WorkerShape
  <2>4. wk.conn \in Conns => srv'[wk.conn].dead = srv[wk.conn].dead
    BY <1>2, <2>1 DEF ServerShape
  <2>5. wk'.depth <= Len(frames')
    BY <1>2, <1>3, <2>2, <2>3 DEF CleanInv, WorkerShape
  <2>6. QED
    BY <1>1, <2>1, <2>2, <2>3, <2>4, <2>5 DEF CleanInv, EmptyHanded
<1>10. CASE CommitThrows \/ Unwind
  <2>1. /\ frames # <<>> /\ frames' = Front(frames) /\ UNCHANGED <<late, issued>>
    BY <1>10 DEF CommitThrows, Unwind
  <2>2. frames' \in Seq(SUBSET Nat) /\ Len(frames') = Len(frames) - 1
    BY <1>3, <2>1, StackMoves DEF CleanInv
  <2>3. PICK w : /\ WorkerShape(w) /\ EmptyHanded(w, srv) /\ w.held = wk.held
                 /\ (w.depth > 0 => w.conn \in Conns)
                 /\ wk' = RollbackWorker(w) /\ srv' = RollbackServer(w)
                 /\ w.depth = wk.depth \/ w.depth = wk.depth - 1
    <3>1. CASE CommitThrows
      <4>1. PICK w : /\ WorkerShape(w) /\ w.held = wk.held /\ w.conn = wk.conn
                     /\ w.depth <= wk.depth /\ (wk.depth > 0 => w.depth = wk.depth - 1)
                     /\ wk' = RollbackWorker(w) /\ srv' = RollbackServer(w)
                     /\ wk.depth > 0 => srv[wk.conn].dead \/ wk.depth > 1
        BY <1>2, <3>1, CommitThrowsFrom
      <4>2. w.depth = 0 => w.held = {}
        <5>1. CASE wk.depth = 0
          BY <4>1, <5>1 DEF CleanInv, EmptyHanded
        <5>2. CASE wk.depth > 0 /\ srv[wk.conn].dead
          BY <1>2, <4>1, <5>2 DEF CleanInv, EmptyHanded
        <5>3. CASE wk.depth > 1
          BY <1>2, <4>1, <5>3 DEF WorkerShape
        <5>4. QED
          BY <1>2, <4>1, <5>1, <5>2, <5>3 DEF WorkerShape
      <4>3. EmptyHanded(w, srv)
        BY <4>1, <4>2 DEF CleanInv, EmptyHanded
      <4>4. w.depth = wk.depth \/ w.depth = wk.depth - 1
        BY <1>2, <4>1 DEF WorkerShape
      <4>5. w.depth > 0 => w.conn \in Conns
        BY <1>2, <4>1 DEF WorkerShape
      <4>6. QED
        BY <4>1, <4>3, <4>4, <4>5
    <3>2. CASE Unwind
      BY <1>2, <3>2 DEF Unwind, CleanInv
    <3>3. QED
      BY <1>10, <3>1, <3>2
  <2>4. EmptyHanded(wk', srv')
    BY <1>2, <2>3, RollbackEmpties
  <2>5. wk'.depth <= w.depth /\ (w.depth > 0 => wk'.depth < w.depth)
    BY <1>1, <1>2, <2>3, RollbackClean DEF HeldInv
  <2>6. wk'.depth <= Len(frames')
    <3>1. w.depth \in Nat /\ wk'.depth \in Nat /\ wk.depth \in Nat /\ wk.depth <= Len(frames)
      BY <1>2, <2>3 DEF WorkerShape, CleanInv
    <3>2. Len(frames') \in Nat
      BY <2>2
    <3>3. QED
      BY <1>3, <2>2, <2>3, <2>5, <3>1, <3>2
  <2>7. QED
    BY <1>1, <1>3, <2>1, <2>2, <2>4, <2>6 DEF CleanInv
<1>11. CASE LoseConn
  <2>1. UNCHANGED <<frames, late, issued>> /\ wk' = [wk EXCEPT !.held = @ \ {wk.conn}]
    BY <1>11 DEF LoseConn
  <2>2. wk'.held = {} /\ wk'.depth = wk.depth
    BY <1>2, <2>1 DEF CleanInv, EmptyHanded, WorkerShape
  <2>3. QED
    BY <1>1, <2>1, <2>2 DEF CleanInv, EmptyHanded
<1>12. CASE LoseConnInCommit
  <2>1. /\ frames # <<>> /\ frames' = Front(frames) /\ UNCHANGED <<late, issued>>
        /\ wk' = [wk EXCEPT !.depth = 0, !.held = @ \ {wk.conn}]
    BY <1>12 DEF LoseConnInCommit
  <2>2. frames' \in Seq(SUBSET Nat) /\ Len(frames') = Len(frames) - 1
    BY <1>3, <2>1, StackMoves DEF CleanInv
  <2>3. wk'.held = {} /\ wk'.depth = 0 /\ Len(frames') >= 0
    BY <1>2, <2>1, <2>2 DEF CleanInv, EmptyHanded, WorkerShape
  <2>4. QED
    BY <1>1, <2>1, <2>2, <2>3 DEF CleanInv, EmptyHanded
<1>13. CASE Crash
  <2>1. /\ frames' = <<>> /\ wk'.depth = 0 /\ wk'.held = {} /\ late' = {} /\ issued' = issued
    BY <1>13 DEF Crash, NewWorker
  <2>2. frames' \in Seq(SUBSET Nat) /\ Len(frames') = 0
    BY <2>1, EmptySeq
  <2>3. QED
    BY <1>1, <1>3, <2>1, <2>2 DEF CleanInv, EmptyHanded
<1>14. CASE StatementError \/ Throw \/ Catch \/ UNCHANGED vars
  <2>1. UNCHANGED <<frames, wk, late, srv, issued>>
    BY <1>14 DEF StatementError, Throw, Catch, vars
  <2>2. QED
    BY <1>1, <2>1 DEF CleanInv
<1>15. ~BeginTimesOut /\ ~LateBegin
  BY DEF CleanInv, BeginTimesOut, LateBegin
<1>16. QED
  BY <1>4, <1>5, <1>6, <1>7, <1>8, <1>9, <1>10, <1>11, <1>12, <1>13, <1>14, <1>15 DEF Next

(* When the outermost callback has ended the worker is outside any transaction
   and has given its connection back, although inner transactions may have
   failed half way, txCommit and txRollback may have counted one level twice, the
   connection may be lost, and deadlocks or DDL may have ended the transaction on
   the server.  So one request never leaves the next one inside a transaction
   (mysqlDatabase.js, transaction; mysqlWorker.mjs, txCommit and txRollback).
   Only a txBegin that its caller gave up on can. *)
THEOREM RequestsEndClean ==
    ASSUME "timeout" \notin Faults
    PROVE  Spec => []IdleIsClean
<1>1. Init => CleanInv
  <2>1. ASSUME Init PROVE CleanInv
    <3>1. frames \in Seq(SUBSET Nat) /\ Len(frames) = 0
      BY <2>1, EmptySeq DEF Init
    <3>2. HeldInv
      BY <2>1 DEF Init, HeldInv, WorkerShape, ServerShape, NewWorker, IdleConn, PooledIsClean
    <3>3. QED
      BY <2>1, <3>1, <3>2 DEF Init, CleanInv, EmptyHanded, NewWorker
  <2>2. QED
    BY <2>1
<1>2. CleanInv /\ [Next]_vars => CleanInv'
  BY CleanNext
<1>3. CleanInv => IdleIsClean
  <2>1. ASSUME CleanInv, frames = <<>>
        PROVE  wk.depth = 0 /\ wk.held = {} /\ \A c \in Conns : ~srv[c].tx
    <3>1. wk.depth = 0
      BY <2>1, EmptySeq DEF CleanInv, HeldInv, WorkerShape
    <3>2. QED
      BY <2>1, <3>1 DEF CleanInv, EmptyHanded, HeldInv, PooledIsClean
  <2>2. QED
    BY <2>1 DEF IdleIsClean
<1>4. QED
  BY <1>1, <1>2, <1>3, PTL DEF Spec
==============================================================================
