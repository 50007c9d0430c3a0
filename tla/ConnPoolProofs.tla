---------------------------- MODULE ConnPoolProofs ---------------------------
(***************************************************************************)
(* Proofs about the connection pool, for any number of requests and any    *)
(* pool: no connection is lost, and when the pool is larger than the       *)
(* number of market lists, these never hold all of it while they wait.     *)
(***************************************************************************)
EXTENDS ConnPool, FiniteSetTheorems, TLAPS

(* The holders are finitely many, so they can be counted.                  *)
LEMMA HoldersFinite ==
    ASSUME ConnPoolAssumption
    PROVE  /\ IsFiniteSet(Outer) /\ Cardinality(Outer) \in Nat
           /\ IsFiniteSet(Inner) /\ Cardinality(Inner) \in Nat
           /\ IsFiniteSet(Using) /\ Cardinality(Using) \in Nat
<1>1. Outer \subseteq Listers /\ Inner \subseteq Listers /\ Using \subseteq Readers
  BY DEF Outer, Inner, Using
<1>2. IsFiniteSet(Outer) /\ IsFiniteSet(Inner) /\ IsFiniteSet(Using)
  BY <1>1, FS_Subset DEF ConnPoolAssumption
<1>3. QED
  BY <1>2, FS_CardinalityType

(* A set that gains or loses one element has one more or one less.         *)
LEMMA CountOne ==
    ASSUME NEW S, IsFiniteSet(S), NEW x
    PROVE  /\ x \notin S => Cardinality(S \cup {x}) = Cardinality(S) + 1
           /\ x \in S => Cardinality(S \ {x}) = Cardinality(S) - 1
  BY FS_AddElement, FS_RemoveElement

(* A market list that moves changes who holds what only for itself.        *)
LEMMA ListMoves ==
    ASSUME TypeOK, NEW l \in Listers, NEW stage \in ListStages,
           ListTo(l, stage)
    PROVE  /\ list' \in [Listers -> ListStages]
           /\ Outer' = IF stage \in {"reading", "nested", "flags"}
                       THEN Outer \cup {l} ELSE Outer \ {l}
           /\ Inner' = IF stage = "flags" THEN Inner \cup {l} ELSE Inner \ {l}
<1>1. \A m \in Listers : list'[m] = IF m = l THEN stage ELSE list[m]
  BY DEF ListTo, TypeOK
<1>2. list' \in [Listers -> ListStages]
  BY DEF ListTo, TypeOK
<1>3. Outer' = IF stage \in {"reading", "nested", "flags"}
               THEN Outer \cup {l} ELSE Outer \ {l}
  BY <1>1 DEF Outer
<1>4. Inner' = IF stage = "flags" THEN Inner \cup {l} ELSE Inner \ {l}
  BY <1>1 DEF Inner
<1>5. QED
  BY <1>2, <1>3, <1>4

(* And so does a reading that moves.                                       *)
LEMMA ReadMoves ==
    ASSUME TypeOK, NEW r \in Readers,
           NEW stage \in {"away", "acquiring", "using"}, ReadTo(r, stage)
    PROVE  /\ read' \in [Readers -> {"away", "acquiring", "using"}]
           /\ Using' = IF stage = "using" THEN Using \cup {r} ELSE Using \ {r}
<1>1. \A s \in Readers : read'[s] = IF s = r THEN stage ELSE read[s]
  BY DEF ReadTo, TypeOK
<1>2. read' \in [Readers -> {"away", "acquiring", "using"}]
  BY DEF ReadTo, TypeOK
<1>3. Using' = IF stage = "using" THEN Using \cup {r} ELSE Using \ {r}
  BY <1>1 DEF Using
<1>4. QED
  BY <1>2, <1>3

-----------------------------------------------------------------------------
(* Connections *)

PoolInv == TypeOK /\ ConnsAccounted

(* A step that keeps the sum keeps the type: idle cannot leave its range.  *)
LEMMA SumKept ==
    ASSUME ConnPoolAssumption, ConnsAccounted, TypeOK,
           idle' + Cardinality(Outer)' + Cardinality(Inner)'
                 + Cardinality(Using)'
             = idle + Cardinality(Outer) + Cardinality(Inner)
                    + Cardinality(Using),
           idle' \in Int, idle' >= 0
    PROVE  ConnsAccounted' /\ idle' \in 0..MaxConns
<1>1. /\ Cardinality(Outer)' \in Nat
      /\ Cardinality(Inner)' \in Nat
      /\ Cardinality(Using)' \in Nat
  <2>1. Outer' \subseteq Listers /\ Inner' \subseteq Listers /\ Using' \subseteq Readers
    BY DEF Outer, Inner, Using
  <2>2. IsFiniteSet(Outer') /\ IsFiniteSet(Inner') /\ IsFiniteSet(Using')
    BY <2>1, FS_Subset DEF ConnPoolAssumption
  <2>3. QED
    BY <2>2, FS_CardinalityType
<1>2. QED
  BY <1>1 DEF ConnPoolAssumption, ConnsAccounted

LEMMA PoolStep ==
    ASSUME ConnPoolAssumption
    PROVE  PoolInv /\ [Next]_vars => PoolInv'
<1> SUFFICES ASSUME TypeOK, ConnsAccounted, [Next]_vars
             PROVE  PoolInv'
  BY DEF PoolInv
<1> DEFINE Sum == idle + Cardinality(Outer) + Cardinality(Inner)
                       + Cardinality(Using)
<1>0. /\ idle \in Nat
      /\ IsFiniteSet(Outer) /\ Cardinality(Outer) \in Nat
      /\ IsFiniteSet(Inner) /\ Cardinality(Inner) \in Nat
      /\ IsFiniteSet(Using) /\ Cardinality(Using) \in Nat
  BY HoldersFinite DEF ConnPoolAssumption, TypeOK
<1> USE DEF ListStages
<1>1. ASSUME NEW l \in Listers, Request(l)
      PROVE  PoolInv'
  <2>1. l \notin Outer /\ l \notin Inner
    BY <1>1 DEF Request, Outer, Inner
  <2>2. Outer' = Outer /\ Inner' = Inner /\ list' \in [Listers -> ListStages]
    BY <1>1, <2>1, ListMoves DEF Request
  <2>3. Using' = Using
    BY <1>1 DEF Request, Using
  <2>4. QED
    BY <1>1, <2>2, <2>3 DEF Request, PoolInv, TypeOK, ConnsAccounted
<1>2. ASSUME NEW l \in Listers, Acquire(l)
      PROVE  PoolInv'
  <2>1. l \notin Outer /\ l \notin Inner
    BY <1>2 DEF Acquire, Outer, Inner
  <2>2. /\ Outer' = Outer \cup {l} /\ Inner' = Inner
        /\ list' \in [Listers -> ListStages]
    BY <1>2, <2>1, ListMoves DEF Acquire
  <2>3. Using' = Using /\ idle' = idle - 1 /\ idle > 0
    BY <1>2 DEF Acquire, Get, Using
  <2>4. Sum' = Sum
    BY <1>0, <2>1, <2>2, <2>3, CountOne
  <2>5. ConnsAccounted' /\ idle' \in 0..MaxConns
    BY <1>0, <2>3, <2>4, SumKept
  <2>6. rowsLeft' \in [Listers -> 0..MaxRows] /\ read' = read
    BY <1>2 DEF Acquire, TypeOK
  <2>7. QED
    BY <2>2, <2>5, <2>6 DEF PoolInv, TypeOK
<1>3. ASSUME NEW l \in Listers, NextRow(l)
      PROVE  PoolInv'
  <2>1. l \in Outer /\ l \notin Inner
    BY <1>3 DEF NextRow, Outer, Inner
  <2>2. Outer' = Outer /\ Inner' = Inner /\ list' \in [Listers -> ListStages]
    BY <1>3, <2>1, ListMoves DEF NextRow
  <2>3. Using' = Using
    BY <1>3 DEF NextRow, Using
  <2>4. rowsLeft' \in [Listers -> 0..MaxRows]
    BY <1>3 DEF ConnPoolAssumption, NextRow, TypeOK
  <2>5. QED
    BY <1>3, <2>2, <2>3, <2>4 DEF NextRow, PoolInv, TypeOK, ConnsAccounted
<1>4. ASSUME NEW l \in Listers, AcquireNested(l)
      PROVE  PoolInv'
  <2>1. l \in Outer /\ l \notin Inner
    BY <1>4 DEF AcquireNested, Outer, Inner
  <2>2. /\ Outer' = Outer /\ Inner' = Inner \cup {l}
        /\ list' \in [Listers -> ListStages]
    BY <1>4, <2>1, ListMoves DEF AcquireNested
  <2>3. Using' = Using /\ idle' = idle - 1 /\ idle > 0
    BY <1>4 DEF AcquireNested, Get, Using
  <2>4. Sum' = Sum
    BY <1>0, <2>1, <2>2, <2>3, CountOne
  <2>5. ConnsAccounted' /\ idle' \in 0..MaxConns
    BY <1>0, <2>3, <2>4, SumKept
  <2>6. QED
    BY <1>4, <2>2, <2>5 DEF AcquireNested, PoolInv, TypeOK
<1>5. ASSUME NEW l \in Listers, FlagsDone(l)
      PROVE  PoolInv'
  <2>1. l \in Outer /\ l \in Inner
    BY <1>5 DEF FlagsDone, Outer, Inner
  <2>2. /\ Outer' = Outer /\ Inner' = Inner \ {l}
        /\ list' \in [Listers -> ListStages]
    BY <1>5, <2>1, ListMoves DEF FlagsDone
  <2>3. Using' = Using /\ idle' = idle + 1
    BY <1>5 DEF FlagsDone, Using
  <2>4. Sum' = Sum
    BY <1>0, <2>1, <2>2, <2>3, CountOne
  <2>5. ConnsAccounted' /\ idle' \in 0..MaxConns
    BY <1>0, <2>3, <2>4, SumKept
  <2>6. QED
    BY <1>5, <2>2, <2>5 DEF FlagsDone, PoolInv, TypeOK
<1>6. ASSUME NEW l \in Listers, RowsDone(l)
      PROVE  PoolInv'
  <2>1. l \in Outer /\ l \notin Inner
    BY <1>6 DEF RowsDone, Outer, Inner
  <2>2. /\ Outer' = Outer \ {l} /\ Inner' = Inner
        /\ list' \in [Listers -> ListStages]
    BY <1>6, <2>1, ListMoves DEF RowsDone
  <2>3. Using' = Using /\ idle' = idle + 1
    BY <1>6 DEF RowsDone, Using
  <2>4. Sum' = Sum
    BY <1>0, <2>1, <2>2, <2>3, CountOne
  <2>5. ConnsAccounted' /\ idle' \in 0..MaxConns
    BY <1>0, <2>3, <2>4, SumKept
  <2>6. QED
    BY <1>6, <2>2, <2>5 DEF RowsDone, PoolInv, TypeOK
<1>7. ASSUME NEW l \in Listers, Abandon(l)
      PROVE  PoolInv'
  <2>1. /\ Outer' = Outer \ {l} /\ Inner' = Inner \ {l}
        /\ list' \in [Listers -> ListStages]
    BY <1>7, ListMoves DEF Abandon
  <2>2. Using' = Using
    BY <1>7 DEF Abandon, Using
  <2>3. idle' = idle + (IF l \in Outer THEN 1 ELSE 0)
                     + (IF l \in Inner THEN 1 ELSE 0)
    BY <1>7 DEF Abandon
  <2>4. /\ Cardinality(Outer')
             = Cardinality(Outer) - (IF l \in Outer THEN 1 ELSE 0)
        /\ Cardinality(Inner')
             = Cardinality(Inner) - (IF l \in Inner THEN 1 ELSE 0)
    <3>1. CASE l \in Outer /\ l \in Inner
      <4>1. /\ Cardinality(Outer') = Cardinality(Outer) - 1
            /\ Cardinality(Inner') = Cardinality(Inner) - 1
        BY <1>0, <2>1, <3>1, CountOne
      <4>2. QED
        BY <3>1, <4>1
    <3>2. CASE l \in Outer /\ l \notin Inner
      <4>1. Inner' = Inner
        BY <2>1, <3>2
      <4>2. Cardinality(Outer') = Cardinality(Outer) - 1
        BY <1>0, <2>1, <3>2, CountOne
      <4>3. QED
        BY <1>0, <3>2, <4>1, <4>2
    <3>3. CASE l \notin Outer
      <4>1. l \notin Inner /\ Outer' = Outer /\ Inner' = Inner
        BY <2>1, <3>3 DEF Outer, Inner
      <4>2. QED
        BY <1>0, <3>3, <4>1
    <3>4. QED
      BY <3>1, <3>2, <3>3
  <2>5. Sum' = Sum /\ idle' \in Nat
    BY <1>0, <2>2, <2>3, <2>4
  <2>6. ConnsAccounted' /\ idle' \in 0..MaxConns
    BY <2>5, SumKept
  <2>7. rowsLeft' \in [Listers -> 0..MaxRows] /\ read' = read
    BY <1>7 DEF ConnPoolAssumption, Abandon, TypeOK
  <2>8. QED
    BY <2>1, <2>6, <2>7 DEF PoolInv, TypeOK
<1>8. ASSUME NEW r \in Readers, BeginRead(r)
      PROVE  PoolInv'
  <2>1. r \notin Using
    BY <1>8 DEF BeginRead, Using
  <2>2. Using' = Using /\ read' \in [Readers -> {"away", "acquiring", "using"}]
    BY <1>8, <2>1, ReadMoves DEF BeginRead
  <2>3. Outer' = Outer /\ Inner' = Inner
    BY <1>8 DEF BeginRead, Outer, Inner
  <2>4. QED
    BY <1>8, <2>2, <2>3 DEF BeginRead, PoolInv, TypeOK, ConnsAccounted
<1>9. ASSUME NEW r \in Readers, AbandonRead(r)
       PROVE  PoolInv'
  <2>1. r \notin Using
    BY <1>9 DEF AbandonRead, Using
  <2>2. Using' = Using /\ read' \in [Readers -> {"away", "acquiring", "using"}]
    BY <1>9, <2>1, ReadMoves DEF AbandonRead
  <2>3. Outer' = Outer /\ Inner' = Inner
    BY <1>9 DEF AbandonRead, Outer, Inner
  <2>4. QED
    BY <1>9, <2>2, <2>3 DEF AbandonRead, PoolInv, TypeOK, ConnsAccounted
<1>10. ASSUME NEW r \in Readers, AcquireRead(r)
      PROVE  PoolInv'
  <2>1. r \notin Using
    BY <1>10 DEF AcquireRead, Using
  <2>2. /\ Using' = Using \cup {r}
        /\ read' \in [Readers -> {"away", "acquiring", "using"}]
    BY <1>10, ReadMoves DEF AcquireRead
  <2>3. Outer' = Outer /\ Inner' = Inner /\ idle' = idle - 1 /\ idle > 0
    BY <1>10 DEF AcquireRead, Get, Outer, Inner
  <2>4. Sum' = Sum
    BY <1>0, <2>1, <2>2, <2>3, CountOne
  <2>5. ConnsAccounted' /\ idle' \in 0..MaxConns
    BY <1>0, <2>3, <2>4, SumKept
  <2>6. QED
    BY <1>10, <2>2, <2>5 DEF AcquireRead, PoolInv, TypeOK
<1>11. ASSUME NEW r \in Readers, EndRead(r)
       PROVE  PoolInv'
  <2>1. r \in Using
    BY <1>11 DEF EndRead, Using
  <2>2. /\ Using' = Using \ {r}
        /\ read' \in [Readers -> {"away", "acquiring", "using"}]
    BY <1>11, ReadMoves DEF EndRead
  <2>3. Outer' = Outer /\ Inner' = Inner /\ idle' = idle + 1
    BY <1>11 DEF EndRead, Outer, Inner
  <2>4. Sum' = Sum
    BY <1>0, <2>1, <2>2, <2>3, CountOne
  <2>5. ConnsAccounted' /\ idle' \in 0..MaxConns
    BY <1>0, <2>3, <2>4, SumKept
  <2>6. QED
    BY <1>11, <2>2, <2>5 DEF EndRead, PoolInv, TypeOK
<1>12. CASE UNCHANGED vars
  BY <1>12 DEF vars, PoolInv, TypeOK, ConnsAccounted, Outer, Inner, Using
<1>13. QED
  BY <1>1, <1>2, <1>3, <1>4, <1>5, <1>6, <1>7, <1>8, <1>9, <1>10, <1>11, <1>12
     DEF Next, Lister, Reader

(* No path through the queries loses a connection, clients that go away in *)
(* the middle of a list included (query.go:75-88, 160-173).                *)
THEOREM PoolKeepsConnections ==
    ASSUME ConnPoolAssumption
    PROVE  Spec => [](TypeOK /\ ConnsAccounted)
<1>1. Init => PoolInv
  <2> SUFFICES ASSUME Init PROVE PoolInv
    OBVIOUS
  <2>1. Outer = {} /\ Inner = {} /\ Using = {}
    BY DEF Init, Outer, Inner, Using
  <2>2. TypeOK
    BY DEF ConnPoolAssumption, Init, TypeOK, ListStages
  <2>3. ConnsAccounted
    BY <2>1, FS_EmptySet DEF ConnPoolAssumption, Init, ConnsAccounted
  <2>4. QED
    BY <2>2, <2>3 DEF PoolInv
<1>2. QED
  BY <1>1, PoolStep, PTL DEF Spec, SafeSpec, PoolInv

(* The stages of every request and every query stay within their ranges,   *)
(* and the pool between empty and full (db.go:10-17, query.go:36-89).      *)
THEOREM PoolTypeCorrect ==
    ASSUME ConnPoolAssumption
    PROVE  Spec => []TypeOK
  BY PoolKeepsConnections, PTL

-----------------------------------------------------------------------------
(* Gridlock *)

(* When the pool has more connections than there are market lists, the     *)
(* lists cannot wait for each other: with no connection idle, one of the   *)
(* holders is at work.  Counting shows it: lists that all wait hold one    *)
(* connection each, fewer than the pool has (query.go:57, 85, db.go:15).   *)
THEOREM PoolNeverGridlocks ==
    ASSUME ConnPoolAssumption, PoolExceedsListers
    PROVE  Spec => []NoGridlock
<1>1. TypeOK /\ ConnsAccounted => NoGridlock
  <2> SUFFICES ASSUME TypeOK, ConnsAccounted, idle = 0,
                      \A l \in Listers : list[l] \notin {"reading", "flags"},
                      \A r \in Readers : read[r] # "using"
               PROVE  FALSE
    BY DEF NoGridlock
  <2>1. Inner = {} /\ Using = {}
    BY DEF Inner, Using
  <2>2. Cardinality(Inner) = 0 /\ Cardinality(Using) = 0
    BY <2>1, FS_EmptySet
  <2>3. Cardinality(Outer) <= Cardinality(Listers)
    <3>1. Outer \subseteq Listers
      BY DEF Outer
    <3>2. QED
      BY <3>1, FS_Subset DEF ConnPoolAssumption
  <2>4. Cardinality(Outer) = MaxConns
    BY <2>2, HoldersFinite DEF ConnPoolAssumption, ConnsAccounted
  <2>5. Cardinality(Listers) \in Nat
    BY FS_CardinalityType DEF ConnPoolAssumption
  <2>6. QED
    BY <2>3, <2>4, <2>5 DEF ConnPoolAssumption, PoolExceedsListers
<1>2. QED
  BY <1>1, PoolKeepsConnections, PTL
==============================================================================
