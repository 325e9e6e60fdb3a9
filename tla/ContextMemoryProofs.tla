------------------------ MODULE ContextMemoryProofs ------------------------
(***************************************************************************)
(* Theorems about ContextMemory, for any ids, keys and values, whether or  *)
(* not their texts coincide, and any number of failing writes and crashes. *)
(***************************************************************************)
EXTENDS ContextMemory, SequenceTheorems, TLAPS

\* The table has the rows that there may be, and no others.
RowsTotal == rows = [e \in EntityIds |-> rows[e]]

MemoryInv == MemoryTypeOK /\ RowsTotal /\ StoredUnlessAliased

USE MemoryAssumption

\* A row is found under its cell's text, and is not the absence of a row.
LEMMA RowFound ==
    ASSUME NEW c \in Cells, NEW item
    PROVE  EntityId(c) \in EntityIds /\ Row(c, item) # NoRow
  <1>1. c # <<>>
    <2>1. PICK ns \in Namespaces, k \in MemKeys : c = <<ns, k>>
      BY DEF Cells
    <2>2. Len(<<ns, k>>) = 2 /\ Len(<< >>) = 0
      OBVIOUS
    <2>3. QED
      BY <2>1, <2>2
  <1>2. Row(c, item).cell = c /\ NoRow.cell = <<>>
    BY DEF Row, NoRow
  <1>3. QED
    BY <1>1, <1>2 DEF EntityIds

\* What a cell is loaded as is an item.
LEMMA LoadedType ==
    ASSUME MemoryTypeOK, NEW c \in Cells
    PROVE  Loaded(c) \in Item
  <1>1. EntityId(c) \in EntityIds
    BY RowFound
  <1>2. QED
    BY <1>1 DEF Loaded, MemoryTypeOK, Item

\* A write of a cell, which may fail, keeps memory and rows in their types.
LEMMA WriteType ==
    ASSUME MemoryTypeOK, RowsTotal, NEW c \in Cells, NEW item \in Item,
           items' = [items EXCEPT ![c] = item], Persist(c, item)
    PROVE  MemoryTypeOK' /\ RowsTotal'
  <1>1. items' \in [Cells -> Item] /\ unsaved' \subseteq Cells
    BY DEF MemoryTypeOK, Persist
  <1>2. ASSUME NEW e \in EntityIds
        PROVE  \/ rows'[e] = NoRow
               \/ rows'[e].cell \in Cells /\ EntityId(rows'[e].cell) = e /\ rows'[e].item \in Item
    <2>1. CASE rows'[e] = rows[e]
      BY <2>1 DEF MemoryTypeOK
    <2>2. CASE e = EntityId(c) /\ rows'[e] = Row(c, item)
      BY <2>2 DEF Row
    <2>3. QED
      BY <2>1, <2>2 DEF Persist, RowsTotal
  <1>3. RowsTotal'
    BY DEF Persist, RowsTotal
  <1>4. QED
    BY <1>1, <1>2, <1>3 DEF MemoryTypeOK

\* Writing one cell takes nothing from the others but a row they share with it.
LEMMA WriteStored ==
    ASSUME MemoryInv, NEW c \in Cells, NEW item \in Item,
           items' = [items EXCEPT ![c] = item], Persist(c, item)
    PROVE  StoredUnlessAliased'
  <1> USE DEF MemoryInv
  <1> SUFFICES ASSUME NEW d \in Cells \ unsaved'
               PROVE  \/ items'[d] = Loaded(d)'
                      \/ /\ Loaded(d)' = NoItem
                         /\ \E a \in Alias(d) \ {d} : rows'[EntityId(d)].cell = a
    BY DEF StoredUnlessAliased, Alias
  <1>1. EntityId(c) \in EntityIds /\ EntityId(d) \in EntityIds /\ Row(c, item) # NoRow
    BY RowFound
  <1>2. CASE rows' = rows /\ unsaved' = unsaved \cup {c}
    <2>1. d # c /\ d \notin unsaved /\ items'[d] = items[d] /\ Loaded(d)' = Loaded(d)
      BY <1>2 DEF MemoryTypeOK, Loaded
    <2>2. QED
      BY <1>2, <2>1 DEF StoredUnlessAliased
  <1>3. CASE rows' = [rows EXCEPT ![EntityId(c)] = Row(c, item)] /\ unsaved' = unsaved \ {c}
    <2>1. CASE d = c
      <3>1. rows'[EntityId(c)] = Row(c, item) /\ items'[c] = item
        BY <1>1, <1>3 DEF RowsTotal, MemoryTypeOK
      <3>2. QED
        BY <1>1, <2>1, <3>1 DEF Loaded, Row
    <2>2. CASE d # c /\ EntityId(d) = EntityId(c)
      <3>1. rows'[EntityId(d)] = Row(c, item) /\ Row(c, item).cell = c
        BY <1>1, <1>3, <2>2 DEF RowsTotal, Row
      <3>2. Loaded(d)' = NoItem /\ c \in Alias(d) \ {d}
        BY <2>2, <3>1 DEF Loaded, Alias
      <3>3. QED
        BY <3>1, <3>2
    <2>3. CASE d # c /\ EntityId(d) # EntityId(c)
      <3>1. rows'[EntityId(d)] = rows[EntityId(d)] /\ items'[d] = items[d] /\ d \notin unsaved
        BY <1>1, <1>3, <2>3 DEF RowsTotal, MemoryTypeOK
      <3>2. Loaded(d)' = Loaded(d)
        BY <3>1 DEF Loaded
      <3>3. QED
        BY <3>1, <3>2 DEF StoredUnlessAliased
    <2>4. QED
      BY <2>1, <2>2, <2>3
  <1>4. QED
    BY <1>2, <1>3 DEF Persist

\* The invariant holds at the start.
LEMMA MemoryInitially == MemoryInit => MemoryInv
  <1> SUFFICES ASSUME MemoryInit PROVE MemoryInv
    OBVIOUS
  <1>1. \A c \in Cells : EntityId(c) \in EntityIds /\ Loaded(c) = NoItem
    BY RowFound DEF MemoryInit, Loaded
  <1>2. QED
    BY <1>1 DEF MemoryInit, MemoryInv, MemoryTypeOK, RowsTotal, StoredUnlessAliased, Item

\* And every step keeps it.
LEMMA MemoryStep == MemoryInv /\ [MemoryNext]_memoryVars => MemoryInv'
  <1> SUFFICES ASSUME MemoryInv, [MemoryNext]_memoryVars PROVE MemoryInv'
    OBVIOUS
  <1>1. ASSUME NEW c \in Cells, NEW v \in Values, PutItem(c, v) PROVE MemoryInv'
    <2> DEFINE item == [version |-> items[c].version + 1, value |-> v]
    <2>1. items[c] \in Item
      BY DEF MemoryInv, MemoryTypeOK
    <2>2. items[c].version \in Nat
      BY <2>1 DEF Item, NoItem
    <2>3. item \in Item
      BY <1>1, <2>2 DEF PutItem, Item
    <2>4. QED
      BY <1>1, <2>3, WriteType, WriteStored DEF PutItem, MemoryInv
  <1>2. ASSUME NEW c \in Cells, DeleteItem(c) PROVE MemoryInv'
    BY <1>2, WriteType, WriteStored DEF DeleteItem, Item, MemoryInv
  <1>3. CASE MemoryCrash
    <2>1. \A c \in Cells : Loaded(c)' = Loaded(c) /\ Loaded(c) \in Item
      BY <1>3, LoadedType DEF MemoryCrash, Loaded, MemoryInv
    <2>2. QED
      BY <1>3, <2>1
      DEF MemoryCrash, MemoryInv, MemoryTypeOK, RowsTotal, StoredUnlessAliased
  <1>4. CASE UNCHANGED memoryVars
    BY <1>4 DEF memoryVars, MemoryInv, MemoryTypeOK, RowsTotal, StoredUnlessAliased, Alias, Loaded
  <1>5. QED
    BY <1>1, <1>2, <1>3, <1>4 DEF MemoryNext

\* The invariant of memory and table.
THEOREM MemoryInvariance == MemorySpec => []MemoryInv
  BY MemoryInitially, MemoryStep, PTL DEF MemorySpec

\* What clients saw survives a restart, for any ids, keys and values: an item is lost
\* only to another one whose namespace and key read the same, or to a failed write
\* (ContextMemoryStore._state_entity_id, _persist, _load_state).
THEOREM MemoryDurable == MemorySpec => []StoredUnlessAliased
  BY MemoryInvariance, PTL DEF MemoryInv

-----------------------------------------------------------------------------
(* resolve: the values that a run of a project sees.                       *)

\* Short sequences joined.
LEMMA Joined ==
    ASSUME NEW x, NEW y, NEW z
    PROVE  /\ <<x>> \o <<>> = <<x>> /\ <<x>> \o <<y>> = <<x, y>>
           /\ <<x, y>> \o <<>> = <<x, y>> /\ <<x, y>> \o <<z>> = <<x, y, z>>
  <1> DEFINE S == {x, y, z}
  <1>1. <<x>> \in Seq(S) /\ <<y>> \in Seq(S) /\ <<z>> \in Seq(S) /\ <<x, y>> \in Seq(S) /\ <<x, y, z>> \in Seq(S)
    OBVIOUS
  <1>2. /\ Len(<<x>>) = 1 /\ Len(<<y>>) = 1 /\ Len(<<z>>) = 1 /\ Len(<<x, y>>) = 2 /\ Len(<<x, y, z>>) = 3
    OBVIOUS
  <1>3. <<x>> \o <<>> = <<x>> /\ <<x, y>> \o <<>> = <<x, y>>
    BY <1>1, ConcatEmptySeq
  <1>4. <<x>> \o <<y>> = <<x, y>>
    <2> DEFINE t == <<x>> \o <<y>>
    <2>1. t \in Seq(S) /\ Len(t) = 2 /\ t[1] = x /\ t[2] = y
      BY <1>1, <1>2, ConcatProperties
    <2> HIDE DEF t
    <2>2. \A i \in 1 .. Len(t) : t[i] = <<x, y>>[i]
      BY <2>1
    <2>3. QED
      BY <1>1, <1>2, <2>1, <2>2, SeqEqual DEF t
  <1>5. <<x, y>> \o <<z>> = <<x, y, z>>
    <2> DEFINE t == <<x, y>> \o <<z>>
    <2>1. t \in Seq(S) /\ Len(t) = 3 /\ t[1] = x /\ t[2] = y /\ t[3] = z
      BY <1>1, <1>2, ConcatProperties
    <2> HIDE DEF t
    <2>2. \A i \in 1 .. Len(t) : t[i] = <<x, y, z>>[i]
      BY <2>1
    <2>3. QED
      BY <1>1, <1>2, <2>1, <2>2, SeqEqual DEF t
  <1>6. QED
    BY <1>3, <1>4, <1>5

\* The namespaces that are looked through: one of each kind that was asked for.
LEMMA ChainShape ==
    ASSUME NEW p, NEW r
    PROVE  Chain(p, r) = IF p = NoScope
                         THEN IF r = NoScope THEN <<Shared>> ELSE <<Shared, RunScope(r)>>
                         ELSE IF r = NoScope THEN <<Shared, Project(p)>>
                                             ELSE <<Shared, Project(p), RunScope(r)>>
  <1> DEFINE s == Shared
             x == Project(p)
             y == RunScope(r)
  <1>1. /\ <<s>> \o <<>> = <<s>> /\ <<s>> \o <<x>> = <<s, x>> /\ <<s>> \o <<y>> = <<s, y>>
        /\ <<s, x>> \o <<>> = <<s, x>> /\ <<s, x>> \o <<y>> = <<s, x, y>>
    <2> HIDE DEF s, x, y
    <2>1. QED
      BY Joined
  <1>2. Chain(p, r) = (<<s>> \o (IF p = NoScope THEN <<>> ELSE <<x>>)) \o (IF r = NoScope THEN <<>> ELSE <<y>>)
    BY DEF Chain
  <1> HIDE DEF s, x, y
  <1>3. Chain(p, r) = IF p = NoScope
                         THEN IF r = NoScope THEN <<s>> ELSE <<s, y>>
                         ELSE IF r = NoScope THEN <<s, x>> ELSE <<s, x, y>>
    BY <1>1, <1>2, Zenon
  <1>4. QED
    BY <1>3 DEF s, x, y

\* Resolve, with its recursion unrolled: the chain has at most three namespaces.
LEMMA ResolveUnrolled ==
    ASSUME NEW p, NEW r, NEW keys
    PROVE  LET chain == Chain(p, r)
               one == Merge(<<>>, chain[1], keys)
               two == Merge(one, chain[2], keys)
               three == Merge(two, chain[3], keys)
           IN  Resolve(p, r, keys) = IF Len(chain) = 1 THEN one ELSE IF Len(chain) = 2 THEN two ELSE three
  <1> DEFINE chain == Chain(p, r)
             one == Merge(<<>>, chain[1], keys)
             two == Merge(one, chain[2], keys)
             three == Merge(two, chain[3], keys)
             L == Len(chain)
             Body(m) == [n \in 0 .. L |-> IF n = 0 THEN <<>> ELSE Merge(m[n - 1], chain[n], keys)]
             W == [n \in 0 .. L |-> IF n = 0 THEN <<>> ELSE IF n = 1 THEN one
                                    ELSE IF n = 2 THEN two ELSE three]
             M == CHOOSE m : m = Body(m)
  <1>1. L \in 1 .. 3
    BY ChainShape
  <1>2. Resolve(p, r, keys) = M[L]
    BY DEF Resolve
  <1>3. W = Body(W)
    <2>1. ASSUME NEW n \in 0 .. L PROVE W[n] = Body(W)[n]
      <3> HIDE DEF one, two, three, chain, L
      <3>1. n \in {0, 1, 2, 3}
        BY <1>1
      <3>2. CASE n = 0
        BY <3>2
      <3>3. CASE n = 1
        <4>1. W[n] = Merge(<<>>, chain[1], keys) /\ W[0] = <<>>
          BY <1>1, <3>3 DEF one
        <4>2. Body(W)[n] = Merge(W[0], chain[1], keys)
          BY <3>3
        <4>3. QED
          BY <4>1, <4>2, Zenon
      <3>4. CASE n = 2
        <4>1. W[n] = Merge(one, chain[2], keys) /\ W[1] = one
          BY <1>1, <3>4 DEF two
        <4>2. Body(W)[n] = Merge(W[1], chain[2], keys)
          BY <3>4
        <4>3. QED
          BY <4>1, <4>2, Zenon
      <3>5. CASE n = 3
        <4>1. W[n] = Merge(two, chain[3], keys) /\ W[2] = two
          BY <1>1, <3>5 DEF three
        <4>2. Body(W)[n] = Merge(W[2], chain[3], keys)
          BY <3>5
        <4>3. QED
          BY <4>1, <4>2, Zenon
      <3>6. QED
        BY <3>1, <3>2, <3>3, <3>4, <3>5
    <2>2. QED
      BY <2>1
  <1> HIDE DEF W
  <1>4. M = Body(M)
    <2> HIDE DEF Body
    <2>1. QED
      BY <1>3
  <1> HIDE DEF M
  <1>5. \A n \in 0 .. L : M[n] = IF n = 0 THEN <<>> ELSE Merge(M[n - 1], chain[n], keys)
    <2>1. \A n \in 0 .. L : Body(M)[n] = IF n = 0 THEN <<>> ELSE Merge(M[n - 1], chain[n], keys)
      OBVIOUS
    <2> HIDE DEF Body
    <2>2. QED
      BY <1>4, <2>1
  <1> HIDE DEF Body, chain, L
  <1>6. M[0] = <<>> /\ M[1] = one
    BY <1>1, <1>5
  <1>7. L >= 2 => M[2] = two
    BY <1>1, <1>5, <1>6
  <1>8. L >= 3 => M[3] = three
    BY <1>1, <1>5, <1>7
  <1>9. M[L] = IF L = 1 THEN one ELSE IF L = 2 THEN two ELSE three
    BY <1>1, <1>6, <1>7, <1>8
  <1>10. QED
    BY <1>2, <1>9 DEF L, chain

\* The item of a namespace, as an answer shows it.
Shown(ns, k) == [value |-> items[<<ns, k>>].value, source |-> ns]

\* One more namespace adds what it holds, in place of what was found before.
LEMMA MergeDomain ==
    ASSUME NEW found, NEW ns, NEW keys
    PROVE  DOMAIN Merge(found, ns, keys) = DOMAIN found \cup Held(ns, keys)
  BY DEF Merge

\* What it makes of one key.
LEMMA MergeFinds ==
    ASSUME NEW found, NEW ns, NEW keys, NEW k \in DOMAIN found \cup Held(ns, keys)
    PROVE  Merge(found, ns, keys)[k] = IF k \in Held(ns, keys) THEN Shown(ns, k) ELSE found[k]
  BY DEF Merge, Shown

\* What the project of a call and its run hold, if it names them.
InProject(p, keys) == IF p = NoScope THEN {} ELSE Held(Project(p), keys)
InRun(r, keys) == IF r = NoScope THEN {} ELSE Held(RunScope(r), keys)

\* An answer that has what the three namespaces hold, each key from the last of them.
Layered(answer, p, r, keys) ==
    /\ DOMAIN answer = Held(Shared, keys) \cup InProject(p, keys) \cup InRun(r, keys)
    /\ \A k \in DOMAIN answer :
            answer[k] = IF k \in InRun(r, keys) THEN Shown(RunScope(r), k)
                        ELSE IF k \in InProject(p, keys) THEN Shown(Project(p), k)
                        ELSE Shown(Shared, k)

\* Resolve finds what the shared namespace, the project's and the run's hold, layer by layer.
LEMMA ResolveLayers ==
    ASSUME NEW p, NEW r, NEW keys
    PROVE  Layered(Resolve(p, r, keys), p, r, keys)
  <1> DEFINE chain == Chain(p, r)
             one == Merge(<<>>, chain[1], keys)
             two == Merge(one, chain[2], keys)
             three == Merge(two, chain[3], keys)
             answer == Resolve(p, r, keys)
  <1>1. answer = IF Len(chain) = 1 THEN one ELSE IF Len(chain) = 2 THEN two ELSE three
    BY ResolveUnrolled, Zenon
  <1>2. chain[1] = Shared
    BY ChainShape
  <1> HIDE DEF chain, answer
  <1>3. DOMAIN one = Held(Shared, keys) /\ \A k \in DOMAIN one : one[k] = Shown(Shared, k)
    <2>1. DOMAIN <<>> = {} /\ one = Merge(<<>>, Shared, keys)
      BY <1>2
    <2>2. DOMAIN one = Held(Shared, keys)
      <3>1. DOMAIN Merge(<<>>, Shared, keys) = DOMAIN <<>> \cup Held(Shared, keys)
        BY MergeDomain, Zenon
      <3>2. QED
        BY <2>1, <3>1, Zenon
    <2> HIDE DEF one
    <2>3. ASSUME NEW k \in DOMAIN one PROVE one[k] = Shown(Shared, k)
      BY <2>1, <2>2, MergeFinds
    <2>4. QED
      BY <2>2, <2>3
  <1> HIDE DEF one
  <1>4. /\ DOMAIN two = DOMAIN one \cup Held(chain[2], keys)
        /\ \A k \in DOMAIN two : two[k] = IF k \in Held(chain[2], keys) THEN Shown(chain[2], k) ELSE one[k]
    BY ONLY MergeDomain, MergeFinds DEF two
  <1> HIDE DEF two
  <1>5. /\ DOMAIN three = DOMAIN two \cup Held(chain[3], keys)
        /\ \A k \in DOMAIN three : three[k] = IF k \in Held(chain[3], keys) THEN Shown(chain[3], k) ELSE two[k]
    BY ONLY MergeDomain, MergeFinds DEF three
  <1>6. /\ p = NoScope /\ r = NoScope => Len(chain) = 1
        /\ p # NoScope /\ r = NoScope => Len(chain) = 2 /\ chain[2] = Project(p)
        /\ p = NoScope /\ r # NoScope => Len(chain) = 2 /\ chain[2] = RunScope(r)
        /\ p # NoScope /\ r # NoScope =>
                Len(chain) = 3 /\ chain[2] = Project(p) /\ chain[3] = RunScope(r)
    BY ChainShape DEF chain
  <1> HIDE DEF three
  <1>7. CASE p = NoScope /\ r = NoScope
    BY ONLY <1>1, <1>3, <1>6, <1>7 DEF Layered, InProject, InRun, answer
  <1>8. CASE p # NoScope /\ r = NoScope
    BY ONLY <1>1, <1>3, <1>4, <1>6, <1>8 DEF Layered, InProject, InRun, answer
  <1>9. CASE p = NoScope /\ r # NoScope
    BY ONLY <1>1, <1>3, <1>4, <1>6, <1>9 DEF Layered, InProject, InRun, answer
  <1>10. CASE p # NoScope /\ r # NoScope
    BY ONLY <1>1, <1>3, <1>4, <1>5, <1>6, <1>10 DEF Layered, InProject, InRun, answer
  <1>11. QED
    BY <1>7, <1>8, <1>9, <1>10 DEF answer

\* Whatever memory holds, an answer has each key from the nearest namespace that holds it.
LEMMA EveryAnswer == NearestWins
  <1> SUFFICES ASSUME NEW p \in ProjectIds \cup {NoScope}, NEW r \in RunIds \cup {NoScope},
                      NEW keys \in SUBSET MemKeys
               PROVE  LET answer == Resolve(p, r, keys)
                      IN  /\ DOMAIN answer = {k \in keys : items[<<Nearest(p, r, k), k>>] # NoItem}
                          /\ \A k \in DOMAIN answer : LET ns == Nearest(p, r, k)
                               IN  answer[k] = [source |-> ns, value |-> items[<<ns, k>>].value]
    BY DEF NearestWins
  <1> DEFINE inProject == InProject(p, keys)
             inRun == InRun(r, keys)
             answer == Resolve(p, r, keys)
  <1>1. /\ DOMAIN answer = Held(Shared, keys) \cup inProject \cup inRun
        /\ \A k \in DOMAIN answer : answer[k] = IF k \in inRun THEN Shown(RunScope(r), k)
                                                ELSE IF k \in inProject THEN Shown(Project(p), k)
                                                ELSE Shown(Shared, k)
    <2>1. Layered(answer, p, r, keys)
      BY ResolveLayers
    <2> HIDE DEF answer
    <2>2. QED
      BY <2>1 DEF Layered
  <1>2. ASSUME NEW k \in keys
        PROVE  Nearest(p, r, k) = IF k \in inRun THEN RunScope(r)
                                  ELSE IF k \in inProject THEN Project(p) ELSE Shared
    BY DEF Nearest, Held, InProject, InRun
  <1>3. DOMAIN answer = {k \in keys : items[<<Nearest(p, r, k), k>>] # NoItem}
    <2>1. /\ \A k : k \in Held(Shared, keys) <=> k \in keys /\ items[<<Shared, k>>] # NoItem
          /\ \A k : k \in inProject <=> p # NoScope /\ k \in keys /\ items[<<Project(p), k>>] # NoItem
          /\ \A k : k \in inRun <=> r # NoScope /\ k \in keys /\ items[<<RunScope(r), k>>] # NoItem
      BY DEF Held, InProject, InRun
    <2> HIDE DEF inRun, inProject, answer
    <2>2. QED
      BY <1>1, <1>2, <2>1
  <1>4. ASSUME NEW k \in DOMAIN answer
        PROVE  answer[k] = [source |-> Nearest(p, r, k), value |-> items[<<Nearest(p, r, k), k>>].value]
    <2>1. k \in keys
      BY <1>3
    <2> HIDE DEF inRun, inProject, answer
    <2>2. answer[k] = Shown(Nearest(p, r, k), k)
      BY <1>1, <1>2, <2>1
    <2>3. QED
      BY <2>2 DEF Shown
  <1>5. QED
    BY <1>3, <1>4, Zenon

\* Whatever was written, deleted or lost before, what resolve returns comes from the
\* nearest namespace that holds it (ContextMemoryStore.resolve).
THEOREM NearestAnswer == MemorySpec => []NearestWins
  BY EveryAnswer, PTL
=============================================================================
