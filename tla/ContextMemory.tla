---------------------------- MODULE ContextMemory ----------------------------
(***************************************************************************)
(* ContextMemoryStore: values under keys in three kinds of namespace, one  *)
(* shared, one per project and one per run, held in memory and in one      *)
(* table of the store.  The handlers are synchronous, so no two overlap;   *)
(* each changes memory first and then writes one row, which may fail.      *)
(*                                                                         *)
(* A row is found by the text namespace "::" key.  Ids and keys come from  *)
(* clients and may hold the separator themselves: they are sequences of    *)
(* the parts between separators here, and the text is their concatenation. *)
(***************************************************************************)
EXTENDS Naturals, FiniteSets, Sequences

CONSTANTS
    ProjectIds, RunIds, \* ids, as non-empty sequences of parts
    MemKeys,            \* keys, likewise
    Values,             \* what clients store
    MaxVersion,         \* bound on the writes of one item
    MaxRows,            \* bound on the items and tombstones that there are
    MaxMemoryFaults, MaxMemoryCrashes \* bounds on failing writes and on crashes

ASSUME MemoryAssumption ==
    /\ \A id \in ProjectIds \cup RunIds \cup MemKeys : id # <<>>
    /\ {MaxVersion, MaxRows, MaxMemoryFaults, MaxMemoryCrashes} \subseteq Nat

VARIABLES
    items,   \* _items_by_namespace: per namespace and key the item, or NoItem
    rows,    \* per entity id the row, or NoRow
    unsaved, \* history: the items whose last write did not reach the store
    memoryFaults, memoryCrashes

memoryVars == <<items, rows, unsaved, memoryFaults, memoryCrashes>>

Shared == [scope |-> "shared", id |-> <<>>]
Project(p) == [scope |-> "project", id |-> p]
RunScope(r) == [scope |-> "run", id |-> r]
Namespaces == {Shared} \cup {Project(p) : p \in ProjectIds} \cup {RunScope(r) : r \in RunIds}

Cells == Namespaces \X MemKeys
NoItem == [version |-> 0]
NoRow == [cell |-> <<>>]

\* _state_entity_id: the parts of the namespace and of the key, nothing marking the border.
EntityId(cell) == <<cell[1].scope>> \o cell[1].id \o cell[2]
EntityIds == {EntityId(c) : c \in Cells}

MemoryInit ==
    /\ items = [c \in Cells |-> NoItem]
    /\ rows = [e \in EntityIds |-> NoRow]
    /\ unsaved = {}
    /\ memoryFaults = 0
    /\ memoryCrashes = 0

-----------------------------------------------------------------------------
\* The row names its own namespace and key; a deleted item leaves a tombstone.
Row(cell, item) == [cell |-> cell, item |-> item]

\* _persist: the row is written, or the store raises and memory keeps the change.
Persist(cell, item) ==
    \/ /\ rows' = [rows EXCEPT ![EntityId(cell)] = Row(cell, item)]
       /\ unsaved' = unsaved \ {cell}
       /\ UNCHANGED memoryFaults
    \/ /\ memoryFaults < MaxMemoryFaults
       /\ memoryFaults' = memoryFaults + 1
       /\ unsaved' = unsaved \cup {cell}
       /\ UNCHANGED rows

Bounded(cell) ==
    \/ rows[EntityId(cell)] # NoRow \/ items[cell] # NoItem
    \/ Cardinality({e \in EntityIds : rows[e] # NoRow}) < MaxRows

\* The version counts the writes since the item was created or deleted.
PutItem(cell, v) ==
    LET item == [version |-> items[cell].version + 1, value |-> v]
    IN  /\ Bounded(cell) /\ item.version <= MaxVersion
        /\ items' = [items EXCEPT ![cell] = item]
        /\ Persist(cell, item)
        /\ UNCHANGED memoryCrashes

\* Mutant: a deleted item leaves no tombstone.
DeleteItemUnsaved(cell) ==
    /\ Bounded(cell)
    /\ items' = [items EXCEPT ![cell] = NoItem]
    /\ UNCHANGED <<rows, unsaved, memoryFaults, memoryCrashes>>

\* A tombstone is written also where there was nothing to delete.
DeleteItem(cell) ==
    /\ Bounded(cell)
    /\ items' = [items EXCEPT ![cell] = NoItem]
    /\ Persist(cell, NoItem)
    /\ UNCHANGED memoryCrashes

\* _load_state: the rows that are not deleted, each under the names it holds.
Loaded(cell) ==
    LET row == rows[EntityId(cell)]
    IN  IF row # NoRow /\ row.cell = cell THEN row.item ELSE NoItem

MemoryCrash ==
    /\ memoryCrashes < MaxMemoryCrashes
    /\ memoryCrashes' = memoryCrashes + 1
    /\ items' = [c \in Cells |-> Loaded(c)]
    /\ unsaved' = {}
    /\ UNCHANGED <<rows, memoryFaults>>

MemoryNext ==
    \/ \E c \in Cells, v \in Values : PutItem(c, v)
    \/ \E c \in Cells : DeleteItem(c)
    \/ MemoryCrash

MemorySpec == MemoryInit /\ [][MemoryNext]_memoryVars

-----------------------------------------------------------------------------
(* resolve: the values that a run of a project sees.  NoScope stands for an *)
(* id the caller leaves out.                                                *)

NoScope == <<>>

Chain(p, r) ==
    <<Shared>> \o (IF p = NoScope THEN <<>> ELSE <<Project(p)>>)
               \o (IF r = NoScope THEN <<>> ELSE <<RunScope(r)>>)

Held(ns, keys) == {k \in keys : items[<<ns, k>>] # NoItem}

\* One pass over the chain, in which a later namespace writes over an earlier one.
Merge(found, ns, keys) ==
    [k \in DOMAIN found \cup Held(ns, keys) |->
       IF k \in Held(ns, keys) THEN [value |-> items[<<ns, k>>].value, source |-> ns]
                               ELSE found[k]]

Resolve(p, r, keys) ==
    LET chain == Chain(p, r)
        merged[n \in 0 .. Len(chain)] ==
          IF n = 0 THEN <<>> ELSE Merge(merged[n - 1], chain[n], keys)
    IN  merged[Len(chain)]

-----------------------------------------------------------------------------
Item == {NoItem} \cup [version : 1..MaxVersion, value : Values]

MemoryTypeOK ==
    /\ items \in [Cells -> Item]
    /\ \A e \in EntityIds : \/ rows[e] = NoRow
                            \/ /\ rows[e].cell \in Cells /\ EntityId(rows[e].cell) = e
                               /\ rows[e].item \in Item
    /\ unsaved \subseteq Cells

\* The nearest namespace that holds a key: the run's, else the project's; else the shared
\* one, whether it holds the key or not.
Nearest(p, r, k) ==
    IF r # NoScope /\ items[<<RunScope(r), k>>] # NoItem THEN RunScope(r)
    ELSE IF p # NoScope /\ items[<<Project(p), k>>] # NoItem THEN Project(p)
    ELSE Shared

\* What resolve returns for a key comes from the nearest namespace that holds it; a key
\* that no namespace of the call holds, or that was not asked for, is not in the answer.
NearestWins ==
    \A p \in ProjectIds \cup {NoScope}, r \in RunIds \cup {NoScope}, keys \in SUBSET MemKeys :
      LET answer == Resolve(p, r, keys)
      IN  /\ DOMAIN answer = {k \in keys : items[<<Nearest(p, r, k), k>>] # NoItem}
          /\ \A k \in DOMAIN answer : LET ns == Nearest(p, r, k)
               IN  answer[k] = [source |-> ns, value |-> items[<<ns, k>>].value]

Alias(c) == {d \in Cells : EntityId(d) = EntityId(c)}

\* A restart brings back what clients saw: every item whose last write did not fail is
\* stored, and every deleted one is gone, as long as its text of namespace and key is its
\* own.  Where two share it, the row belongs to the one written last; the other is lost.
StoredUnlessAliased ==
    \A c \in Cells \ unsaved :
      \/ items[c] = Loaded(c)
      \/ Loaded(c) = NoItem /\ \E d \in Alias(c) \ {c} : rows[EntityId(c)].cell = d
=============================================================================
