------------------------------- MODULE ListRef -------------------------------
(***************************************************************************)
(* A list of containers and the refs of its items (packages/change,        *)
(* ListRefBase and MovableListRef).  A ref knows the index it was made for *)
(* and takes the item there when it is first used; inside change() refs    *)
(* are cached by index, and an insertion or a deletion moves the cache     *)
(* along with the items; outside each access makes a new ref.              *)
(***************************************************************************)
EXTENDS Naturals, FiniteSets, SequencesExt

CONSTANTS
  Items,   \* containers
  None,
  Movable, \* a movable list: it has move()
  Risks    \* "lazy": the list shifts under a ref that was never used;
           \* "move": items move while refs are cached

ListRefAssumption == None \notin Items /\ Movable \in BOOLEAN /\ Risks \subseteq {"lazy", "move"}

VARIABLES
  items,     \* the list
  itemCache, \* index -> ref: the index it was made for, the item it took
  inside     \* inside change()

vars == <<items, itemCache, inside>>

Indices == DOMAIN items

(* getChildTypedRefParams: the container a ref works on; none when there   *)
(* is no item at its index.                                                *)
Taken(ref) == IF ref.item # None THEN ref.item
              ELSE IF ref.made \in Indices THEN items[ref.made] ELSE None

(* The refs of a cache whose indices a change of the list moves.           *)
Unused == {i \in DOMAIN itemCache : itemCache[i].item = None}
Steady(from) == (\E i \in Unused : i >= from) => "lazy" \in Risks

Init ==
  /\ items = <<>> /\ itemCache = <<>> /\ inside = FALSE

-----------------------------------------------------------------------------
(* change() begins and ends; finalizeTransaction clears the cache.         *)
Begin == ~inside /\ inside' = TRUE /\ UNCHANGED <<items, itemCache>>
FinalizeTransaction ==
  /\ inside
  /\ inside' = FALSE /\ itemCache' = <<>>
  /\ UNCHANGED items

(* The refs of a cache, at the indices f gives them.                       *)
Shifted(f(_), stay) ==
  LET moved == {f(i) : i \in stay}
  IN  [j \in moved |-> itemCache[CHOOSE i \in stay : f(i) = j]]

UpdateCacheForInsert(index) ==
  LET At(i) == IF i < index THEN i ELSE i + 1 IN Shifted(At, DOMAIN itemCache)

(* Bug: the refs behind a deletion keep their indices.                     *)
RefsStay(index, len) ==
  [i \in DOMAIN itemCache \ (index .. index + len - 1) |-> itemCache[i]]

UpdateCacheForDelete(index, len) ==
  LET At(i) == IF i < index THEN i ELSE i - len
  IN  Shifted(At, {i \in DOMAIN itemCache : i < index \/ i >= index + len})

Insert(index, x) ==
  /\ index \in 1..Len(items) + 1 /\ x \notin ToSet(items)
  /\ Steady(index)
  /\ itemCache' = UpdateCacheForInsert(index)
  /\ items' = InsertAt(items, index, x)
  /\ UNCHANGED inside

Push(x) ==
  /\ x \notin ToSet(items)
  /\ items' = Append(items, x)
  /\ UNCHANGED <<itemCache, inside>>

(* A deletion past the end throws when the cache has already moved.        *)
Delete(index, len) ==
  LET fails == index + len > Len(items) + 1
  IN  /\ index \in Indices /\ len > 0
      /\ Steady(index + len)
      /\ itemCache' = UpdateCacheForDelete(index, len)
      /\ items' = IF fails THEN items
                  ELSE SubSeq(items, 1, index - 1) \o SubSeq(items, index + len, Len(items))
      /\ UNCHANGED inside

(* move() leaves the cache alone.                                          *)
Move(from, to) ==
  /\ Movable /\ from \in Indices /\ to \in Indices /\ from # to
  /\ (DOMAIN itemCache) \cap 1..Len(items) # {} => "move" \in Risks
  /\ items' = InsertAt(RemoveAt(items, from), to, items[from])
  /\ UNCHANGED <<itemCache, inside>>

(* getMutableItem: the ref of an index.                                    *)
GetMutableItem(index) ==
  IF inside /\ index \in DOMAIN itemCache THEN itemCache[index]
  ELSE [made |-> index, item |-> None]

Cached(index, ref) ==
  IF inside THEN [i \in DOMAIN itemCache \cup {index} |-> IF i = index THEN ref ELSE itemCache[i]]
  ELSE itemCache

Get(index) ==
  /\ index \in Indices
  /\ itemCache' = Cached(index, GetMutableItem(index))
  /\ UNCHANGED <<items, inside>>

(* An edit through get(index), or set(index), which updates the container  *)
(* that is there: the ref takes its item.                                  *)
Edit(index) ==
  LET ref == GetMutableItem(index)
  IN  /\ index \in Indices /\ Taken(ref) # None
      /\ itemCache' = Cached(index, [ref EXCEPT !.item = Taken(ref)])
      /\ UNCHANGED <<items, inside>>

(* find: the predicate sees the item as it is, the caller gets its ref.    *)
Find(x) == \E i \in Indices :
  /\ items[i] = x /\ \A j \in 1..i - 1 : items[j] # x
  /\ Get(i)

Next ==
  \/ Begin \/ FinalizeTransaction
  \/ \E x \in Items : Push(x) \/ Find(x)
  \/ \E i \in 1..Cardinality(Items) :
       \/ Get(i) \/ Edit(i)
       \/ \E x \in Items : Insert(i, x)
       \/ \E n \in 1..Cardinality(Items) : Delete(i, n) \/ Move(i, n)

Spec == Init /\ [][Next]_vars

-----------------------------------------------------------------------------
(* Inside change(), get(index) gives the item that is at index, whatever   *)
(* was inserted and deleted since a ref of it was cached.                  *)
GetIsItem == \A i \in DOMAIN itemCache : i \in Indices /\ Taken(itemCache[i]) = items[i]
=============================================================================
