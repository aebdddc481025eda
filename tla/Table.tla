------------------------------- MODULE Table -------------------------------
(***************************************************************************)
(* The tables of Lua (ltable.c): an array part and a hash part, a chained   *)
(* scatter table with Brent's variation, in which a colliding key sits in   *)
(* its main position or the node that took that position sits in its own.   *)
(* A node's next is relative, 0 at the end of a chain.                      *)
(*                                                                         *)
(* A key is a record of its kind, its number and its hash: for a string or  *)
(* an object any number (luaS_hash and addresses are abstracted to it), for *)
(* a float n halves.  Scripts assign fields and traverse the table with     *)
(* next; the collector turns keys of empty entries into dead keys.          *)
(***************************************************************************)
EXTENDS Integers, FiniteSets, Sequences, FiniteSetsExt

CONSTANTS
  Keys,      \* the keys that scripts use
  Values,    \* the values they store, none of them Nil
  MaxABits,  \* MAXABITS: the array part has up to 2^MaxABits slots
  MaxInt,    \* MAX_INT, the largest index before unbound_search gives up
  MaxItems,  \* a bound: the positional items of a constructor
  Rooms      \* the sizes that a constructor may ask for its hash part

Nil == 0
Index(n) == [kind |-> "int", n |-> n, hash |-> n]
Kinds == {"int", "flt", "str", "bool", "obj"}

ASSUME TableConstants == /\ MaxABits \in Nat /\ MaxInt \in Nat
                         /\ MaxItems \in Nat /\ Rooms \subseteq Nat
                         /\ Values \subseteq Nat \ {Nil}
                         /\ Keys \subseteq [kind : Kinds, n : Int, hash : Int]
                         /\ \A k \in Keys : k.kind = "int" => k = Index(k.n)

VARIABLES
  table,      \* the table: array, node, lastfree, dummy, and stuck, which is set
              \* if the insertions of a rehash should need another rehash
  contents,   \* what scripts have stored: a value or Nil for every key
  last,       \* the control variable of a traversal: a key, NoKey or Idle,
              \* or Making while the constructor runs
  seen        \* the keys the traversal has visited

tableVars == <<table, contents, last, seen>>

NoKey == [kind |-> "nil", n |-> 0, hash |-> 0]
Making == [kind |-> "making", n |-> 0, hash |-> 0]
Idle == [kind |-> "idle", n |-> 0, hash |-> 0]
Collectable(k) == k.kind \in {"str", "obj"}

EmptyNode == [key |-> NoKey, dead |-> FALSE, val |-> Nil, next |-> 0]
SizeNode(t) == Cardinality(DOMAIN t.node)

Twos[i \in 0 .. MaxABits] == IF i = 0 THEN 1 ELSE 2 * Twos[i - 1]

(* MAXASIZE is above every int, the sizes that constructors ask for among them. *)
ASSUME ItemsFit == MaxItems <= Twos[MaxABits]

(* The least power of two that is n or more: twoto(luaO_ceillog2(n)).       *)
TwoTo(n) ==
  LET up[p \in 1 .. (2 * n)] == IF p >= n THEN p ELSE up[2 * p] IN up[1]

(* numisinteger: a float with an integral value is that integer. *)
Integral(k) == k.kind = "flt" /\ k.n % 2 = 0
Normal(k) == IF Integral(k) THEN Index(k.n \div 2) ELSE k

(* Sizes are powers of two; for floats and pointers the code divides by the *)
(* odd number below the size instead.                                       *)
MainPosition(t, k) ==
  LET n == SizeNode(t)
  IN IF k.kind \in {"int", "str", "bool"} THEN k.hash % n
     ELSE k.hash % (IF n = 1 THEN 1 ELSE n - 1)

ArrayIndex(k) == IF k.kind = "int" /\ k.n \in 1 .. Twos[MaxABits] THEN k.n ELSE 0

-----------------------------------------------------------------------------
(* Search. *)

(* The first node of the chain through i that is one of S, or -1. *)
Along(t, i, S) ==
  LET walk[j \in DOMAIN t.node] ==
        IF j \in S \/ t.node[j].next = 0 THEN j ELSE walk[j + t.node[j].next]
  IN IF walk[i] \in S THEN walk[i] ELSE -1

Holding(t, k) == {i \in DOMAIN t.node : t.node[i].key = k /\ ~t.node[i].dead}
Find(t, k) == Along(t, MainPosition(t, k), Holding(t, k))

InArray(t, k) == k.kind = "int" /\ k.n \in 1 .. Len(t.array)

GetInt(t, i) ==
  IF InArray(t, Index(i)) THEN t.array[i]
  ELSE LET f == Find(t, Index(i)) IN IF f = -1 THEN Nil ELSE t.node[f].val

Get(t, key) ==
  LET k == Normal(key)
  IN IF k.kind = "int" THEN GetInt(t, k.n)
     ELSE IF k = NoKey THEN Nil
     ELSE LET f == Find(t, k) IN IF f = -1 THEN Nil ELSE t.node[f].val

-----------------------------------------------------------------------------
(* Sizes. *)

SetNodeVector(t, size) ==
  IF size = 0
  THEN [t EXCEPT !.node = [i \in {0} |-> EmptyNode], !.dummy = TRUE, !.lastfree = 0]
  ELSE LET n == TwoTo(size)
       IN [t EXCEPT !.node = [i \in 0 .. (n - 1) |-> EmptyNode], !.dummy = FALSE, !.lastfree = n]

SetArrayVector(t, size) ==
  [t EXCEPT !.array = [i \in 1 .. size |-> IF i <= Len(t.array) THEN t.array[i] ELSE Nil]]

Slice(lg) == IF lg = 0 THEN {1} ELSE (Twos[lg - 1] + 1) .. Twos[lg]
UsedSlots(t, I) == {i \in 1 .. Len(t.array) : t.array[i] # Nil /\ i \in I}
UsedNodes(t) == {i \in DOMAIN t.node : t.node[i].val # Nil}
IndexNodes(t, I) == {i \in UsedNodes(t) : ArrayIndex(t.node[i].key) \in I}
NumUseArray(t, I) == Cardinality(UsedSlots(t, I))
NumUseHash(t, I) == Cardinality(IndexNodes(t, I))
CountInt(k, I) == IF ArrayIndex(k) \in I THEN 1 ELSE 0
(* The indices of I among the keys in use and the new key k.                *)
CountKeys(t, k, I) == NumUseArray(t, I) + NumUseHash(t, I) + CountInt(k, I)

(* The largest power of two of which more than half the slots would be in   *)
(* use, n, and how many keys go there, na; a counts the keys seen.          *)
ComputeSizes(nums, narray) ==
  LET at[i \in 0 .. (MaxABits + 1)] ==
        IF i = 0 THEN [a |-> 0, n |-> 0, na |-> 0]
        ELSE LET r == at[i - 1]
                 b == r.a + nums[i - 1]
             IN IF Twos[i - 1] >= 2 * narray \/ (r.a = narray /\ i > 1) THEN r
                ELSE IF nums[i - 1] > 0 /\ 2 * b > Twos[i - 1]
                THEN [a |-> b, n |-> Twos[i - 1], na |-> b]
                ELSE [a |-> b, n |-> r.n, na |-> r.na]
  IN at[MaxABits + 1]

-----------------------------------------------------------------------------
(* Insertion. *)

SetKey(t, i, k, v) ==
  [t EXCEPT !.node[i] = [key |-> k, dead |-> FALSE, val |-> v, next |-> t.node[i].next]]

FreePos(t) ==
  LET free == {i \in 0 .. (t.lastfree - 1) : t.node[i].key = NoKey}
  IN IF free = {} THEN -1 ELSE Max(free)

(* The node at mp, next, as it must read at f.                             *)
Moved(t, mp, f) ==
  [t.node[mp] EXCEPT !.next = IF t.node[mp].next = 0 THEN 0 ELSE mp + t.node[mp].next - f]
Vacated(t, mp) == [t.node[mp] EXCEPT !.next = 0, !.val = Nil]

(* A bug: the chain that led to mp is not led to f.                         *)
DisplaceUnchained(t, prev, mp, f) ==
  [t EXCEPT !.node[f] = Moved(t, mp, f), !.node[mp] = Vacated(t, mp)]

(* The colliding node at mp moves to f, and what pointed to it points to f. *)
Displace(t, prev, mp, f) ==
  [t EXCEPT !.node[prev].next = f - prev,
            !.node[f] = Moved(t, mp, f), !.node[mp] = Vacated(t, mp)]

(* f comes second in the chain of mp. *)
ChainAfter(t, mp, f) ==
  [t EXCEPT !.node[mp].next = f - mp, !.node[f].next = Moved(t, mp, f).next]

(* luaH_newkey, when it need not rehash, and the store of v in its cell.    *)
NewKey(t, k, v) ==
  LET mp == MainPosition(t, k)
      f == FreePos(t)
      u == [t EXCEPT !.lastfree = f]
      other == MainPosition(t, t.node[mp].key)
  IN IF t.node[mp].val = Nil /\ ~t.dummy THEN SetKey(t, mp, k, v)
     ELSE IF other # mp
     THEN LET prev == Along(u, other, {i \in DOMAIN u.node : i + u.node[i].next = mp})
          IN SetKey(Displace(u, prev, mp, f), mp, k, v)
     ELSE SetKey(ChainAfter(u, mp, f), f, k, v)

(* A key that is there, or that finds a place, needs no rehash.             *)
HasPlace(t, k) ==
  \/ InArray(t, k)
  \/ Find(t, k) # -1
  \/ t.node[MainPosition(t, k)].val = Nil /\ ~t.dummy
  \/ FreePos(t) # -1

(* luaH_set or luaH_setint and the store, as far as they need no rehash.    *)
Place(t, key, v) ==
  LET k == Normal(key)
  IN IF ~HasPlace(t, k) THEN [t EXCEPT !.stuck = TRUE]
     ELSE IF InArray(t, k) THEN [t EXCEPT !.array[k.n] = v]
     ELSE IF Find(t, k) # -1 THEN [t EXCEPT !.node[Find(t, k)].val = v]
     ELSE NewKey(t, k, v)

(* The entries, those of I, one after the other.                            *)
PlaceAll(t, entries, I) ==
  LET placed[i \in 0 .. Len(entries)] ==
        IF i = 0 THEN t
        ELSE IF i \in I THEN Place(placed[i - 1], entries[i].key, entries[i].val)
        ELSE placed[i - 1]
  IN placed[Len(entries)]

(* The slots that vanish upwards, then the nodes downwards.                 *)
Entries(t, nasize) ==
  LET lost == IF nasize < Len(t.array) THEN Len(t.array) - nasize ELSE 0
      top == lost + SizeNode(t)
  IN [i \in 1 .. top |->
        IF i <= lost THEN [key |-> Index(nasize + i), val |-> t.array[nasize + i]]
        ELSE [key |-> t.node[top - i].key, val |-> t.node[top - i].val]]

InUse(entries) == {i \in DOMAIN entries : entries[i].val # Nil}

(* The array part grows or shrinks first, then the entries are inserted.    *)
Resize(t, nasize, nhsize) ==
  PlaceAll(SetNodeVector(SetArrayVector(t, nasize), nhsize),
           Entries(t, nasize), InUse(Entries(t, nasize)))

Rehash(t, k) ==
  LET nums == [lg \in 0 .. MaxABits |-> CountKeys(t, k, Slice(lg))]
      total == NumUseArray(t, 1 .. Len(t.array)) + Cardinality(UsedNodes(t)) + 1
      sizes == ComputeSizes(nums, CountKeys(t, k, 1 .. Twos[MaxABits]))
  IN Resize(t, sizes.n, total - sizes.na)

(* luaH_set or luaH_setint and the store. *)
Put(t, key, v) ==
  Place(IF HasPlace(t, Normal(key)) THEN t ELSE Rehash(t, Normal(key)), key, v)

ResizeArray(t, nasize) == Resize(t, nasize, IF t.dummy THEN 0 ELSE SizeNode(t))

New == SetNodeVector([array |-> <<>>, node |-> <<>>, dummy |-> TRUE, lastfree |-> 0,
                      stuck |-> FALSE], 0)

-----------------------------------------------------------------------------
(* Traversal. *)

(* A bug: a dead key is not recognised.                                    *)
FindIndexAlive(t, k) ==
  IF k = NoKey THEN 0
  ELSE IF ArrayIndex(k) \in 1 .. Len(t.array) THEN ArrayIndex(k)
  ELSE LET f == Find(t, k)
       IN IF f = -1 THEN -1 ELSE f + 1 + Len(t.array)

(* The number of the entry after k, array before nodes: -1 when k is none.  *)
FindIndex(t, k) ==
  IF k = NoKey THEN 0
  ELSE IF ArrayIndex(k) \in 1 .. Len(t.array) THEN ArrayIndex(k)
  ELSE LET f == Along(t, MainPosition(t, k), {i \in DOMAIN t.node : t.node[i].key = k /\ (t.node[i].dead => Collectable(k))})
       IN IF f = -1 THEN -1 ELSE f + 1 + Len(t.array)

Entry(t, i) ==
  IF i < Len(t.array) THEN [key |-> Index(i + 1), val |-> t.array[i + 1]]
  ELSE LET n == t.node[i - Len(t.array)] IN [key |-> n.key, val |-> n.val]

(* The first entry from there that holds a value; Idle when there is none.  *)
TableNext(t, k) ==
  LET later == {i \in FindIndex(t, k) .. (Len(t.array) + SizeNode(t) - 1) : Entry(t, i).val # Nil}
  IN IF later = {} THEN [key |-> Idle, val |-> Nil] ELSE Entry(t, Min(later))

-----------------------------------------------------------------------------
(* Length. *)

(* Binary search for a border between i, in use, and j, empty. *)
Halve(used, i, j) ==
  LET mid(p) == (p[1] + p[2]) \div 2
      half[p \in (i .. j) \X (i .. j)] ==
        IF p[2] - p[1] <= 1 THEN p
        ELSE IF mid(p) \in used THEN half[<<mid(p), p[2]>>] ELSE half[<<p[1], mid(p)>>]
  IN half[<<i, j>>][1]

Linear(t) ==
  LET up[i \in Nat] == IF GetInt(t, i) = Nil THEN i ELSE up[i + 1] IN up[1] - 1

(* i is in use or 0; j doubles until it is empty or too large.              *)
UnboundSearch(t, start) ==
  LET top == start + 1 + MaxInt
      grow[p \in (0 .. top) \X (1 .. top)] ==
        IF GetInt(t, p[2]) = Nil \/ p[2] > MaxInt \div 2 THEN p
        ELSE grow[<<p[2], 2 * p[2]>>]
      end == grow[<<start, start + 1>>]
  IN IF GetInt(t, end[2]) = Nil
     THEN Halve({n \in end[1] .. end[2] : GetInt(t, n) # Nil}, end[1], end[2])
     ELSE Linear(t)

(* A bug: the hash part is forgotten.                                       *)
GetNArray(t) ==
  LET j == Len(t.array)
  IN IF j > 0 /\ t.array[j] = Nil THEN Halve({n \in 1 .. j : t.array[n] # Nil}, 0, j)
     ELSE j

GetN(t) ==
  LET j == Len(t.array)
  IN IF j > 0 /\ t.array[j] = Nil THEN Halve({n \in 1 .. j : t.array[n] # Nil}, 0, j)
     ELSE IF t.dummy THEN j
     ELSE UnboundSearch(t, j)

-----------------------------------------------------------------------------
(* What scripts and the collector do to a table. *)

Fields == {Normal(k) : k \in Keys} \cup {Index(n) : n \in 1 .. MaxItems}

(* A constructor makes the table with room for its items (OP_NEWTABLE).     *)
TableInit ==
  /\ \E na \in 0 .. MaxItems, nh \in Rooms : table = Resize(New, na, nh)
  /\ contents = [k \in Fields |-> Nil]
  /\ last = Making
  /\ seen = {}

(* The positional items of a constructor, of which the last may be several, *)
(* are stored from the last to the first (OP_SETLIST): none needs a rehash.  *)
SetList(items) ==
  LET n == Len(items)
      roomy == IF n > Len(table.array) THEN ResizeArray(table, n) ELSE table
      entries == [i \in 1 .. n |-> [key |-> Index(n + 1 - i), val |-> items[n + 1 - i]]]
  IN /\ last = Making
     /\ table' = PlaceAll(roomy, entries, 1 .. n)
     /\ contents' = [k \in Fields |->
                       IF k.kind = "int" /\ k.n \in 1 .. n THEN items[k.n] ELSE contents[k]]
     /\ last' = Idle
     /\ UNCHANGED seen

(* Lua forbids new fields during a traversal, and nothing else.             *)
Assign(k, v) ==
  /\ last \in {Making, Idle} \/ contents[Normal(k)] # Nil
  /\ table' = Put(table, k, v)
  /\ contents' = [contents EXCEPT ![Normal(k)] = v]
  /\ UNCHANGED <<last, seen>>

(* The collector has traversed the table when the keys of some empty        *)
(* entries were unmarked (removeentry).                                     *)
Collect(D) ==
  /\ table' = [table EXCEPT !.node = [i \in DOMAIN table.node |->
                 [table.node[i] EXCEPT !.dead = table.node[i].dead \/ i \in D]]]
  /\ UNCHANGED <<contents, last, seen>>

Removable == {i \in DOMAIN table.node :
                /\ Collectable(table.node[i].key) /\ ~table.node[i].dead
                /\ table.node[i].val = Nil}

Traverse ==
  /\ last = Idle
  /\ last' = NoKey
  /\ seen' = {}
  /\ UNCHANGED <<table, contents>>

Visit ==
  /\ last \notin {Making, Idle}
  /\ FindIndex(table, last) # -1
  /\ LET e == TableNext(table, last)
     IN /\ last' = e.key
        /\ seen' = IF e.key = Idle THEN {} ELSE seen \cup {e.key}
  /\ UNCHANGED <<table, contents>>

TableStep ==
  \/ \E k \in Keys, v \in Values \cup {Nil} : Assign(k, v)
  \/ \E n \in 0 .. MaxItems : \E items \in [1 .. n -> Values \cup {Nil}] : SetList(items)
  \/ \E i \in Removable : Collect({i})
  \/ Traverse
  \/ Visit

TableSpec == TableInit /\ [][TableStep]_tableVars

-----------------------------------------------------------------------------
(* Every key finds the value stored last, through the array part or the     *)
(* chain of its main position, after any insertions, moves of colliding     *)
(* nodes, rehashes, dead keys and changes of size.                          *)
KeepsItsMap == \A k \in Keys : Get(table, k) = contents[Normal(k)]

(* A rehash sizes both parts so that all it must hold finds a place: its    *)
(* insertions never need another rehash, nor do the items of a constructor, *)
(* nor the new key that called for it (rehash, luaH_resize).  An entry      *)
(* without a place is lost, which KeepsItsMap would show.                   *)
RehashMakesRoom == ~table.stuck

(* A traversal can always go on from its last key, even when that has been  *)
(* cleared and collected; it meets each key once; and when it ends it has   *)
(* met every field that is still there (luaH_next).                         *)
TraversalIsComplete ==
  last \notin {Making, Idle} =>
    /\ FindIndex(table, last) # -1
    /\ TableNext(table, last).key \notin seen
    /\ TableNext(table, last).key = Idle =>
         {k \in DOMAIN contents : contents[k] # Nil} \subseteq seen

(* The length is a border: the last of a run of present indices, although   *)
(* both searches halve their range and may step over holes.                 *)
LengthIsBorder ==
  LET n == GetN(table)
      Present(i) == Index(i) \in DOMAIN contents /\ contents[Index(i)] # Nil
  IN (n = 0 \/ Present(n)) /\ ~Present(n + 1)
=============================================================================
