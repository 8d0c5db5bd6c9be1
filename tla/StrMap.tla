------------------------------- MODULE StrMap --------------------------------
(***************************************************************************)
(* The hash map (util/str_map.c): a dense array of entries and an open     *)
(* table of places in it, probed one slot after the other, grown before it *)
(* is full and built anew when an entry goes.  It is to be a function from *)
(* keys to values (module Dictionary).                                     *)
(***************************************************************************)
EXTENDS Naturals, Sequences, FiniteSets, FiniteSetsExt, SequencesExt

CONSTANTS
  Keys, Values,
  Hash,        \* [Keys -> Nat]: hash_key
  NoValue,
  InitialIndex, InitialEntries,   \* 16 and 8 in the code; the index a power of two
  MaxGrowth    \* bound: how often the index doubles

ASSUME HashAssumption == Hash \in [Keys -> Nat]
ASSUME SizesAssumption == InitialIndex \in Nat \ {0, 1} /\ InitialEntries \in Nat \ {0}

VARIABLES
  entries,   \* the dense array
  capacity,  \* its room
  index,     \* [0..n-1 -> a place in entries, or 0]; n = 0 before the first put
  answer     \* what the last call returned

mapVars == <<entries, capacity, index, answer>>

Size(table) == Cardinality(DOMAIN table)
KeyAt(place) == entries[place].key

\* The slots a key visits, from its own on.
Slot(table, key, step) == (Hash[key] + step) % Size(table)

\* probe: the first slot that is empty or has the key.
Probe(table, list, key) ==
  LET Stops(k) == LET place == table[Slot(table, key, k)]
                  IN  place = 0 \/ list[place].key = key
  IN  Slot(table, key, Min({k \in 0..(Size(table) - 1) : Stops(k)}))

\* rebuild_index: every entry in the first slot that is empty.
Placed(table, list, k) ==
  LET free == Min({d \in 0..(Size(table) - 1) : table[Slot(table, list[k].key, d)] = 0})
  IN  [table EXCEPT ![Slot(table, list[k].key, free)] = k]

Rebuilt(list, n) ==
  LET after[k \in 0..Len(list)] ==
        IF k = 0 THEN [s \in 0..(n - 1) |-> 0] ELSE Placed(after[k - 1], list, k)
  IN  after[Len(list)]

TooFull(count, n) == (count + 1) * 10 >= n * 7

MapInit ==
  /\ entries = <<>> /\ capacity = 0
  /\ index = [s \in {} |-> 0]
  /\ answer = NoValue

\* str_map_put grows the index first, whatever the key; memory may be refused.
Grown ==
  IF Size(index) = 0 THEN Rebuilt(entries, InitialIndex)
  ELSE IF TooFull(Len(entries), Size(index)) THEN Rebuilt(entries, 2 * Size(index)) ELSE index

Doublings == {InitialIndex * 2^k : k \in 0..MaxGrowth}

Room ==
  IF Len(entries) < capacity THEN capacity
  ELSE IF capacity = 0 THEN InitialEntries ELSE 2 * capacity

PutRefused(key) ==
  /\ \/ Grown # index /\ UNCHANGED <<index, capacity>>
     \/ /\ Size(Grown) \in Doublings
        /\ Grown[Probe(Grown, entries, key)] = 0
        /\ index' = Grown
        /\ capacity' \in {capacity, Room}
  /\ answer' = FALSE
  /\ UNCHANGED entries

Replace(key, value) ==
  LET slot == Probe(Grown, entries, key)
  IN  /\ Size(Grown) \in Doublings
      /\ Grown[slot] # 0
      /\ entries' = [entries EXCEPT ![Grown[slot]].value = value]
      /\ index' = Grown
      /\ answer' = TRUE
      /\ UNCHANGED capacity

Add(key, value) ==
  LET slot == Probe(Grown, entries, key)
  IN  /\ Size(Grown) \in Doublings
      /\ Grown[slot] = 0
      /\ capacity' = Room
      /\ entries' = Append(entries, [key |-> key, value |-> value])
      /\ index' = [Grown EXCEPT ![slot] = Len(entries) + 1]
      /\ answer' = TRUE

Get(key) ==
  /\ answer' = IF Size(index) = 0 THEN NoValue
               ELSE LET place == index[Probe(index, entries, key)]
                    IN  IF place = 0 THEN NoValue ELSE entries[place].value
  /\ UNCHANGED <<entries, capacity, index>>

Holds(key) == Size(index) # 0 /\ index[Probe(index, entries, key)] # 0

\* Slip: only the slot of the key is emptied, and a key that was probed past it is cut off.
ForgetSlot(key, list) ==
  LET slot == Probe(index, entries, key)
  IN  [s \in DOMAIN index |->
         IF s = slot THEN 0 ELSE IF index[s] = Len(entries) THEN index[slot] ELSE index[s]]

\* After a removal the index is built anew.
Forget(key, list) == Rebuilt(list, Size(index))

\* str_map_remove: the last entry takes the place of the one that goes.
Delete(key) ==
  /\ IF ~Holds(key) THEN answer' = FALSE /\ UNCHANGED <<entries, index>>
     ELSE LET place == index[Probe(index, entries, key)]
              list == Front([entries EXCEPT ![place] = Last(entries)])
          IN  /\ entries' = list
              /\ index' = Forget(key, list)
              /\ answer' = TRUE
  /\ UNCHANGED capacity

MapNext ==
  \E key \in Keys :
    \/ \E value \in Values : Replace(key, value) \/ Add(key, value)
    \/ PutRefused(key) \/ Get(key) \/ Delete(key)

MapSpec == MapInit /\ [][MapNext]_mapVars

------------------------------------------------------------------------------
MapTypeOK ==
  /\ \A i \in DOMAIN entries : entries[i].key \in Keys /\ entries[i].value \in Values
  /\ \A s \in DOMAIN index : index[s] \in 0..Len(entries)
  /\ Len(entries) <= capacity

Dict == INSTANCE Dictionary WITH
  map <- [k \in {entries[i].key : i \in DOMAIN entries} |->
            entries[Min({i \in DOMAIN entries : entries[i].key = k})].value]

\* Whatever was put, replaced, refused and removed, a get finds the last value that was put
\* under its key, no key is there twice, and a probe always ends at an empty slot: the map is
\* the function it stands for (util/str_map.h).
ImplementsDictionary == Dict!Spec
=============================================================================
