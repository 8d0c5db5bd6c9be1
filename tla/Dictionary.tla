----------------------------- MODULE Dictionary ------------------------------
(* What util/str_map.h promises: a function from keys to values.             *)
EXTENDS Naturals, Functions

CONSTANTS Keys, Values, NoValue

VARIABLES map, answer

Init == map = [k \in {} |-> NoValue] /\ answer = NoValue

Put(key, value) ==
  /\ map' = [k \in DOMAIN map \cup {key} |-> IF k = key THEN value ELSE map[k]]
  /\ answer' = TRUE

\* Memory that is refused changes nothing.
Refuse == answer' = FALSE /\ UNCHANGED map

Get(key) ==
  /\ answer' = IF key \in DOMAIN map THEN map[key] ELSE NoValue
  /\ UNCHANGED map

Remove(key) ==
  /\ answer' = (key \in DOMAIN map)
  /\ map' = Restrict(map, DOMAIN map \ {key})

Next ==
  \/ Refuse
  \/ \E key \in Keys : Get(key) \/ Remove(key) \/ \E value \in Values : Put(key, value)

Spec == Init /\ [][Next]_<<map, answer>>
=============================================================================
