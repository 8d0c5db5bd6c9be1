-------------------------------- MODULE MCLock --------------------------------
(* Two registry packages in two versions, one repository at two references,   *)
(* and a package in a directory; the registry's recipes never change there.   *)
EXTENDS Lock

Coord(n, k, i) == [name |-> n, kind |-> k, id |-> i]
x1 == Coord("x", "registry", 1)
x2 == Coord("x", "registry", 2)
y1 == Coord("y", "registry", 1)
y2 == Coord("y", "registry", 2)
g1 == Coord("g", "git", 1)
g2 == Coord("g", "git", 2)
l1 == Coord("l", "path", 1)
l2 == Coord("l", "path", 2)

Still == {x1, x2, y1, y2, g1, g2, l1}
Moving == Still \cup {l2}

Recipes(cs) ==
  [c \in cs |-> CASE c = x1 -> {{y1}} [] c = x2 -> {{y2}} [] c = g1 -> {{}, {y1}}
                  [] c = l1 -> {{}, {y2}} [] OTHER -> {{}}]
StillDeps == Recipes(Still)
MovingDeps == Recipes(Moving)
=============================================================================
