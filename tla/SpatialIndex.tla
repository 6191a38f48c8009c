---------------------------- MODULE SpatialIndex ----------------------------
(***************************************************************************)
(* The grid that finds the entities near a point.  An index is a record of *)
(* its two maps, which have to agree:                                      *)
(*   cells        what the cells hold: a bag of pairs <<cell, entity>>,    *)
(*                for the code pushes onto a vector whose order nobody     *)
(*                relies on                                                *)
(*   entityCells  the cell of every entity                                 *)
(* A position is a pair <<x, z>> of grid coordinates; height plays no part.*)
(***************************************************************************)
EXTENDS Integers, Bags, BagsExt, Functions

CONSTANT CellSize

ASSUME CellSizeAssumption == CellSize \in Nat \ {0}

\* HashMap::insert and HashMap::remove.
Put(f, k, v) == [x \in DOMAIN f \cup {k} |-> IF x = k THEN v ELSE f[x]]
Drop(f, k) == Restrict(f, DOMAIN f \ {k})

CellOf(p) == <<p[1] \div CellSize, p[2] \div CellSize>>

Insert(index, e, p) ==
    [cells |-> BagAdd(index.cells, <<CellOf(p), e>>),
     entityCells |-> Put(index.entityCells, e, CellOf(p))]

Remove(index, e) ==
    IF e \in DOMAIN index.entityCells
    THEN [cells |-> BagRemoveAll(index.cells, <<index.entityCells[e], e>>),
          entityCells |-> Drop(index.entityCells, e)]
    ELSE index

\* Mutant: pushed onto the new cell, never taken off the old one.
UpdateLeavingBehind(index, e, old, new) ==
    IF CellOf(old) = CellOf(new) THEN index ELSE Insert(index, e, new)

\* The caller tells the old position: the code does not look the old cell up.
Update(index, e, old, new) ==
    IF CellOf(old) = CellOf(new) THEN index
    ELSE Insert([index EXCEPT !.cells = BagRemoveAll(@, <<CellOf(old), e>>)], e, new)

\* Mutant: the range excludes its last column and row.
OverlappedShort(p, r) ==
    ((p[1] - r) \div CellSize .. (p[1] + r) \div CellSize - 1)
        \X ((p[2] - r) \div CellSize .. (p[2] + r) \div CellSize - 1)

\* The cells that the square around the circle overlaps.
Overlapped(p, r) ==
    ((p[1] - r) \div CellSize .. (p[1] + r) \div CellSize)
        \X ((p[2] - r) \div CellSize .. (p[2] + r) \div CellSize)

\* The candidates, with their cells: everything in the overlapped cells.
QueryRadius(index, p, r) ==
    Restrict(index.cells, {x \in DOMAIN index.cells : x[1] \in Overlapped(p, r)})

\* Vec3::distance_xz is at most r.
Within(p, q, r) ==
    (q[1] - p[1]) * (q[1] - p[1]) + (q[2] - p[2]) * (q[2] - p[2]) <= r * r
------------------------------------------------------------------------------
\* The index of entities at the positions pos: each in one cell, its own, once.
IndexOf(pos) ==
    [cells |-> SetToBag({<<CellOf(pos[e]), e>> : e \in DOMAIN pos}),
     entityCells |-> [e \in DOMAIN pos |-> CellOf(pos[e])]]
=============================================================================
