-------------------------------- MODULE Grids --------------------------------
(***************************************************************************)
(* base_grid2D, base_grid3D: views of a part of a grid.  The grid is made  *)
(* with its size, or laid over a space of real dimensions by an overlay,   *)
(* which asserts that they are multiples of its resolution; lengths are in *)
(* a unit small enough.  boost::multi_array takes a half-open interval of  *)
(* indices in each dimension, and makes a view of the cells in it.         *)
(*                                                                         *)
(* Operators with a suffix (Upper_Open, ...) are faulty variants of a      *)
(* definition; no specification uses them.                                 *)
(***************************************************************************)
EXTENDS Integers

CONSTANTS
  Sizes,       \* [x, y, z] of grids
  Dims,        \* [x, y, z] of overlays, in units
  Resolutions, \* of overlays, in units
  Coords,      \* [x, y, z] of centres
  Radii

VARIABLES
  size,        \* xsize(), ysize(), zsize(); those of 2D grids have z = 1
  dims, res,   \* mc_dim and the resolution of an overlay; res = 0: no overlay
  view,        \* the view made last: its indices
  asked,       \* history: which view it is, of what centre and radius
  status       \* "running", or "halted" by an assertion

vars == <<size, dims, res, view, asked, status>>

Minimum(a, b) == IF a < b THEN a ELSE b
Maximum(a, b) == IF a < b THEN b ELSE a

HalfOpen(ll, ur) ==
  (ll.x .. ur.x - 1) \X (ll.y .. ur.y - 1) \X (ll.z .. ur.z - 1)

(* xdsize(), ydsize(), zdsize().                                           *)
Discrete(d, r) == [x |-> d.x \div r, y |-> d.y \div r, z |-> d.z \div r]

(* std::remainder() is to the nearest multiple, in a tie to the even one;  *)
(* a negative remainder passes.                                            *)
IsMultiple(d, r) ==
  \/ d % r = 0
  \/ 2 * (d % r) > r
  \/ 2 * (d % r) = r /\ (d \div r) % 2 = 1

(* The overlay of a 2D grid has no third dimension to assert anything of.  *)
Overlay(flat) ==
  /\ dims \in Dims
  /\ res \in Resolutions
  /\ size = [Discrete(dims, res) EXCEPT !.z = IF flat THEN 1 ELSE @]
  /\ status = IF /\ IsMultiple(dims.x, res) /\ IsMultiple(dims.y, res)
                 /\ flat \/ IsMultiple(dims.z, res)
              THEN "running" ELSE "halted"

Init ==
  /\ \/ size \in Sizes /\ dims = size /\ res = 0 /\ status = "running"
     \/ \E flat \in BOOLEAN : Overlay(flat)
  /\ view = {}
  /\ asked = [kind |-> "none"]

Contains(c) == c.x < size.x /\ c.y < size.y /\ c.z < size.z

Lower(a, radius) == Maximum(0, a - radius)

(* Mutant: no 1 is added for the half-open interval.                       *)
Upper_Open(a, radius, max) == Minimum(a + radius, max)

Upper(a, radius, max) == Minimum(a + radius + 1, max)

(* subgrid() of a 2D grid that is const, and of any 3D grid, leaves out    *)
(* the upper corner; that of a 2D grid that is not const has it.           *)
Subgrid(ll, ur) == HalfOpen(ll, ur)
SubgridClosed(ll, ur) ==
  HalfOpen(ll, [x |-> ur.x + 1, y |-> ur.y + 1, z |-> ur.z])

LowerLeft(c, radius) ==
  [x |-> Lower(c.x, radius), y |-> Lower(c.y, radius), z |-> c.z]

(* subcircle(), const or 3D.                                               *)
Subcircle(c, radius) ==
  /\ status = "running"
  /\ view' = Subgrid(LowerLeft(c, radius),
                     [x |-> Upper(c.x, radius, size.x),
                      y |-> Upper(c.y, radius, size.y), z |-> c.z + 1])
  /\ asked' = [kind |-> "cropped", c |-> c, radius |-> radius]
  /\ UNCHANGED <<size, dims, res, status>>

(* subcircle() of a 2D grid that is not const.                             *)
SubcircleMutable(c, radius) ==
  /\ status = "running"
  /\ size.z = 1
  /\ view' = SubgridClosed(LowerLeft(c, radius),
                           [x |-> Upper(c.x, radius, size.x - 1),
                            y |-> Upper(c.y, radius, size.y - 1),
                            z |-> c.z + 1])
  /\ asked' = [kind |-> "mutable", c |-> c, radius |-> radius]
  /\ UNCHANGED <<size, dims, res, status>>

(* layer() of a 3D grid.                                                   *)
Layer(z) ==
  /\ status = "running"
  /\ view' = Subgrid([x |-> 0, y |-> size.y, z |-> z],
                     [x |-> 0, y |-> size.y, z |-> z + 1])
  /\ asked' = [kind |-> "layer"]
  /\ UNCHANGED <<size, dims, res, status>>

Next ==
  \/ \E c \in Coords, r \in Radii :
       Contains(c) /\ (Subcircle(c, r) \/ SubcircleMutable(c, r))
  \/ \E z \in 0 .. size.z - 1 : Layer(z)

Spec == Init /\ [][Next]_vars

----------------------------------------------------------------------------
(* No view has a cell that is not in the grid.  A subcircle has the cells  *)
(* at most the radius away in x and in y that the grid has: at its edges   *)
(* it is cropped, and never empty.  (Of a 2D grid that is not const it has *)
(* these cells at least: documented is the same circle, and the code adds  *)
(* a row and a column.  What a layer has is left open: documented are all  *)
(* of its cells, and the code makes it empty.)                             *)
ViewsCropped ==
  LET Circle(c, radius) ==
        {p \in (0 .. size.x - 1) \X (0 .. size.y - 1) \X {c.z} :
           /\ p[1] \in c.x - radius .. c.x + radius
           /\ p[2] \in c.y - radius .. c.y + radius}
  IN
  /\ view \subseteq (0 .. size.x - 1) \X (0 .. size.y - 1) \X (0 .. size.z - 1)
  /\ asked.kind = "cropped" => view = Circle(asked.c, asked.radius)
  /\ asked.kind = "mutable" => Circle(asked.c, asked.radius) \subseteq view
=============================================================================
