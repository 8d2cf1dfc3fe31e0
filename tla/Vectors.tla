------------------------------ MODULE Vectors ------------------------------
(***************************************************************************)
(* The integer part of rcppsw::math::vector3 and vector2 (vector3i,        *)
(* vector3z, ...): a vector is a record, a 2D vector is one with z = 0.    *)
(* The components are mathematical integers: the grids and graphs that use *)
(* these operators hold coordinates far from the limits of size_t, so that *)
(* no result wraps around.                                                 *)
(***************************************************************************)
EXTENDS Integers

(* The constructor, and the default one.                                   *)
Vec(a, b, c) == [x |-> a, y |-> b, z |-> c]
Zero == Vec(0, 0, 0)

Vectors(S) == [x : S, y : S, z : S]

Magnitude(n) == IF n < 0 THEN -n ELSE n

(* operator+ and operator/.                                                *)
Plus(v, w) == Vec(v.x + w.x, v.y + w.y, v.z + w.z)
Over(v, k) == Vec(v.x \div k, v.y \div k, v.z \div k)

(* mask(): the components that the unit vector m selects.                  *)
Mask(v, m) == Vec(v.x * m.x, v.y * m.y, v.z * m.z)

(* key_compare: the order of the maps with vectors as keys.                *)
KeyCompare(v, w) ==
  \/ v.x < w.x
  \/ v.x = w.x /\ v.y < w.y
  \/ v.x = w.x /\ v.y = w.y /\ v.z < w.z

(* key_compare of coordinates that are not integers: the first two are    *)
(* compared with a tolerance.  (Here they are in units of which the        *)
(* tolerance is a whole number.)                                           *)
Near(eps, a, b) == Magnitude(a - b) <= eps
KeyCompareWithin(eps, v, w) ==
  \/ v.x < w.x /\ ~Near(eps, v.x, w.x)
  \/ Near(eps, v.x, w.x) /\ v.y < w.y /\ ~Near(eps, v.y, w.y)
  \/ Near(eps, v.x, w.x) /\ Near(eps, v.y, w.y) /\ v.z < w.z

(* componentwise_compare: a partial order, although std::min and std::max  *)
(* are called with it.                                                     *)
ComponentwiseCompare(v, w) == v.x <= w.x /\ v.y <= w.y /\ v.z <= w.z

(* l1norm().                                                               *)
L1norm(v, w) ==
  Magnitude(v.x - w.x) + Magnitude(v.y - w.y) + Magnitude(v.z - w.z)

(* bounding_box with an anchor, and the span of one of its dimensions,     *)
(* closed at both ends.                                                    *)
Box(dims, anchor) == [dims |-> dims, anchor |-> anchor]
BoxCenter(b) == Plus(b.anchor, Over(b.dims, 2))
Span(first, dim) == first .. (first + dim - 1)
BoxCells(b) ==
  [x : Span(b.anchor.x, b.dims.x), y : Span(b.anchor.y, b.dims.y),
   z : Span(b.anchor.z, b.dims.z)]
=============================================================================
