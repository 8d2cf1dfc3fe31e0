----------------------------- MODULE Components -----------------------------
(***************************************************************************)
(* Components that have nothing to do with each other, in one              *)
(* specification: "part" says which of them a behaviour is of, and v1 to   *)
(* v9 stand for its variables.  A property of a part bears the name that   *)
(* it has there.                                                           *)
(***************************************************************************)
EXTENDS Integers, Sequences, FiniteSets

CONSTANTS
  Parts,             \* the components to be looked at
  Null,              \* the value of a variable that the part has not got
  \* Registry, Prototype
  Names, MaxObjects,
  ParserClasses, ConfigOf, Required, ParserDocuments, Unparsed,
  ObjectClasses,
  \* MetricsConfig
  Collectors, MetricsDocuments, Absent, Allowed,
  \* PoissonQueue
  Items, Draws, Running, MaxTime, MaxOps,
  \* KMeans, EventHorizon, ConvexHull, ClosestPair
  MeansInputs, MaxK, MaxIter,
  HorizonInputs, Horizons,
  HullInputs,
  PairInputs, Far,
  \* Ranges, Angles, Grids
  RangeValues, RangeLimit,
  AngleValues, Factors, AngleLimit,
  Sizes, Dims, Resolutions, Coords, Radii,
  \* Shared, Lockable, and the arguments of Shared and Prototype
  Threads, NoThread, Args, MaxCalls

VARIABLES part, v1, v2, v3, v4, v5, v6, v7, v8, v9

vars == <<part, v1, v2, v3, v4, v5, v6, v7, v8, v9>>

----------------------------------------------------------------------------
Registry ==
  INSTANCE Registry WITH
    Classes <- ParserClasses, Documents <- ParserDocuments,
    workers <- v1, parsers <- v2, types <- v3, heap <- v4, status <- v5,
    mixed <- v6, latest <- v7

Config ==
  INSTANCE MetricsConfig WITH
    Documents <- MetricsDocuments,
    sinks <- v1, config <- v2, broken <- v3, last <- v4

Prototype ==
  INSTANCE Prototype WITH
    Classes <- ObjectClasses,
    workers <- v1, objs <- v2, made <- v3, first <- v4

Poisson ==
  INSTANCE PoissonQueue WITH
    now <- v1, op <- v2, queue <- v3, drawn <- v4, mark <- v5, idle <- v6

Means ==
  INSTANCE KMeans WITH
    Inputs <- MeansInputs,
    data <- v1, k <- v2, membership <- v3, center <- v4, todo <- v5,
    prev <- v6, phase <- v7, iter <- v8, converged <- v9

Horizon ==
  INSTANCE EventHorizon WITH
    Inputs <- HorizonInputs,
    data <- v1, round <- v2, membership <- v3, copy <- v4, todo <- v5,
    next <- v6, phase <- v7

Hull ==
  INSTANCE ConvexHull WITH
    Inputs <- HullInputs,
    data <- v1, points <- v2, hull <- v3, next <- v6, phase <- v7

Pair ==
  INSTANCE ClosestPair WITH
    Inputs <- PairInputs,
    calls <- v1, points <- v2, strip <- v3, best <- v4, order <- v5,
    row <- v6, phase <- v7, col <- v8, min <- v9

Interval ==
  INSTANCE Ranges WITH
    Values <- RangeValues, Limit <- RangeLimit,
    initialized <- v1, lb <- v2, ub <- v3, span <- v4, status <- v5

Angle ==
  INSTANCE Angles WITH
    Values <- AngleValues, Limit <- AngleLimit,
    angle <- v1, exact <- v2, form <- v3

Grid ==
  INSTANCE Grids WITH
    size <- v1, dims <- v2, res <- v3, view <- v4, asked <- v5, status <- v6

Atomics ==
  INSTANCE Shared WITH
    value <- v1, count <- v2, pending <- v3, calls <- v4, raced <- v5,
    effective <- v6, tally <- v7

Locks ==
  INSTANCE Lockable WITH
    flag <- v1, owner <- v2, sharers <- v3, at <- v4, status <- v5,
    kind <- v6, locked <- v7, crossed <- v8

(* What the proofs need to know of the constants.                          *)
ASSUME RegistryAssumption ==
  /\ Names \subseteq Nat
  /\ ParserDocuments \subseteq
       [ParserClasses -> {"absent", "incomplete", "invalid", "valid"}]
ASSUME MetricsAssumption ==
  /\ \A doc \in MetricsDocuments :
       doc.file \in
         {Absent} \cup [Config!Modes -> {Absent} \cup Config!Subsections]
  /\ Absent \notin [Config!Modes -> Config!Subsections]
ASSUME PrototypeAssumption == Null \notin ObjectClasses /\ Null \notin Nat
ASSUME PoissonAssumption == Draws \subseteq Nat /\ Running \subseteq Poisson!Sides
ASSUME ThreadsAssumption == NoThread \notin Threads
ASSUME MeansAssumption == MeansInputs \subseteq Seq(Int) /\ MaxK \in Nat
ASSUME HorizonAssumption ==
  /\ HorizonInputs \subseteq Seq(Int)
  /\ Horizons \in Seq(Int) /\ Horizons # <<>>
  /\ \A m, n \in DOMAIN Horizons : m <= n => Horizons[m] <= Horizons[n]
ASSUME HullAssumption ==
  \A S \in HullInputs :
    IsFiniteSet(S) /\ S # {} /\ S \subseteq [x : Int, y : Int]
ASSUME PairAssumption ==
  /\ PairInputs \subseteq Seq([x : Int, y : Int]) /\ Far \in Nat
  /\ \A s \in PairInputs : \A i, j \in DOMAIN s : i <= j => s[i].x <= s[j].x
ASSUME RangeAssumption == RangeValues \subseteq Int /\ RangeLimit \in Nat
ASSUME AngleAssumption ==
  AngleValues \subseteq Int /\ Factors \subseteq Int /\ AngleLimit \in Nat
ASSUME GridAssumption ==
  /\ Sizes \cup Dims \cup Coords \subseteq [x : Nat, y : Nat, z : Nat]
  /\ Resolutions \subseteq Nat \ {0} /\ Radii \subseteq Nat

----------------------------------------------------------------------------
Init ==
  /\ part \in Parts
  /\ \/ part = "registry" /\ Registry!Init /\ v8 = Null /\ v9 = Null
     \/ part = "config" /\ Config!Init /\ v5 = Null
        /\ v6 = Null /\ v7 = Null /\ v8 = Null /\ v9 = Null
     \/ part = "prototype" /\ Prototype!Init /\ v5 = Null
        /\ v6 = Null /\ v7 = Null /\ v8 = Null /\ v9 = Null
     \/ part = "poisson" /\ Poisson!Init
        /\ v7 = Null /\ v8 = Null /\ v9 = Null
     \/ part = "kmeans" /\ Means!Init
     \/ part = "horizon" /\ Horizon!Init /\ v8 = Null /\ v9 = Null
     \/ part = "hull" /\ Hull!Init /\ v4 = Null /\ v5 = Null
        /\ v8 = Null /\ v9 = Null
     \/ part = "pair" /\ Pair!Init
     \/ part = "range" /\ Interval!Init
        /\ v6 = Null /\ v7 = Null /\ v8 = Null /\ v9 = Null
     \/ part = "angle" /\ Angle!Init /\ v4 = Null /\ v5 = Null
        /\ v6 = Null /\ v7 = Null /\ v8 = Null /\ v9 = Null
     \/ part = "grid" /\ Grid!Init /\ v7 = Null /\ v8 = Null /\ v9 = Null
     \/ part = "atomics" /\ Atomics!Init /\ v8 = Null /\ v9 = Null
     \/ part = "lockable" /\ Locks!Init /\ v9 = Null

Next ==
  /\ \/ part = "registry" /\ Registry!Next /\ UNCHANGED <<v8, v9>>
     \/ part = "config" /\ Config!Next /\ UNCHANGED <<v5, v6, v7, v8, v9>>
     \/ part = "prototype" /\ Prototype!Next
        /\ UNCHANGED <<v5, v6, v7, v8, v9>>
     \/ part = "poisson" /\ Poisson!Next /\ UNCHANGED <<v7, v8, v9>>
     \/ part = "kmeans" /\ Means!Next
     \/ part = "horizon" /\ Horizon!Next /\ UNCHANGED <<v8, v9>>
     \/ part = "hull" /\ Hull!Next /\ UNCHANGED <<v4, v5, v8, v9>>
     \/ part = "pair" /\ Pair!Next
     \/ part = "range" /\ Interval!Next /\ UNCHANGED <<v6, v7, v8, v9>>
     \/ part = "angle" /\ Angle!Next /\ UNCHANGED <<v4, v5, v6, v7, v8, v9>>
     \/ part = "grid" /\ Grid!Next /\ UNCHANGED <<v7, v8, v9>>
     \/ part = "atomics" /\ Atomics!Next /\ UNCHANGED <<v8, v9>>
     \/ part = "lockable" /\ Locks!Next /\ UNCHANGED v9
  /\ UNCHANGED part

Spec == Init /\ [][Next]_vars

----------------------------------------------------------------------------
(* Registry: who has a parser, and who destroys it.                        *)
PointersOwned == part = "registry" => Registry!PointersOwned

(* Registry: what is found by type is live and of that type.               *)
TypedLookup == part = "registry" => Registry!TypedLookup

(* Registry: configurations are those of the last document with a section. *)
ConfigsCurrent == part = "registry" => Registry!ConfigsCurrent

(* MetricsConfig: collectors are registered as the file section says.      *)
CollectorsFollowDocument == part = "config" => Config!CollectorsFollowDocument

(* MetricsConfig: streams are those of the network section.                *)
StreamsFromNetworkSection ==
  part = "config" => Config!StreamsFromNetworkSection

(* Prototype: the first request for a name decides.                        *)
FirstRequestDecides == part = "prototype" => Prototype!FirstRequestDecides

(* PoissonQueue: counts and sums agree with the operations.                *)
RatesAccount == part = "poisson" => Poisson!RatesAccount

(* KMeans: a run that converged returns a fixed point.                     *)
ConvergedIsFixpoint == part = "kmeans" => Means!ConvergedIsFixpoint

(* EventHorizon: the clusters are the distinct neighbourhoods.             *)
ClustersDistinct == part = "horizon" => Horizon!ClustersDistinct

(* ConvexHull: the hull is convex and encloses all points.                 *)
HullEncloses == part = "hull" => Hull!HullEncloses

(* ClosestPair: every call returns the closest pair of its segment.        *)
ClosestFound == part = "pair" => Pair!ClosestFound

(* Ranges: values are wrapped into the range.                              *)
RangesWrap == part = "range" => Interval!RangesWrap

(* Angles: normalization loses nothing of an angle but whole turns.        *)
AngleTracks == part = "angle" => Angle!AngleTracks

(* Grids: views are cropped at the edges of the grid.                      *)
ViewsCropped == part = "grid" => Grid!ViewsCropped

(* Shared: no call with an effect is undone by another.                    *)
AddsAccounted == part = "atomics" => Atomics!AddsAccounted

(* Lockable: sections exclude each other, and the mutex is not misused.    *)
SectionsExclude == part = "lockable" => Locks!SectionsExclude
=============================================================================
