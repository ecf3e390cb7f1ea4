---------------------------- MODULE ScaleCatalog ----------------------------
(***************************************************************************)
(* The catalogue of representational scales (scale_catalog.py): each scale *)
(* has a resolution rank, and only some scales can really be executed.     *)
(***************************************************************************)
EXTENDS Integers

CONSTANTS
  Scale,        \* ids of the catalogued scales
  Rank,         \* resolution_rank of each scale
  Executable    \* the scales with is_executable

ASSUME CatalogAssumption ==
  /\ Executable \subseteq Scale
  /\ Rank \in [Scale -> Nat]

Distance(a, b) == IF a > b THEN a - b ELSE b - a

(***************************************************************************)
(* nearest_executable: the executable scale at the least rank distance;    *)
(* min() scans the scales by increasing rank, so the coarser wins a tie.   *)
(***************************************************************************)
NearestExecutable(s) ==
  CHOOSE e \in Executable :
    \A o \in Executable :
      \/ Distance(Rank[e], Rank[s]) < Distance(Rank[o], Rank[s])
      \/ /\ Distance(Rank[e], Rank[s]) = Distance(Rank[o], Rank[s])
         /\ Rank[e] <= Rank[o]

\* The scale really run for a requested one.
Runnable(s) == IF s \in Executable THEN s ELSE NearestExecutable(s)
=============================================================================
