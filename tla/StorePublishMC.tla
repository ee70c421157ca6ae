--------------------------- MODULE StorePublishMC ---------------------------
(***************************************************************************)
(* Three runs: two overlap in one artifact, the third retries the first.   *)
(***************************************************************************)
EXTENDS StorePublish, TLC

CONSTANTS r1, r2, r3, a1, a2, a3

OverlappingBrings == r1 :> {a1, a2} @@ r2 :> {a2, a3} @@ r3 :> {a1, a2}

AnyPath == {Absent, Earlier, Dangling}
=============================================================================
