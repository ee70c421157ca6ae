---------------------------- MODULE CaseHistoryMC ----------------------------
(***************************************************************************)
(* Three records.  The second, a system record, shares its tracking id     *)
(* with the first; the first and the third share a source record id.       *)
(***************************************************************************)
EXTENDS CaseHistory, TLC

CONSTANTS a, b, x, y, new, accepted, reduced

IdOf == 1 :> x @@ 2 :> x @@ 3 :> y

Found(i, at) == [identity |-> i, open |-> TRUE, at |-> at]
Fixed(i)     == [identity |-> i, open |-> FALSE, at |-> NoTime]

Said ==
    {Found(1, at) : at \in {NoTime, 1, 2}} \cup {Found(2, 1), Found(3, NoTime), Fixed(1)}

Brought ==
    {{Fixed(1)}, {Found(1, NoTime)}, {Found(1, 1)}, {Found(1, 2), Found(3, NoTime)},
     {Found(1, NoTime), Found(2, 1)}}

Full(i, at, override) ==
    [selects |-> {i}, full |-> TRUE, completed |-> at, override |-> override,
     disposition |-> Nothing, reductions |-> {}]

Short(I) == [Full(1, 2, Nothing) EXCEPT !.selects = I, !.full = FALSE]

Filed ==
    {{Full(1, 1, Nothing)}, {Full(2, 2, Nothing)}, {Short({1, 3})},
     {Full(1, 2, y)}, {Full(1, 2, y), Full(3, 2, x)},
     {[Full(3, 1, new) EXCEPT !.disposition = accepted, !.reductions = {reduced}]}}

ArtifactSymmetry == Permutations({a, b})
=============================================================================
