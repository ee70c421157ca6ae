-------------------------- MODULE ArtifactHistoryMC --------------------------
(***************************************************************************)
(* One digest, two parsers, and spellings that tie as numbers, sort the    *)
(* other way as text, or have no number.                                   *)
(***************************************************************************)
EXTENDS ArtifactHistory, TLC

CONSTANTS p, q, t1, t2

Spellings == {"9", "10", "10.0", "10-rc"}
Numbers   == "9" :> 9 @@ "10" :> 10 @@ "10.0" :> 10
TextOrder == "10" :> 1 @@ "10-rc" :> 2 @@ "10.0" :> 3 @@ "9" :> 4

HistorySymmetry == Permutations({p, q}) \cup Permutations({t1, t2})
=============================================================================
