--------------------------- MODULE CoverageProofs ---------------------------
(***************************************************************************)
(* Proofs about Coverage, for every inventory, pool of evidence, set of    *)
(* classes and horizon.                                                    *)
(*                                                                         *)
(* The argument rests on one fact about the walk, StillLapsed: an anchor   *)
(* whose window lapsed goes on anchoring a lapsed window whatever evidence *)
(* comes or goes and as-of moves on, unless the anchor is itself withdrawn,*)
(* a verification lands inside the window, or an earlier one takes the     *)
(* place of the declaration.                                               *)
(***************************************************************************)
EXTENDS Coverage, FiniteSetTheorems, WellFoundedInduction, TLAPS

-----------------------------------------------------------------------------
(* The walk.                                                               *)

\* The times a class gives a rule, as the walk uses them.
IsDue(due) ==
  /\ due \in [Time -> Nat]
  /\ \A t \in Time : due[t] > t
  /\ \A t, u \in Time : t <= u => due[t] <= due[u]

LEMMA TimeIsNat == Time \subseteq Nat /\ Never \in Nat
  BY TimeAssumption DEF Time, Never

LEMMA DueIsDue ==
  ASSUME NEW c \in DOMAIN Due, NEW r \in DOMAIN Due[c]
  PROVE  IsDue(Due[c][r])
  BY DueAssumption DEF IsDue

\* An anchor is an instant of the model, and no later verification is earlier.
LEMMA AnchorFacts ==
  ASSUME NEW V \in SUBSET Time, NEW since \in Time, NEW due, NEW a \in Anchors(V, since, due)
  PROVE  /\ a.at \in Time
         /\ a.kind = "verification" => a.at \in V
         /\ a.kind = "declared" => a.at = since /\ Reaching(V, since, due) = {}
         /\ a.kind \in {"verification", "declared"}
         /\ a = [at |-> a.at, kind |-> a.kind]
         /\ a.kind = "verification" => a.at > since \/ a.at \in Reaching(V, since, due)
  BY TimeIsNat DEF Anchors, Reaching

\* Verifications within a cutoff, none of them after every entry was gone.
IsVerified(over, V, T) ==
  /\ V \in SUBSET Time
  /\ \A v \in V : v <= T /\ \E e \in over : v <= e.gone

\* A window that lapsed closed before as-of, while its clock ran.
LEMMA LapsedBeforeAsOf ==
  ASSUME NEW d \in Documents, NEW over \in SUBSET d, NEW V, NEW T \in Time, NEW close \in Nat,
         IsVerified(over, V, T), NEW a, Lapsed(over, V, a, close, T)
  PROVE  close < T /\ ~StoppedBefore(over, close)
<1>1. CASE After(V, a) # {}
  <2>1. PICK v \in After(V, a) : v > close
    BY <1>1 DEF Lapsed
  <2>2. v \in Time /\ v <= T
    BY <2>1 DEF After, IsVerified
  <2>3. PICK e \in over : v <= e.gone
    BY <2>1 DEF After, IsVerified
  <2>4. v \in Nat /\ T \in Nat /\ e.gone \in Nat
    BY <2>2, DocumentsAssumption, TimeIsNat
  <2>5. close < T
    BY <2>1, <2>2, <2>4
  <2>6. ~(e.gone < close)
    BY <2>1, <2>3, <2>4
  <2> QED BY <2>5, <2>6 DEF StoppedBefore
<1>2. CASE After(V, a) = {}
  <2>1. T > close /\ ~StoppedBefore(over, close)
    BY <1>2 DEF Lapsed
  <2> QED BY <2>1, TimeIsNat
<1> QED BY <1>1, <1>2

\* A lapsed anchor that is left, with nothing inside its window, lapses still.
LEMMA StillLapsed ==
  ASSUME NEW over, NEW V0 \in SUBSET Time, NEW V \in SUBSET Time,
         NEW since \in Time, NEW due, IsDue(due),
         NEW T \in Time,
         NEW a \in Anchors(V0, since, due),
         due[a.at] < T, ~StoppedBefore(over, due[a.at]),
         a.kind = "verification" => a.at \in V,
         \A v \in V : ~(a.at < v /\ v <= due[a.at]),
         a.kind = "verification" \/ Reaching(V, since, due) = {}
  PROVE  a \in Anchors(V, since, due) /\ Lapsed(over, V, a, due[a.at], T)
<1>1. /\ a.at \in Time
      /\ a.kind = "verification" => a.at > since \/ a.at \in Reaching(V0, since, due)
      /\ a.kind = "declared" => a.at = since
      /\ a.kind \in {"verification", "declared"}
      /\ a = [at |-> a.at, kind |-> a.kind]
  BY AnchorFacts
<1>2. due[a.at] \in Nat /\ T \in Nat /\ since \in Nat /\ V \subseteq Nat /\ a.at \in Nat
  BY <1>1, TimeIsNat DEF IsDue
<1>3. a \in Anchors(V, since, due)
  <2>1. CASE a.kind = "declared"
    BY <1>1, <2>1 DEF Anchors
  <2>2. CASE a.kind = "verification"
    <3>1. CASE a.at > since
      BY <1>1, <2>2, <3>1 DEF Anchors
    <3>2. CASE a.at \in Reaching(V0, since, due)
      <4>1. a.at \in V /\ a.at <= since /\ due[a.at] >= since
        BY <2>2, <3>2 DEF Reaching
      <4>2. \A u \in V : u <= since => u <= a.at
        BY <1>2, <4>1
      <4>3. a.at \in Reaching(V, since, due)
        BY <4>1, <4>2 DEF Reaching
      <4> QED BY <1>1, <2>2, <4>3 DEF Anchors
    <3> QED BY <1>1, <2>2, <3>1, <3>2
  <2> QED BY <1>1, <2>1, <2>2
<1>4. \A v \in After(V, a) : v > due[a.at]
  BY <1>2 DEF After
<1>5. T > due[a.at]
  BY <1>2
<1> QED BY <1>3, <1>4, <1>5 DEF Lapsed

\* Two anchors of one walk that both lapse close at different instants.
LEMMA ClosesDiffer ==
  ASSUME NEW over, NEW V \in SUBSET Time, NEW since \in Time, NEW due, IsDue(due), NEW T \in Time,
         NEW a \in Anchors(V, since, due), NEW b \in Anchors(V, since, due),
         Lapsed(over, V, a, due[a.at], T), Lapsed(over, V, b, due[b.at], T),
         due[a.at] = due[b.at]
  PROVE  a = b
<1>1. /\ a.at \in Time /\ b.at \in Time
      /\ a.kind \in {"verification", "declared"} /\ b.kind \in {"verification", "declared"}
      /\ a = [at |-> a.at, kind |-> a.kind] /\ b = [at |-> b.at, kind |-> b.kind]
      /\ a.kind = "verification" => a.at \in V
      /\ b.kind = "verification" => b.at \in V
      /\ a.kind = "verification" => a.at > since \/ a.at \in Reaching(V, since, due)
      /\ b.kind = "verification" => b.at > since \/ b.at \in Reaching(V, since, due)
      /\ a.kind = "declared" => a.at = since /\ Reaching(V, since, due) = {}
      /\ b.kind = "declared" => b.at = since /\ Reaching(V, since, due) = {}
  BY AnchorFacts
<1>2. a.at \in Nat /\ b.at \in Nat /\ since \in Nat /\ due[a.at] \in Nat /\ due[a.at] > a.at
      /\ due[b.at] > b.at
  BY <1>1, TimeIsNat DEF IsDue
<1>3. a.kind = b.kind \/ a.at # b.at
  BY <1>1, <1>2
<1>4. ~(a.at < b.at)
  <2> SUFFICES ASSUME a.at < b.at PROVE FALSE
    OBVIOUS
  <2>1. b.kind = "verification"
    BY <1>1, <1>2 DEF Reaching
  <2>2. b.at \in After(V, a)
    BY <1>1, <2>1 DEF After
  <2> QED BY <1>2, <2>2 DEF Lapsed
<1>5. ~(b.at < a.at)
  <2> SUFFICES ASSUME b.at < a.at PROVE FALSE
    OBVIOUS
  <2>1. a.kind = "verification"
    BY <1>1, <1>2 DEF Reaching
  <2>2. a.at \in After(V, b)
    BY <1>1, <2>1 DEF After
  <2> QED BY <1>2, <2>2 DEF Lapsed
<1> QED BY <1>1, <1>2, <1>3, <1>4, <1>5

\* Some instant of any group is the latest of it.
LEMMA LatestExists ==
  ASSUME NEW U \in SUBSET Time, U # {}
  PROVE  \E u \in U : \A v \in U : v <= u
<1> DEFINE HasLatest(W) == \E u \in W : \A v \in W : v <= u
           Bad == {W \in FiniteSubsetsOf(Time) : W # {} /\ ~HasLatest(W)}
<1>1. IsFiniteSet(Time)
  BY FS_Interval, TimeAssumption DEF Time
<1>2. SUFFICES ASSUME U \in Bad PROVE FALSE
  BY <1>1, FS_Subset DEF FiniteSubsetsOf
<1>3. PICK W \in Bad : \A X \in Bad : <<X, W>> \notin StrictSubsetOrdering(Time)
  BY <1>2, WFMin, FS_StrictSubsetOrderingWellFounded
<1>4. PICK x \in W : TRUE
  OBVIOUS
<1>5. W \ {x} \in FiniteSubsetsOf(Time) /\ W \in FiniteSubsetsOf(Time)
  BY <1>4, FS_RemoveElement DEF FiniteSubsetsOf
<1>6. W \ {x} \notin Bad
  BY <1>3, <1>4, <1>5 DEF StrictSubsetOrdering, FiniteSubsetsOf
<1>7. ~HasLatest(W)
  OBVIOUS
<1>8. W \subseteq Nat
  BY <1>5, TimeIsNat DEF FiniteSubsetsOf
<1> HIDE DEF Bad
<1>9. CASE W \ {x} = {}
  BY <1>4, <1>7, <1>8, <1>9
<1>10. CASE W \ {x} # {}
  <2>1. HasLatest(W \ {x})
    BY <1>5, <1>6, <1>10 DEF Bad
  <2>2. PICK u \in W \ {x} : \A v \in W \ {x} : v <= u
    BY <2>1
  <2> QED BY <1>4, <1>7, <1>8, <2>2
<1> QED BY <1>9, <1>10

\* A verification before expectedSince that reaches it makes the latest such one an anchor.
LEMMA ReachingExists ==
  ASSUME NEW V \in SUBSET Time, NEW since \in Time, NEW due, IsDue(due),
         NEW v \in V, v <= since, due[v] >= since
  PROVE  Reaching(V, since, due) # {}
<1> DEFINE U == {u \in V : u <= since}
<1>1. PICK u \in U : \A x \in U : x <= u
  BY LatestExists
<1>2. due[u] >= due[v] /\ due[u] \in Nat /\ due[v] \in Nat /\ since \in Nat
  BY <1>1, TimeIsNat DEF IsDue
<1>3. u \in Reaching(V, since, due)
  BY <1>1, <1>2 DEF Reaching
<1> QED BY <1>3

\* At any instant of a clock's run some anchor is the last one, and no
\* verification came between it and the instant.
LEMMA LastAnchor ==
  ASSUME NEW V \in SUBSET Time, NEW since \in Time, NEW due, NEW t \in Time, since <= t
  PROVE  \E a \in Anchors(V, since, due) :
            /\ a.at <= t
            /\ \A v \in V : v > a.at => v > t
<1> DEFINE U == {v \in V : v > since /\ v <= t}
           R == Reaching(V, since, due)
<1>1. V \subseteq Nat /\ since \in Nat /\ t \in Nat
  BY TimeIsNat
<1>2. CASE U # {}
  <2>1. PICK u \in U : \A x \in U : x <= u
    BY <1>2, LatestExists
  <2>2. [at |-> u, kind |-> "verification"] \in Anchors(V, since, due)
    BY DEF Anchors
  <2>3. \A v \in V : v > u => v > t
    BY <1>1, <2>1
  <2> QED BY <2>2, <2>3
<1>3. CASE U = {} /\ R # {}
  <2>1. PICK r \in R : TRUE
    BY <1>3
  <2>2. [at |-> r, kind |-> "verification"] \in Anchors(V, since, due)
    BY DEF Anchors
  <2>3. r \in V /\ r <= since /\ \A u \in V : u <= since => u <= r
    BY DEF Reaching
  <2>4. \A v \in V : v > r => v > t
    BY <1>1, <1>3, <2>3
  <2>5. r <= t
    BY <1>1, <2>3
  <2> QED BY <2>2, <2>4, <2>5
<1>4. CASE U = {} /\ R = {}
  <2>1. [at |-> since, kind |-> "declared"] \in Anchors(V, since, due)
    BY <1>4 DEF Anchors
  <2>2. \A v \in V : v > since => v > t
    BY <1>1, <1>4
  <2> QED BY <2>1, <2>2
<1> QED BY <1>2, <1>3, <1>4

\* A clock that runs at an instant ran at every earlier one.
LEMMA RanBefore ==
  ASSUME NEW d \in Documents, NEW over \in SUBSET d, NEW t \in Nat, NEW u \in Nat, u <= t,
         ~StoppedBefore(over, t)
  PROVE  ~StoppedBefore(over, u)
<1>1. PICK e \in over : ~(e.gone < t)
  BY DEF StoppedBefore
<1>2. e.gone \in Nat
  BY DocumentsAssumption, TimeIsNat
<1> QED BY <1>1, <1>2 DEF StoppedBefore

\* Covered, and its opposite, over one clock's sets.
CoveredBy(V, since, due, t) ==
  \/ \E v \in V : v <= t /\ t <= due[v]
  \/ t <= due[since] /\ ~\E v \in V : v <= since /\ since <= due[v]

LapsedBy(over, V, since, due, asOf, t) ==
  \E a \in Anchors(V, since, due) :
    /\ Lapsed(over, V, a, due[a.at], asOf)
    /\ due[a.at] < t
    /\ \A v \in V : ~(due[a.at] < v /\ v <= t)

\* An instant is covered exactly when no lapsed window, unresumed, closed before it.
LEMMA CoveredIffNoLapse ==
  ASSUME NEW d \in Documents, NEW over \in SUBSET d, NEW V \in SUBSET Time, NEW since \in Time,
         NEW due, IsDue(due), NEW asOf \in Time, NEW t \in Time, since <= t, t <= asOf,
         ~StoppedBefore(over, t)
  PROVE  CoveredBy(V, since, due, t) <=> ~LapsedBy(over, V, since, due, asOf, t)
<1> DEFINE ByVerification == \E v \in V : v <= t /\ t <= due[v]
           ByDeclaration == t <= due[since] /\ ~\E v \in V : v <= since /\ since <= due[v]
           Open(a) == /\ Lapsed(over, V, a, due[a.at], asOf)
                      /\ due[a.at] < t
                      /\ \A v \in V : ~(due[a.at] < v /\ v <= t)
<1>1. /\ V \subseteq Nat /\ since \in Nat /\ t \in Nat /\ asOf \in Nat
      /\ \A x \in Time : due[x] \in Nat /\ x \in Nat /\ due[x] > x
  BY TimeIsNat DEF IsDue
<1>2. ASSUME NEW a \in Anchors(V, since, due), Open(a), ByVerification PROVE FALSE
  <2>1. PICK v \in V : v <= t /\ t <= due[v]
    BY <1>2
  <2>2. a.at \in Time
    BY AnchorFacts
  <2>6. a.at \in Nat /\ due[a.at] \in Nat
    BY <1>1, <2>2
  <2>7. v \in Time /\ v \in Nat /\ due[v] \in Nat
    BY <1>1
  <2>3. v <= due[a.at]
    <3>1. ~(due[a.at] < v /\ v <= t)
      BY <1>2
    <3> QED BY <2>1, <2>6, <2>7, <3>1
  <2>4. v <= a.at
    <3>1. v > a.at => v > due[a.at]
      BY <1>2 DEF Lapsed, After
    <3> QED BY <2>3, <2>6, <2>7, <3>1
  <2>5. due[v] <= due[a.at]
    BY <2>2, <2>4, <2>7 DEF IsDue
  <2>8. due[a.at] < t
    BY <1>2
  <2> QED BY <1>1, <2>1, <2>5, <2>6, <2>7, <2>8
<1>3. ASSUME NEW a \in Anchors(V, since, due), Open(a), ByDeclaration PROVE FALSE
  <2>1. /\ a.at \in Time
        /\ a.kind = "declared" => a.at = since
        /\ a.kind \in {"verification", "declared"}
        /\ a.kind = "verification" => a.at > since \/ a.at \in Reaching(V, since, due)
    BY AnchorFacts
  <2>5. a.at \in Nat /\ due[a.at] \in Nat /\ due[since] \in Nat
    BY <1>1, <2>1
  <2>2. CASE a.at = since
    BY <1>1, <1>3, <2>2, <2>5
  <2>3. CASE a.at > since
    <3>1. since <= a.at
      BY <1>1, <2>3, <2>5
    <3>2. due[since] <= due[a.at]
      BY <2>1, <3>1 DEF IsDue
    <3>3. due[a.at] < t /\ t <= due[since]
      BY <1>3
    <3> QED BY <1>1, <2>5, <3>2, <3>3
  <2>4. CASE a.at \in Reaching(V, since, due)
    <3>1. a.at \in V /\ a.at <= since /\ since <= due[a.at]
      BY <1>1, <2>1, <2>4 DEF Reaching
    <3> QED BY <1>3, <3>1
  <2> QED BY <2>1, <2>2, <2>3, <2>4
<1>4. ASSUME ~ByVerification, ~ByDeclaration PROVE \E a \in Anchors(V, since, due) : Open(a)
  <2>1. PICK a \in Anchors(V, since, due) : a.at <= t /\ \A v \in V : v > a.at => v > t
    BY LastAnchor
  <2>2. /\ a.at \in Time
        /\ a.kind = "verification" => a.at \in V
        /\ a.kind = "declared" => a.at = since /\ Reaching(V, since, due) = {}
        /\ a.kind \in {"verification", "declared"}
    BY AnchorFacts
  <2>3. due[a.at] < t
    <3>0. due[a.at] \in Nat
      BY <1>1, <2>2
    <3>1. CASE a.kind = "verification"
      <4>1. ~(a.at <= t /\ t <= due[a.at])
        BY <1>4, <2>2, <3>1
      <4> QED BY <1>1, <2>1, <3>0, <4>1
    <3>2. CASE a.kind = "declared"
      <4>1. ~\E v \in V : v <= since /\ since <= due[v]
        BY <1>1, <2>2, <3>2, ReachingExists
      <4>2. ~(t <= due[a.at])
        BY <1>4, <2>2, <3>2, <4>1
      <4> QED BY <1>1, <3>0, <4>2
    <3> QED BY <2>2, <3>1, <3>2
  <2>7. a.at \in Nat /\ due[a.at] \in Nat /\ due[a.at] > a.at /\ due[a.at] <= t
    <3>1. a.at \in Nat /\ due[a.at] \in Nat /\ due[a.at] > a.at
      BY <1>1, <2>2
    <3> QED BY <1>1, <2>3, <3>1
  <2>4. ~StoppedBefore(over, due[a.at])
    BY <1>1, <2>7, RanBefore
  <2>8. \A v \in V : v > a.at => v > due[a.at]
    BY <1>1, <2>1, <2>3, <2>7
  <2>5. Lapsed(over, V, a, due[a.at], asOf)
    BY <1>1, <2>3, <2>4, <2>7, <2>8 DEF Lapsed, After
  <2>6. \A v \in V : ~(due[a.at] < v /\ v <= t)
    BY <1>1, <2>1, <2>7
  <2> QED BY <2>3, <2>5, <2>6
<1>5. CoveredBy(V, since, due, t) <=> ByVerification \/ ByDeclaration
  BY DEF CoveredBy
<1>6. LapsedBy(over, V, since, due, asOf, t) <=> \E a \in Anchors(V, since, due) : Open(a)
  BY DEF LapsedBy
<1> HIDE DEF ByVerification, ByDeclaration, Open
<1> QED BY <1>2, <1>3, <1>4, <1>5, <1>6

\* A clock over entries of a document, with its verifications, that runs at as-of.
StillRuns(d, over, V, since, due, asOf) ==
  /\ d \in Documents /\ over \in SUBSET d /\ V \in SUBSET Time /\ since \in Time
  /\ IsDue(due) /\ asOf \in Time /\ since <= asOf /\ ~StoppedBefore(over, asOf)

\* What the last anchor says is what holds at as-of, while the clock runs.
LEMMA LastAnchorDecides ==
  ASSUME NEW d, NEW over, NEW V, NEW since, NEW due, NEW asOf,
         StillRuns(d, over, V, since, due, asOf),
         NEW last \in Anchors(V, since, due), After(V, last) = {}
  PROVE  (last.kind # "declared" /\ ~Lapsed(over, V, last, due[last.at], asOf))
           <=> \E v \in V : asOf <= due[v]
<1> USE DEF StillRuns
<1>1. /\ last.at \in Time
      /\ last.kind = "verification" => last.at \in V
      /\ last.kind = "declared" => last.at = since /\ Reaching(V, since, due) = {}
      /\ last.kind \in {"verification", "declared"}
  BY AnchorFacts
<1>2. /\ V \subseteq Nat /\ since \in Nat /\ asOf \in Nat
      /\ \A x \in Time : due[x] \in Nat /\ x \in Nat
  BY TimeIsNat DEF IsDue
<1>7. last.at \in Nat /\ due[last.at] \in Nat
  BY <1>1, <1>2
<1>3. \A v \in V : v <= last.at
  BY <1>2, <1>7 DEF After
<1>4. \A v \in V : due[v] <= due[last.at]
  BY <1>1, <1>3 DEF IsDue
<1>5. CASE last.kind = "declared"
  <2>1. ASSUME NEW v \in V, asOf <= due[v] PROVE FALSE
    <3>1. v <= since /\ due[v] >= since
      BY <1>1, <1>2, <1>3, <1>5, <2>1
    <3> QED BY <1>1, <1>5, <3>1, ReachingExists
  <2> QED BY <1>5, <2>1
<1>6. CASE last.kind = "verification"
  <2>1. due[last.at] < asOf => ~StoppedBefore(over, due[last.at])
    <3>1. due[last.at] < asOf => due[last.at] <= asOf
      BY <1>2, <1>7
    <3> QED BY <1>2, <1>7, <3>1, RanBefore
  <2>2. Lapsed(over, V, last, due[last.at], asOf) <=> due[last.at] < asOf
    BY <1>2, <1>7, <2>1 DEF Lapsed
  <2>3. asOf <= due[last.at] => \E v \in V : asOf <= due[v]
    BY <1>1, <1>6
  <2>4. \A v \in V : due[v] \in Nat
    BY <1>2
  <2>5. (\E v \in V : asOf <= due[v]) => asOf <= due[last.at]
    BY <1>2, <1>4, <1>7, <2>4
  <2> QED BY <1>2, <1>6, <1>7, <2>2, <2>3, <2>5
<1> QED BY <1>1, <1>5, <1>6

\* The window of an anchor a of a clock closes when that of p did, and v,
\* which verified inside p's, was known before, as was nothing else inside
\* it that is known no more.
ClosesAgain(over, V0, V, since, due, asOf, close, p, v, a) ==
  /\ V0 \in SUBSET Time /\ V \in SUBSET Time
  /\ \A u \in V0 : p < u /\ u <= close => u \in V
  /\ since \in Time /\ IsDue(due) /\ asOf \in Time
  /\ close \in Nat /\ close < asOf /\ ~StoppedBefore(over, close)
  /\ p \in Time /\ due[p] = close
  /\ v \in V0 /\ p < v /\ v <= close
  /\ a \in Anchors(V, since, due) /\ due[a.at] = close
  /\ \A u \in V : ~(a.at < u /\ u <= close)

\* A window derived again on a verification that disproves an older record of
\* it was derived before, on the last verification the older as-of had.
LEMMA DerivedBefore ==
  ASSUME NEW over, NEW V0, NEW V, NEW since, NEW due, NEW asOf, NEW close, NEW p, NEW v, NEW a,
         ClosesAgain(over, V0, V, since, due, asOf, close, p, v, a)
  PROVE  /\ since <= asOf
         /\ \E b \in Anchors(V0, since, due) :
              due[b.at] = close /\ Lapsed(over, V0, b, due[b.at], asOf)
<1> USE DEF ClosesAgain
<1> DEFINE U == {u \in V0 : u <= close}
           R == Reaching(V0, since, due)
<1>1. PICK u \in U : \A x \in U : x <= u
  BY LatestExists
<1>2. /\ V \subseteq Nat /\ V0 \subseteq Nat /\ since \in Nat /\ asOf \in Nat /\ p \in Nat
      /\ \A x \in Time : due[x] \in Nat /\ x \in Nat /\ due[x] > x
  BY TimeIsNat DEF IsDue
<1>3. /\ a.at \in Time
      /\ a.kind = "declared" => a.at = since
      /\ a.kind \in {"verification", "declared"}
      /\ a.kind = "verification" => a.at > since \/ a.at \in Reaching(V, since, due)
  BY AnchorFacts
<1>10. a.at \in Nat /\ close > a.at
  BY <1>2, <1>3
<1>4. since <= close
  <2>1. CASE a.at \in Reaching(V, since, due)
    BY <2>1 DEF Reaching
  <2> QED BY <1>2, <1>3, <1>10, <2>1
<1>5. u <= a.at /\ p <= u
  <2>0. u \in Nat /\ u <= close /\ v \in Nat /\ v <= u
    BY <1>1, <1>2
  <2>1. u \in V /\ u \in Nat /\ u <= close /\ v \in Nat /\ v <= u
    BY <1>2, <2>0
  <2> QED BY <1>2, <1>10, <2>1
<1>6. due[u] = close
  <2>1. due[p] <= due[u] /\ due[u] <= due[a.at]
    BY <1>1, <1>3, <1>5 DEF IsDue
  <2> QED BY <1>1, <1>2, <2>1
<1>7. \A x \in V0 : x > u => x > close
  BY <1>1, <1>2
<1> DEFINE b == [at |-> u, kind |-> "verification"]
<1>8. b \in Anchors(V0, since, due)
  <2>1. CASE u > since
    BY <2>1 DEF Anchors
  <2>2. CASE u <= since
    <3>1. \A x \in V0 : x <= since => x <= u
      BY <1>1, <1>2, <1>4
    <3>2. u \in R
      BY <1>2, <1>4, <1>6, <2>2, <3>1 DEF Reaching
    <3> QED BY <3>2 DEF Anchors
  <2> QED BY <1>1, <1>2, <2>1, <2>2
<1>9. Lapsed(over, V0, b, due[b.at], asOf)
  BY <1>2, <1>6, <1>7 DEF Lapsed, After
<1> QED BY <1>2, <1>4, <1>6, <1>8, <1>9

-----------------------------------------------------------------------------
(* The evidence.                                                           *)

\* A recorded gap never verifies: only ingested observations and attestations
\* do.
LEMMA VerifiedIff ==
  ASSUME NEW over, NEW asOf, NEW v
  PROVE  v \in VerifiedAt(over, asOf)
           <=> \E e \in over :
                 \/ v \in Attested(e, asOf)
                 \/ \E o \in evidence :
                                     /\ Examines(o, e, asOf)
                                        /\ e.machine /\ Determines(o)
                                        /\ v = o.at
<1>1. \A e \in over : \A o : o \in Observations /\ Examines(o, e, asOf) => o \in evidence
  BY DEF Observations, GapObservation, Examines, Countable
<1>2. evidence \subseteq Observations
  BY DEF Observations
<1>3. v \in VerifiedAt(over, asOf)
        <=> \E e \in over :
              \/ v \in Attested(e, asOf)
              \/ \E o \in Observations : /\ Examines(o, e, asOf)
                                         /\ e.machine /\ Determines(o)
                                         /\ v = o.at
  BY DEF VerifiedAt
<1> QED BY <1>1, <1>2, <1>3

\* Verifications are instants of the model, within the cutoff, and none of
\* them is after its entry was gone.
LEMMA VerifiedInTime ==
  ASSUME NEW d \in Documents, NEW over \in SUBSET d, NEW asOf \in Time
  PROVE  IsVerified(over, VerifiedAt(over, asOf), asOf)
<1>1. ASSUME NEW v \in VerifiedAt(over, asOf)
      PROVE  v \in Time /\ v <= asOf /\ \E e \in over : v <= e.gone
  <2>1. PICK e \in over : \/ v \in Attested(e, asOf)
                          \/ \E o \in evidence : Examines(o, e, asOf) /\ v = o.at
    BY <1>1, VerifiedIff
  <2>2. e.attested \subseteq Time
    BY DocumentsAssumption
  <2> QED BY <2>1, <2>2 DEF Attested, Examines
<1> QED BY <1>1 DEF IsVerified

\* The same of the verifications of the next state, whatever the step did.
LEMMA VerifiedInTimeNext ==
  ASSUME NEW d \in Documents, NEW over \in SUBSET d, NEW asOf \in Time
  PROVE  IsVerified(over, VerifiedAt(over, asOf)', asOf)
<1>1. ASSUME NEW v \in VerifiedAt(over, asOf)'
      PROVE  v \in Time /\ v <= asOf /\ \E e \in over : v <= e.gone
  <2>1. PICK e \in over : \/ v \in Attested(e, asOf)
                          \/ \E o \in Observations' : Examines(o, e, asOf) /\ v = o.at
    BY <1>1 DEF VerifiedAt
  <2>2. e.attested \subseteq Time
    BY DocumentsAssumption
  <2> QED BY <2>1, <2>2 DEF Attested, Examines
<1> QED BY <1>1 DEF IsVerified

\* An earlier as-of verifies with what a later one does, up to its cutoff.
LEMMA VerifiedLater ==
  ASSUME NEW d \in Documents, NEW over \in SUBSET d, NEW asOf \in Time, NEW later \in Time,
         asOf <= later
  PROVE  \A v : v \in VerifiedAt(over, asOf) <=> v \in VerifiedAt(over, later) /\ v <= asOf
<1>1. asOf \in Nat /\ later \in Nat
  BY TimeIsNat
<1>2. \A e \in over : \A v : v \in Attested(e, asOf) <=> v \in Attested(e, later) /\ v <= asOf
  <2> TAKE e \in over
  <2> TAKE v
  <2>1. e.attested \subseteq Nat
    BY DocumentsAssumption, TimeIsNat
  <2> QED BY <1>1, <2>1 DEF Attested
<1>3. \A e \in over, o \in evidence : Examines(o, e, asOf) <=> Examines(o, e, later) /\ o.at <= asOf
  <2> TAKE e \in over, o \in evidence
  <2>1. \A t \in Time : t <= asOf => t <= later
    BY <1>1, TimeIsNat
  <2> QED BY <2>1 DEF Examines
<1> TAKE v
<1>4. v \in VerifiedAt(over, asOf)
        <=> \E e \in over :
              \/ v \in Attested(e, asOf)
              \/ \E o \in evidence : Examines(o, e, asOf) /\ e.machine /\ Determines(o) /\ v = o.at
  BY VerifiedIff
<1>5. v \in VerifiedAt(over, later)
        <=> \E e \in over :
              \/ v \in Attested(e, later)
              \/ \E o \in evidence : Examines(o, e, later) /\ e.machine /\ Determines(o) /\ v = o.at
  BY VerifiedIff
<1> QED BY <1>2, <1>3, <1>4, <1>5

\* Nothing but the evidence changes what verifies.
LEMMA VerifiedNext ==
  ASSUME NEW over, NEW asOf, evidence' = evidence
  PROVE  VerifiedAt(over, asOf)' = VerifiedAt(over, asOf)
<1>1. \A v : v \in VerifiedAt(over, asOf)
               <=> \E e \in over :
                     \/ v \in Attested(e, asOf)
                     \/ \E o \in evidence : Examines(o, e, asOf) /\ e.machine /\ Determines(o)
                                            /\ v = o.at
  BY VerifiedIff
<1>2. \A v : v \in VerifiedAt(over, asOf)'
               <=> \E e \in over :
                     \/ v \in Attested(e, asOf)
                     \/ \E o \in evidence' : Examines(o, e, asOf) /\ e.machine /\ Determines(o)
                                             /\ v = o.at
  <2>1. \A e \in over : \A o : o \in Observations' /\ Examines(o, e, asOf) => o \in evidence'
    BY DEF Observations, GapObservation, Examines, Countable
  <2>2. evidence' \subseteq Observations'
    BY DEF Observations
  <2>3. \A v : v \in VerifiedAt(over, asOf)'
                 <=> \E e \in over :
                       \/ v \in Attested(e, asOf)
                       \/ \E o \in Observations' : Examines(o, e, asOf) /\ e.machine
                                                   /\ Determines(o) /\ v = o.at
    BY DEF VerifiedAt
  <2> QED BY <2>1, <2>2, <2>3
<1>3. \A v : v \in VerifiedAt(over, asOf)' <=> v \in VerifiedAt(over, asOf)
  BY <1>1, <1>2
<1> DEFINE V == VerifiedAt(over, asOf)
           W == VerifiedAt(over, asOf)'
<1>4. \A v : v \in W <=> v \in V
  BY <1>3
<1>5. V = UNION {V} /\ W = UNION {W}
  BY Zenon
<1> QED BY <1>4, <1>5

-----------------------------------------------------------------------------
(* The clocks.                                                             *)

\* A clock runs from one instant, over entries of the document, and the
\* evidence found by its subject's name is its own.
LEMMA ClockFacts ==
  ASSUME NEW d \in Documents, Readable(d), NEW k \in Clocks(d)
  PROVE  /\ k.over \in SUBSET d
         /\ Since(k.over) \in Time
         /\ k.rule \in CoverageRules
         /\ FiledUnder(d, k.rule, k.subject) = k.over
<1>1. ASSUME NEW m \in SUBSET d, m # {} PROVE Since(m) \in Time
  <2>1. \E s \in {e.since : e \in m} : \A e \in m : s <= e.since
    BY <1>1, DocumentsAssumption
  <2>2. Since(m) \in {e.since : e \in m}
    BY <2>1, Zenon DEF Since
  <2> QED BY <2>2, DocumentsAssumption
<1>2. CASE k \in ResourceClocks(d)
  <2>0. PICK e \in d :
          \E r \in EntryRules(e) : k = [rule |-> r, subject |-> e.ref, over |-> {e}]
    BY <1>2 DEF ResourceClocks
  <2>1. PICK r \in EntryRules(e) : k = [rule |-> r, subject |-> e.ref, over |-> {e}]
    BY <2>0
  <2>2. r \in CoverageRules /\ r # "PSD"
    BY DEF EntryRules, CoverageRules
  <2>3. EntryFor(d, e.ref) = {e}
    BY DEF EntryFor, Readable, Identities
  <2> QED BY <1>1, <2>1, <2>2, <2>3 DEF FiledUnder
<1>3. CASE k \in GroupClocks(d)
  <2>1. PICK g \in {e.group : e \in d} \ {"none"} :
          k = [rule |-> "PSD", subject |-> GroupRef(g), over |-> Members(d, g)]
    BY <1>3 DEF GroupClocks
  <2>2. Members(d, g) \in SUBSET d /\ Members(d, g) # {}
    BY DEF Members
  <2>3. {e \in d : GroupRef(e.group) = GroupRef(g)} = Members(d, g)
    BY DEF GroupRef, Ref, Members
  <2> QED BY <1>1, <2>1, <2>2, <2>3 DEF FiledUnder, CoverageRules
<1> QED BY <1>2, <1>3 DEF Clocks

\* Rule and subject name one clock.
LEMMA ClockNamed ==
  ASSUME NEW d \in Documents, Readable(d), NEW k \in Clocks(d), NEW l \in Clocks(d),
         k.rule = l.rule, k.subject = l.subject
  PROVE  k = l
<1>1. k.over = l.over
  BY ClockFacts
<1>2. \A c \in Clocks(d) : c = [rule |-> c.rule, subject |-> c.subject, over |-> c.over]
  BY DEF Clocks, ResourceClocks, GroupClocks
<1> QED BY <1>1, <1>2

\* The record a window is.
LEMMA WindowFields ==
  ASSUME NEW k, NEW class, NEW a
  PROVE  /\ Window(k, class, a).rule = k.rule
         /\ Window(k, class, a).subject = k.subject
         /\ Window(k, class, a).anchorAt = a.at
         /\ Window(k, class, a).anchor = a.kind
         /\ Window(k, class, a).close = Due[class][k.rule][a.at]
  BY DEF Window

\* Every listed window is one of a clock of the document, and nothing else is.
LEMMA WindowIff ==
  ASSUME NEW d, NEW class, NEW asOf, NEW w
  PROVE  w \in Windows(d, class, asOf)
           <=> \E k \in Clocks(d) : \E a \in LapsedAnchors(k, class, asOf) : w = Window(k, class, a)
  BY DEF Windows, ClockWindows

LEMMA LapsedIff ==
  ASSUME NEW k, NEW class, NEW asOf, NEW a
  PROVE  a \in LapsedAnchors(k, class, asOf)
           <=> /\ a \in Anchors(VerifiedAt(k.over, asOf), Since(k.over), Due[class][k.rule])
               /\ Since(k.over) <= asOf
               /\ Lapsed(k.over, VerifiedAt(k.over, asOf), a, Due[class][k.rule][a.at], asOf)
  BY DEF LapsedAnchors

\* A run that may derive reads a document whose clocks all have their rule.
LEMMA RunFacts ==
  ASSUME NEW d \in Documents, Readable(d),
         NEW class \in DOMAIN Due, CoverageRules \subseteq DOMAIN Due[class],
         NEW asOf \in Time, NEW k \in Clocks(d)
  PROVE  /\ IsDue(Due[class][k.rule])
         /\ Since(k.over) \in Time
         /\ VerifiedAt(k.over, asOf) \in SUBSET Time
         /\ \A v \in VerifiedAt(k.over, asOf) : v <= asOf
         /\ IsVerified(k.over, VerifiedAt(k.over, asOf), asOf)
         /\ FiledUnder(d, k.rule, k.subject) = k.over
         /\ k.over \in SUBSET d
<1>1. k.over \in SUBSET d /\ Since(k.over) \in Time /\ k.rule \in CoverageRules
      /\ FiledUnder(d, k.rule, k.subject) = k.over
  BY ClockFacts
<1>2. IsDue(Due[class][k.rule])
  BY <1>1, DueIsDue
<1>3. IsVerified(k.over, VerifiedAt(k.over, asOf), asOf)
  BY <1>1, VerifiedInTime
<1>4. VerifiedAt(k.over, asOf) \in SUBSET Time /\ \A v \in VerifiedAt(k.over, asOf) : v <= asOf
  BY <1>3 DEF IsVerified
<1> QED BY <1>1, <1>2, <1>3, <1>4

\* A lapsed window is anchored at an instant of the model.
LEMMA LapsedInTime ==
  ASSUME NEW d \in Documents, Readable(d),
         NEW class \in DOMAIN Due, CoverageRules \subseteq DOMAIN Due[class],
         NEW asOf \in Time, NEW k \in Clocks(d), NEW a \in LapsedAnchors(k, class, asOf)
  PROVE  a.at \in Time
<1> DEFINE V == VerifiedAt(k.over, asOf)
           since == Since(k.over)
           due == Due[class][k.rule]
<1>1. V \in SUBSET Time /\ since \in Time
  BY RunFacts
<1>2. a \in Anchors(V, since, due)
  BY LapsedIff
<1> HIDE DEF V, since, due
<1> QED BY <1>1, <1>2, AnchorFacts

-----------------------------------------------------------------------------
(* What holds of every state with a readable inventory.                    *)

\* A derived window holds no verification, however the evidence is looked up.
LEMMA NoVerificationInside == inventory \in Documents => WindowsHoldNoVerification
<1> SUFFICES ASSUME inventory \in Documents,
                    NEW class \in DOMAIN Due, NEW asOf \in Time, Derivable(class),
                    NEW w \in Windows(inventory, class, asOf),
                    NEW v \in VerifiedAt(FiledUnder(inventory, w.rule, w.subject), asOf)
             PROVE  ~(w.anchorAt < v /\ v <= w.close)
  BY DEF WindowsHoldNoVerification
<1>1. Readable(inventory) /\ CoverageRules \subseteq DOMAIN Due[class]
  BY DEF Derivable
<1>2. PICK k \in Clocks(inventory) :
        \E a \in LapsedAnchors(k, class, asOf) : w = Window(k, class, a)
  BY WindowIff
<1>3. PICK a \in LapsedAnchors(k, class, asOf) : w = Window(k, class, a)
  BY <1>2
<1>4. Lapsed(k.over, VerifiedAt(k.over, asOf), a, Due[class][k.rule][a.at], asOf)
      /\ a \in Anchors(VerifiedAt(k.over, asOf), Since(k.over), Due[class][k.rule])
  BY LapsedIff
<1>5. /\ w.rule = k.rule /\ w.subject = k.subject
      /\ w.anchorAt = a.at /\ w.close = Due[class][k.rule][a.at]
  BY <1>3, WindowFields
<1>6. /\ IsDue(Due[class][k.rule]) /\ VerifiedAt(k.over, asOf) \in SUBSET Time
      /\ Since(k.over) \in Time
      /\ FiledUnder(inventory, k.rule, k.subject) = k.over
  BY <1>1, RunFacts
<1>7. v \in VerifiedAt(k.over, asOf)
  BY <1>5, <1>6
<1>8. a.at \in Time
  BY <1>4, <1>6, AnchorFacts
<1>9. a.at \in Nat /\ v \in Nat /\ Due[class][k.rule][a.at] \in Nat
  BY <1>6, <1>7, <1>8, TimeIsNat DEF IsDue
<1>10. v > a.at => v > Due[class][k.rule][a.at]
  BY <1>4, <1>7 DEF Lapsed, After
<1> QED BY <1>5, <1>9, <1>10

\* No two windows of a run share an id.
LEMMA OneIdOneWindow == inventory \in Documents => GapNamesOneWindow
<1> SUFFICES ASSUME inventory \in Documents,
                    NEW class \in DOMAIN Due, NEW asOf \in Time, Derivable(class),
                    NEW w \in Windows(inventory, class, asOf),
                    NEW x \in Windows(inventory, class, asOf),
                    GapId(inventory, w) = GapId(inventory, x)
             PROVE  w = x
  BY DEF GapNamesOneWindow
<1>1. Readable(inventory) /\ CoverageRules \subseteq DOMAIN Due[class]
  BY DEF Derivable
<1>2. PICK k \in Clocks(inventory) :
        \E a \in LapsedAnchors(k, class, asOf) : w = Window(k, class, a)
  BY WindowIff
<1>3. PICK a \in LapsedAnchors(k, class, asOf) : w = Window(k, class, a)
  BY <1>2
<1>4. PICK l \in Clocks(inventory) :
        \E b \in LapsedAnchors(l, class, asOf) : x = Window(l, class, b)
  BY WindowIff
<1>5. PICK b \in LapsedAnchors(l, class, asOf) : x = Window(l, class, b)
  BY <1>4
<1>6. /\ w.rule = x.rule /\ w.subject = x.subject /\ w.close = x.close
  BY DEF GapId
<1>7. k = l
  BY <1>1, <1>3, <1>5, <1>6, WindowFields, ClockNamed
<1>8. Due[class][k.rule][a.at] = Due[class][k.rule][b.at]
  BY <1>3, <1>5, <1>6, <1>7, WindowFields
<1>9. /\ IsDue(Due[class][k.rule]) /\ VerifiedAt(k.over, asOf) \in SUBSET Time
      /\ Since(k.over) \in Time
  BY <1>1, RunFacts
<1>10. /\ a \in Anchors(VerifiedAt(k.over, asOf), Since(k.over), Due[class][k.rule])
       /\ b \in Anchors(VerifiedAt(k.over, asOf), Since(k.over), Due[class][k.rule])
       /\ Lapsed(k.over, VerifiedAt(k.over, asOf), a, Due[class][k.rule][a.at], asOf)
       /\ Lapsed(k.over, VerifiedAt(k.over, asOf), b, Due[class][k.rule][b.at], asOf)
  BY <1>7, LapsedIff
<1>11. a = b
  BY <1>8, <1>9, <1>10, ClosesDiffer
<1> QED BY <1>3, <1>5, <1>7, <1>11

\* A window derived at one as-of is derived at every later one.
LEMMA LaterDerives == inventory \in Documents => WindowsOnlyGrow
<1> SUFFICES ASSUME inventory \in Documents,
                    NEW class \in DOMAIN Due, NEW asOf \in Time, NEW later \in Time,
                    Derivable(class), asOf <= later,
                    NEW w \in Windows(inventory, class, asOf)
             PROVE  w \in Windows(inventory, class, later)
  BY DEF WindowsOnlyGrow, DerivedIds
<1>1. Readable(inventory) /\ CoverageRules \subseteq DOMAIN Due[class]
  BY DEF Derivable
<1>2. PICK k \in Clocks(inventory) :
        \E a \in LapsedAnchors(k, class, asOf) : w = Window(k, class, a)
  BY WindowIff
<1>3. PICK a \in LapsedAnchors(k, class, asOf) : w = Window(k, class, a)
  BY <1>2
<1> DEFINE due == Due[class][k.rule]
           since == Since(k.over)
           V0 == VerifiedAt(k.over, asOf)
           V == VerifiedAt(k.over, later)
<1>4. /\ IsDue(due) /\ since \in Time /\ V0 \in SUBSET Time /\ V \in SUBSET Time
      /\ k.over \in SUBSET inventory /\ IsVerified(k.over, V0, asOf)
  BY <1>1, RunFacts
<1>5. \A v : v \in V0 <=> v \in V /\ v <= asOf
  BY <1>4, VerifiedLater
<1>6. a \in Anchors(V0, since, due) /\ since <= asOf /\ Lapsed(k.over, V0, a, due[a.at], asOf)
  BY LapsedIff
<1> HIDE DEF due, since, V0, V
<1>7. a.at \in Time /\ (a.kind = "declared" => Reaching(V0, since, due) = {})
      /\ a.kind \in {"verification", "declared"}
  BY <1>4, <1>6, AnchorFacts
<1>8. /\ a.at \in Nat /\ asOf \in Nat /\ later \in Nat /\ since \in Nat /\ due[a.at] \in Nat
      /\ V \subseteq Nat
  BY <1>4, <1>7, TimeIsNat DEF IsDue
<1>9. due[a.at] < asOf /\ ~StoppedBefore(k.over, due[a.at])
  <2> DEFINE over == k.over
             close == due[a.at]
  <2>1. /\ over \in SUBSET inventory /\ IsVerified(over, V0, asOf) /\ close \in Nat
        /\ Lapsed(over, V0, a, close, asOf)
    BY <1>4, <1>6, <1>8
  <2> HIDE DEF over, close
  <2>2. close < asOf /\ ~StoppedBefore(over, close)
    BY <2>1, LapsedBeforeAsOf
  <2> QED BY <2>2 DEF over, close
<1>10. due[a.at] < later /\ (a.kind = "verification" => a.at \in V)
  <2>1. a.kind = "verification" => a.at \in V0
    BY <1>4, <1>6, AnchorFacts
  <2> QED BY <1>5, <1>8, <1>9, <2>1
<1>11. \A v \in V : ~(a.at < v /\ v <= due[a.at])
  <2> SUFFICES ASSUME NEW v \in V, a.at < v, v <= due[a.at] PROVE FALSE
    OBVIOUS
  <2>1. v \in V0
    BY <1>5, <1>8, <1>9
  <2>2. v > due[a.at]
    BY <1>6, <2>1 DEF Lapsed, After
  <2> QED BY <1>8, <2>2
<1>12. a.kind = "verification" \/ Reaching(V, since, due) = {}
  <2> SUFFICES ASSUME a.kind = "declared", NEW v \in Reaching(V, since, due) PROVE FALSE
    BY <1>7
  <2>1. \A u \in V : u <= since => u \in V0
    BY <1>5, <1>6, <1>8
  <2>2. V0 \subseteq V
    BY <1>5
  <2>3. v \in Reaching(V0, since, due)
    BY <2>1, <2>2 DEF Reaching
  <2> QED BY <1>7, <2>3
<1>13. a \in Anchors(V, since, due) /\ Lapsed(k.over, V, a, due[a.at], later)
  BY <1>4, <1>6, <1>9, <1>10, <1>11, <1>12, StillLapsed
<1>14. since <= later
  BY <1>6, <1>8
<1>15. a \in LapsedAnchors(k, class, later)
  BY <1>13, <1>14, LapsedIff DEF due, since, V
<1> QED BY <1>2, <1>3, <1>15, WindowIff

\* The listed windows are the lapses, and current is what it says.
LEMMA LapsesListed == inventory \in Documents => WindowsAreTheLapses
<1> SUFFICES ASSUME inventory \in Documents,
                    NEW class \in DOMAIN Due, NEW asOf \in Time, Derivable(class),
                    NEW k \in Clocks(inventory)
             PROVE  /\ \A t \in Running(k, asOf) :
                         Covered(k, class, asOf, t)
                           <=> ~\E w \in ClockWindows(k, class, asOf) :
                                  /\ w.close < t
                                  /\ \A v \in VerifiedAt(k.over, asOf) : ~(w.close < v /\ v <= t)
                    /\ asOf \in Running(k, asOf) =>
                         (Status(k, class, asOf) = "current"
                            <=> \E v \in VerifiedAt(k.over, asOf) : asOf <= Due[class][k.rule][v])
  BY DEF WindowsAreTheLapses
<1>1. Readable(inventory) /\ CoverageRules \subseteq DOMAIN Due[class]
  BY DEF Derivable
<1> DEFINE due == Due[class][k.rule]
           since == Since(k.over)
           V == VerifiedAt(k.over, asOf)
<1>2. /\ IsDue(due) /\ since \in Time /\ V \in SUBSET Time /\ k.over \in SUBSET inventory
  BY <1>1, RunFacts
<1>5. since \in Nat /\ asOf \in Nat
  BY <1>2, TimeIsNat
<1>3. ASSUME NEW t \in Running(k, asOf)
      PROVE  Covered(k, class, asOf, t)
               <=> ~\E w \in ClockWindows(k, class, asOf) :
                      w.close < t /\ \A v \in V : ~(w.close < v /\ v <= t)
  <2>1. t \in Time /\ since <= t /\ t <= asOf /\ ~StoppedBefore(k.over, t)
    BY <1>3 DEF Running
  <2>2. Covered(k, class, asOf, t) <=> CoveredBy(V, since, due, t)
    BY DEF Covered, CoveredBy
  <2>3. since <= asOf
    BY <1>2, <1>5, <2>1, TimeIsNat
  <2>4. \A a : a \in LapsedAnchors(k, class, asOf)
                <=> a \in Anchors(V, since, due) /\ Lapsed(k.over, V, a, due[a.at], asOf)
    BY <2>3, LapsedIff
  <2>5. (\E w \in ClockWindows(k, class, asOf) :
           w.close < t /\ \A v \in V : ~(w.close < v /\ v <= t))
          <=> \E a \in LapsedAnchors(k, class, asOf) :
                due[a.at] < t /\ \A v \in V : ~(due[a.at] < v /\ v <= t)
    BY WindowFields DEF ClockWindows
  <2> HIDE DEF due, since, V
  <2>6. CoveredBy(V, since, due, t) <=> ~LapsedBy(k.over, V, since, due, asOf, t)
    BY <1>2, <2>1, CoveredIffNoLapse
  <2>7. LapsedBy(k.over, V, since, due, asOf, t)
          <=> \E a \in LapsedAnchors(k, class, asOf) :
                due[a.at] < t /\ \A v \in V : ~(due[a.at] < v /\ v <= t)
    BY <2>4 DEF LapsedBy
  <2> QED BY <2>2, <2>5, <2>6, <2>7
<1>4. ASSUME asOf \in Running(k, asOf)
      PROVE  Status(k, class, asOf) = "current" <=> \E v \in V : asOf <= due[v]
  <2>1. since <= asOf /\ ~StoppedBefore(k.over, asOf)
    BY <1>4 DEF Running
  <2>2. V \subseteq ExaminedAt(k.over, asOf)
    BY DEF VerifiedAt, ExaminedAt
  <2> DEFINE last == CHOOSE a \in Anchors(V, since, due) : After(V, a) = {}
  <2>3. last \in Anchors(V, since, due) /\ After(V, last) = {}
    <3>1. PICK a \in Anchors(V, since, due) : \A v \in V : v > a.at => v > asOf
      BY <1>2, <2>1, LastAnchor
    <3>2. \A v \in V : v <= asOf
      BY <1>1, RunFacts
    <3>3. V \subseteq Nat /\ asOf \in Nat
      BY <1>2, TimeIsNat
    <3>4. After(V, a) = {}
      BY <3>1, <3>2, <3>3 DEF After
    <3> QED BY <3>4, Zenon
  <2>4. Status(k, class, asOf)
          = IF ExaminedAt(k.over, asOf) = {} THEN "missing"
            ELSE IF last.kind = "declared" THEN "undetermined"
            ELSE IF Lapsed(k.over, V, last, due[last.at], asOf) THEN "stale"
            ELSE "current"
    <3>1. ~(since > asOf)
      BY <1>5, <2>1
    <3> QED BY <2>1, <3>1 DEF Status
  <2> HIDE DEF due, since, V, last
  <2>5. (last.kind # "declared" /\ ~Lapsed(k.over, V, last, due[last.at], asOf))
          <=> \E v \in V : asOf <= due[v]
    <3> DEFINE over == k.over
    <3>1. over \in SUBSET inventory /\ ~StoppedBefore(over, asOf)
      BY <1>2, <2>1
    <3> HIDE DEF over
    <3>2. (last.kind # "declared" /\ ~Lapsed(over, V, last, due[last.at], asOf))
            <=> \E v \in V : asOf <= due[v]
      <4>1. StillRuns(inventory, over, V, since, due, asOf)
        BY <1>2, <2>1, <3>1 DEF StillRuns
      <4> QED BY <2>3, <4>1, LastAnchorDecides
    <3> QED BY <3>2 DEF over
  <2>6. CASE ExaminedAt(k.over, asOf) = {}
    <3>1. V = {}
      BY <2>2, <2>6
    <3>2. Status(k, class, asOf) = "missing"
      BY <2>4, <2>6
    <3> QED BY <3>1, <3>2
  <2>7. CASE ExaminedAt(k.over, asOf) # {}
    <3>1. Status(k, class, asOf) = "current"
            <=> last.kind # "declared" /\ ~Lapsed(k.over, V, last, due[last.at], asOf)
      BY <2>4, <2>7
    <3> QED BY <2>5, <3>1
  <2> QED BY <2>6, <2>7
<1> QED BY <1>3, <1>4

-----------------------------------------------------------------------------
(* The invariant: every recorded gap lapsed under the document, class and  *)
(* as-of that recorded it, over verifications the store held then and may  *)
(* hold no longer.                                                         *)

WasLapsed(g) ==
  /\ Readable(g.document)
  /\ CoverageRules \subseteq DOMAIN Due[g.class]
  /\ \E k \in Clocks(g.document) : \E V \in SUBSET Time :
       \E a \in Anchors(V, Since(k.over), Due[g.class][k.rule]) :
         /\ IsVerified(k.over, V, g.ingestedAt)
         /\ Since(k.over) <= g.ingestedAt
         /\ Lapsed(k.over, V, a, Due[g.class][k.rule][a.at], g.ingestedAt)
         /\ g = Gap(g.document, g.class, g.ingestedAt, Window(k, g.class, a))

GapsWereLapses == \A g \in gaps : WasLapsed(g)

IInv == TypeOK /\ GapsWereLapses

\* What a recorder writes is a sequence of readings and failures.
LEMMA RecordedTyped ==
  ASSUME NEW S \in Seq(Split!Artifact \cup Split!Failure), NEW x \in Pool
  PROVE  Recorded(S, x) \in Seq(Split!Artifact \cup Split!Failure)
<1> DEFINE Streams == Split!Artifact \cup Split!Failure
           kept == IF x.read THEN Split!RecordIngest(S, x.parser, x.version, x.unsuccessful) ELSE S
<1>1. /\ x.parser \in Parsers /\ x.version \in Versions /\ x.unsuccessful \in BOOLEAN
      /\ x.instant \in {y.instant : y \in Pool}
      /\ x.class # "none" => x.class \in Split!Classes
  BY PoolAssumption DEF Parsers, Versions, Split!Classes
<1>2. Split!Reading(x.parser, x.version, x.unsuccessful) \in Streams
  BY <1>1 DEF Split!Reading, Split!Artifact
<1>3. kept \in Seq(Streams)
  BY <1>2 DEF Split!RecordIngest
<1> DEFINE failure == [kind |-> "failure", parser |-> x.parser, version |-> x.version,
                       class |-> x.class, observation |-> x.instant,
                       head |-> Split!HeadType(kept, x.instant)]
<1>4. x.class # "none" => failure \in Streams
  <2>1. Split!HeadType(kept, x.instant) \in {"failure.recorded", "failure.held"}
    BY DEF Split!HeadType
  <2> HIDE DEF kept
  <2> QED BY <1>1, <2>1 DEF Split!Failure
<1>5. Recorded(S, x) = IF x.class = "none" \/ Split!Known(kept, "failure", x.parser, x.version)
                       THEN kept ELSE Append(kept, failure)
  BY DEF Recorded, Split!RecordFailure
<1> HIDE DEF kept, failure, Streams
<1>6. Recorded(S, x) \in Seq(Streams)
  BY <1>3, <1>4, <1>5
<1> QED BY <1>6 DEF Streams

LEMMA InitIInv == Init => IInv
<1> SUFFICES ASSUME Init PROVE IInv
  OBVIOUS
<1>1. streams \in [Artifacts -> Seq(Split!Artifact \cup Split!Failure)]
  <2>1. <<>> \in Seq(Split!Artifact \cup Split!Failure)
    OBVIOUS
  <2> QED BY <2>1 DEF Init
<1> QED BY <1>1 DEF Init, IInv, TypeOK, GapsWereLapses

\* A gap of a window that lapses over some verifications was a lapse.
LEMMA RecordsALapse ==
  ASSUME NEW g, Readable(g.document), CoverageRules \subseteq DOMAIN Due[g.class],
         NEW k \in Clocks(g.document), NEW V \in SUBSET Time,
         NEW a \in Anchors(V, Since(k.over), Due[g.class][k.rule]),
         IsVerified(k.over, V, g.ingestedAt),
         Since(k.over) <= g.ingestedAt,
         Lapsed(k.over, V, a, Due[g.class][k.rule][a.at], g.ingestedAt),
         g = Gap(g.document, g.class, g.ingestedAt, Window(k, g.class, a))
  PROVE  WasLapsed(g)
  BY Zenon DEF WasLapsed

\* What a gap was recorded over is not changed by what happens later.
LEMMA WasLapsedNext ==
  ASSUME NEW g, WasLapsed(g)
  PROVE  WasLapsed(g)'
  BY DEF WasLapsed

LEMMA NextIInv == IInv /\ [Next]_vars => IInv'
<1> SUFFICES ASSUME IInv, [Next]_vars PROVE IInv'
  OBVIOUS
<1> USE DEF IInv
<1>1. CASE IngestSome
  <2>1. PICK x \in Pool : Ingest(x)
    BY <1>1 DEF IngestSome
  <2>2. streams' \in [Artifacts -> Seq(Split!Artifact \cup Split!Failure)]
    <3>1. x.artifact \in Artifacts
      BY DEF Artifacts
    <3>2. streams[x.artifact] \in Seq(Split!Artifact \cup Split!Failure)
      BY <3>1 DEF TypeOK
    <3>3. Recorded(streams[x.artifact], x) \in Seq(Split!Artifact \cup Split!Failure)
      BY <3>2, RecordedTyped
    <3> QED BY <2>1, <3>1, <3>3 DEF Ingest, TypeOK
  <2>3. evidence' = Rehydrated(streams)' /\ gaps' = gaps /\ inventory' = inventory
    BY <2>1 DEF Ingest
  <2>4. TypeOK'
    BY <2>2, <2>3 DEF TypeOK
  <2> QED BY <2>3, <2>4, WasLapsedNext DEF GapsWereLapses
<1>2. CASE EditSome
  <2>1. PICK d \in Documents : EditInventory(d)
    BY <1>2 DEF EditSome
  <2>2. TypeOK'
    BY <2>1 DEF EditInventory, TypeOK
  <2>3. gaps' = gaps
    BY <2>1 DEF EditInventory
  <2> QED BY <2>2, <2>3, WasLapsedNext DEF GapsWereLapses
<1>3. CASE RecordSome
  <2>1. PICK class \in DOMAIN Due, asOf \in Time : RecordGaps(class, asOf)
    BY <1>3 DEF RecordSome
  <2>2. /\ Readable(inventory) /\ CoverageRules \subseteq DOMAIN Due[class]
        /\ inventory \in Documents
        /\ streams' = streams /\ evidence' = evidence /\ inventory' = inventory
        /\ \A w, x \in Windows(inventory, class, asOf) :
             GapId(inventory, w) = GapId(inventory, x) => w = x
        /\ gaps' = gaps \cup {Gap(inventory, class, asOf, w) :
                                w \in {x \in Windows(inventory, class, asOf) :
                                         GapId(inventory, x) \notin RecordedIds}}
    BY <2>1 DEF RecordGaps, Derivable, TypeOK
  <2>3. ASSUME NEW w \in Windows(inventory, class, asOf)
        PROVE  /\ w.close \in Nat /\ w.anchorAt \in Time
               /\ WasLapsed(Gap(inventory, class, asOf, w))
    <3>1. PICK k \in Clocks(inventory) :
            \E a \in LapsedAnchors(k, class, asOf) : w = Window(k, class, a)
      BY WindowIff
    <3>2. PICK a \in LapsedAnchors(k, class, asOf) : w = Window(k, class, a)
      BY <3>1
    <3>3. /\ a \in Anchors(VerifiedAt(k.over, asOf), Since(k.over), Due[class][k.rule])
          /\ Since(k.over) <= asOf
          /\ Lapsed(k.over, VerifiedAt(k.over, asOf), a, Due[class][k.rule][a.at], asOf)
      BY LapsedIff
    <3>4. /\ IsDue(Due[class][k.rule]) /\ VerifiedAt(k.over, asOf) \in SUBSET Time
          /\ Since(k.over) \in Time
          /\ IsVerified(k.over, VerifiedAt(k.over, asOf), asOf)
      BY <2>2, RunFacts
    <3>5. a.at \in Time
      BY <2>2, LapsedInTime
    <3>6. w.close \in Nat /\ w.anchorAt \in Time
      BY <3>2, <3>4, <3>5, WindowFields DEF IsDue
    <3>7. /\ Gap(inventory, class, asOf, w).document = inventory
          /\ Gap(inventory, class, asOf, w).class = class
          /\ Gap(inventory, class, asOf, w).ingestedAt = asOf
      BY DEF Gap
    <3> DEFINE V == VerifiedAt(k.over, asOf)
               G == Gap(inventory, class, asOf, w)
    <3>8. /\ V \in SUBSET Time /\ IsVerified(k.over, V, asOf)
          /\ a \in Anchors(V, Since(k.over), Due[class][k.rule])
          /\ Since(k.over) <= asOf
          /\ Lapsed(k.over, V, a, Due[class][k.rule][a.at], asOf)
          /\ G = Gap(inventory, class, asOf, Window(k, class, a))
          /\ G.document = inventory /\ G.class = class /\ G.ingestedAt = asOf
      BY <3>2, <3>3, <3>4, <3>7
    <3> HIDE DEF V, G
    <3>9. WasLapsed(G)
      BY <2>2, <3>8, RecordsALapse
    <3> QED BY <3>6, <3>9 DEF G
  <2>4. ASSUME NEW w \in Windows(inventory, class, asOf)
        PROVE  /\ Gap(inventory, class, asOf, w).id = GapId(inventory, w)
               /\ Gap(inventory, class, asOf, w).id.close = w.close
               /\ Gap(inventory, class, asOf, w).anchorAt = w.anchorAt
               /\ Gap(inventory, class, asOf, w).document = inventory
               /\ Gap(inventory, class, asOf, w).ingestedAt = asOf
               /\ Gap(inventory, class, asOf, w).class = class
    BY DEF Gap, GapId
  <2>5. ASSUME NEW g \in gaps', NEW h \in gaps', g.id = h.id PROVE g = h
    <3>1. g \in gaps \/ \E w \in Windows(inventory, class, asOf) :
                          g = Gap(inventory, class, asOf, w) /\ GapId(inventory, w) \notin RecordedIds
      BY <2>2
    <3>2. h \in gaps \/ \E w \in Windows(inventory, class, asOf) :
                          h = Gap(inventory, class, asOf, w) /\ GapId(inventory, w) \notin RecordedIds
      BY <2>2
    <3>3. CASE g \in gaps /\ h \in gaps
      BY <2>5, <3>3 DEF TypeOK
    <3>4. CASE g \in gaps /\ h \notin gaps
      BY <2>4, <2>5, <3>2, <3>4 DEF RecordedIds
    <3>5. CASE g \notin gaps /\ h \in gaps
      BY <2>4, <2>5, <3>1, <3>5 DEF RecordedIds
    <3>6. CASE g \notin gaps /\ h \notin gaps
      <4>1. PICK w \in Windows(inventory, class, asOf) : g = Gap(inventory, class, asOf, w)
        BY <3>1, <3>6
      <4>2. PICK x \in Windows(inventory, class, asOf) : h = Gap(inventory, class, asOf, x)
        BY <3>2, <3>6
      <4> QED BY <2>2, <2>4, <2>5, <4>1, <4>2
    <3> QED BY <3>3, <3>4, <3>5, <3>6
  <2>6. ASSUME NEW g \in gaps'
        PROVE  /\ g.id.close \in Nat /\ g.anchorAt \in Time /\ g.document \in Documents
               /\ g.ingestedAt \in Time /\ g.class \in DOMAIN Due
               /\ WasLapsed(g)
    <3>1. CASE g \in gaps
      BY <3>1 DEF TypeOK, GapsWereLapses
    <3>2. CASE g \notin gaps
      <4>1. PICK w \in Windows(inventory, class, asOf) : g = Gap(inventory, class, asOf, w)
        BY <2>2, <3>2
      <4> QED BY <2>2, <2>3, <2>4, <4>1
    <3> QED BY <3>1, <3>2
  <2>7. TypeOK'
    <3>1. /\ streams' \in [Artifacts -> Seq(Split!Artifact \cup Split!Failure)]
          /\ evidence' = Rehydrated(streams)' /\ inventory' \in Documents
      BY <2>2 DEF TypeOK
    <3> QED BY <2>5, <2>6, <3>1 DEF TypeOK
  <2>8. GapsWereLapses'
    BY <2>2, <2>6, WasLapsedNext DEF GapsWereLapses
  <2> QED BY <2>7, <2>8
<1>4. CASE UNCHANGED vars
  <2>1. TypeOK'
    BY <1>4 DEF vars, TypeOK
  <2>2. gaps' = gaps
    BY <1>4 DEF vars
  <2> QED BY <2>1, <2>2, WasLapsedNext DEF GapsWereLapses
<1> QED BY <1>1, <1>2, <1>3, <1>4 DEF Next

LEMMA Invariant == Spec => []IInv
  BY InitIInv, NextIInv, PTL DEF Spec

-----------------------------------------------------------------------------
(* The theorems.                                                           *)

\* The evidence is always what the current readings of the artifacts observed
\* (rehydrate_observation_records, fold.py), and no stream of the store holds two
\* gaps (record_coverage_gaps, writers.py).
THEOREM TypeCorrect == Spec => []TypeOK
<1>1. IInv => TypeOK
  BY DEF IInv
<1> QED BY <1>1, Invariant, PTL

\* No derived gap could be called contradicted by the report that derives it:
\* the lookup by a gap's subject finds the evidence of its clock.
THEOREM DerivedNeverDisproved == Spec => []WindowsHoldNoVerification
<1>1. IInv => WindowsHoldNoVerification
  BY NoVerificationInside DEF IInv, TypeOK
<1> QED BY <1>1, Invariant, PTL

\* No run of cases coverage loses its batch to two gaps of one id.
THEOREM NoCollision == Spec => []GapNamesOneWindow
<1>1. IInv => GapNamesOneWindow
  BY OneIdOneWindow DEF IInv, TypeOK
<1> QED BY <1>1, Invariant, PTL

\* The walk lists every lapse and nothing else, and a running clock reads current exactly
\* when some verification holds at as-of (_run, coverage.py).
THEOREM WalkIsTheLapses == Spec => []WindowsAreTheLapses
<1>1. IInv => WindowsAreTheLapses
  BY LapsesListed DEF IInv, TypeOK
<1> QED BY <1>1, Invariant, PTL

\* A later as-of derives every gap an earlier one did.
THEOREM GrowsWithAsOf == Spec => []WindowsOnlyGrow
<1>1. IInv => WindowsOnlyGrow
  BY LaterDerives DEF IInv, TypeOK
<1> QED BY <1>1, Invariant, PTL

\* Recording a gap leaves every window of every run where it was.
THEOREM RecordingIsIdempotent == Spec => RecordingMovesNoWindow
<1>1. ASSUME [Next]_vars, gaps' # gaps PROVE evidence' = evidence /\ inventory' = inventory
  BY <1>1 DEF Next, IngestSome, EditSome, RecordSome, Ingest, EditInventory, RecordGaps, vars
<1>2. ASSUME [Next]_vars, gaps' # gaps, NEW class \in DOMAIN Due, NEW asOf \in Time
      PROVE  Windows(inventory, class, asOf)' = Windows(inventory, class, asOf)
  <2>1. \A k : VerifiedAt(k.over, asOf)' = VerifiedAt(k.over, asOf)
    BY <1>1, <1>2, VerifiedNext
  <2>2. \A k : LapsedAnchors(k, class, asOf)' = LapsedAnchors(k, class, asOf)
    BY <2>1 DEF LapsedAnchors
  <2>3. \A k : ClockWindows(k, class, asOf)' = ClockWindows(k, class, asOf)
    BY <2>2 DEF ClockWindows
  <2>4. Clocks(inventory)' = Clocks(inventory)
    BY <1>1, <1>2
  <2> QED BY <2>3, <2>4 DEF Windows
<1>3. [Next]_vars => (gaps' # gaps => \A class \in DOMAIN Due, asOf \in Time :
         Derivable(class) => Windows(inventory, class, asOf)' = Windows(inventory, class, asOf))
  BY <1>2
<1> QED BY <1>3, PTL DEF Spec, RecordingMovesNoWindow

\* Under its own document and class, at its as-of or later, a gap that is
\* neither derived nor disproved has lost its anchor: some verification now
\* reaches past the declaration, or the verification is withdrawn.
LEMMA UnmatchedIsUnanchored == IInv => OnlyUnanchoredGapsGoUnmatched
<1> SUFFICES ASSUME IInv, NEW g \in gaps, NEW asOf \in Time, Derivable(g.class),
                    g.document = inventory, g.ingestedAt <= asOf,
                    g.id \notin DerivedIds(inventory, g.class, asOf),
                    ~Disproved(g, inventory, asOf)
             PROVE  \E k \in Clocks(inventory) :
                      /\ k.rule = g.id.rule /\ k.subject = g.id.subject
                      /\ IF g.anchor = "declared"
                         THEN Reaching(VerifiedAt(k.over, asOf), Since(k.over),
                                       Due[g.class][k.rule]) # {}
                         ELSE g.anchorAt \notin VerifiedAt(k.over, asOf)
  BY DEF OnlyUnanchoredGapsGoUnmatched, GapNote
<1>1. /\ inventory \in Documents /\ g.class \in DOMAIN Due /\ g.ingestedAt \in Time
      /\ Readable(inventory) /\ CoverageRules \subseteq DOMAIN Due[g.class]
      /\ WasLapsed(g)
  BY DEF IInv, TypeOK, GapsWereLapses, Derivable
<1>2. PICK k \in Clocks(inventory), V0 \in SUBSET Time :
       \E a \in Anchors(V0, Since(k.over), Due[g.class][k.rule]) :
         /\ IsVerified(k.over, V0, g.ingestedAt)
         /\ Since(k.over) <= g.ingestedAt
         /\ Lapsed(k.over, V0, a, Due[g.class][k.rule][a.at], g.ingestedAt)
         /\ g = Gap(g.document, g.class, g.ingestedAt, Window(k, g.class, a))
  BY <1>1 DEF WasLapsed
<1>3. PICK a \in Anchors(V0, Since(k.over), Due[g.class][k.rule]) :
         /\ IsVerified(k.over, V0, g.ingestedAt)
         /\ Since(k.over) <= g.ingestedAt
         /\ Lapsed(k.over, V0, a, Due[g.class][k.rule][a.at], g.ingestedAt)
         /\ g = Gap(g.document, g.class, g.ingestedAt, Window(k, g.class, a))
  BY <1>2
<1> DEFINE due == Due[g.class][k.rule]
           since == Since(k.over)
           V == VerifiedAt(k.over, asOf)
           w == Window(k, g.class, a)
           T0 == g.ingestedAt
           over == k.over
<1>4. /\ IsDue(due) /\ since \in Time /\ V \in SUBSET Time
      /\ FiledUnder(inventory, k.rule, k.subject) = k.over
      /\ over \in SUBSET inventory
  BY <1>1, RunFacts
<1>5. /\ w.rule = k.rule /\ w.subject = k.subject /\ w.anchorAt = a.at
      /\ w.anchor = a.kind /\ w.close = due[a.at]
  BY WindowFields
<1>6. /\ g.id = GapId(inventory, w) /\ g.anchorAt = w.anchorAt /\ g.anchor = w.anchor
      /\ g.id.rule = w.rule /\ g.id.subject = w.subject /\ g.id.close = w.close
  BY <1>3 DEF Gap, GapId
<1>7. \A v \in V : ~(a.at < v /\ v <= due[a.at])
  BY <1>4, <1>5, <1>6 DEF Disproved
<1>8. a \notin LapsedAnchors(k, g.class, asOf)
  <2>1. w \notin Windows(inventory, g.class, asOf)
    BY <1>6 DEF DerivedIds
  <2> QED BY <2>1, WindowIff
<1>9. /\ since <= T0 /\ T0 \in Time /\ T0 <= asOf /\ IsVerified(over, V0, T0)
      /\ a \in Anchors(V0, since, due) /\ Lapsed(over, V0, a, due[a.at], T0)
  BY <1>1, <1>3
<1>10. since <= asOf
  BY <1>4, <1>9, TimeIsNat
<1>11. ~(a \in Anchors(V, since, due) /\ Lapsed(over, V, a, due[a.at], asOf))
  BY <1>8, <1>10, LapsedIff
<1> HIDE DEF due, since, V, w, T0, over
<1>12. /\ a.at \in Time /\ a.kind \in {"verification", "declared"}
       /\ due[a.at] \in Nat
  BY <1>4, <1>9, AnchorFacts DEF IsDue
<1>13. due[a.at] < T0 /\ ~StoppedBefore(over, due[a.at])
  <2> DEFINE close == due[a.at]
  <2>1. close \in Nat /\ Lapsed(over, V0, a, close, T0)
    BY <1>9, <1>12
  <2> HIDE DEF close
  <2>2. close < T0 /\ ~StoppedBefore(over, close)
    BY <1>1, <1>4, <1>9, <2>1, LapsedBeforeAsOf
  <2> QED BY <2>2 DEF close
<1>14. due[a.at] < asOf
  BY <1>9, <1>12, <1>13, TimeIsNat
<1>15. ~/\ a.kind = "verification" => a.at \in V
        /\ a.kind = "verification" \/ Reaching(V, since, due) = {}
  BY <1>4, <1>7, <1>9, <1>11, <1>13, <1>14, StillLapsed
<1>16. IF g.anchor = "declared" THEN Reaching(V, since, due) # {} ELSE g.anchorAt \notin V
  BY <1>5, <1>6, <1>12, <1>15
<1>17. k.rule = g.id.rule /\ k.subject = g.id.subject
  BY <1>5, <1>6
<1> QED BY <1>16, <1>17 DEF V, since, due

\* Read again under what it was recorded with, a gap goes unmatched only without its anchor:
\* the declaration, once evidence from before expectedSince came later, or a verification a
\* newer reading withdrew (_underived_gap, rehydrate_observation_records).
THEOREM UnmatchedOnlyWithoutItsAnchor == Spec => []OnlyUnanchoredGapsGoUnmatched
  BY Invariant, UnmatchedIsUnanchored, PTL

\* What a recorded gap keeps: its window closed before it was recorded, when
\* its rule's time from the anchor ran out.
LEMMA RecordedWindow ==
  ASSUME IInv, NEW g \in gaps
  PROVE  /\ g.id.close \in Nat /\ g.anchorAt \in Time /\ g.ingestedAt \in Time
         /\ g.class \in DOMAIN Due
         /\ g.id.close < g.ingestedAt
         /\ Due[g.class][g.id.rule][g.anchorAt] = g.id.close
<1>1. /\ g.id.close \in Nat /\ g.anchorAt \in Time /\ g.ingestedAt \in Time
      /\ g.class \in DOMAIN Due /\ g.document \in Documents
      /\ Readable(g.document) /\ CoverageRules \subseteq DOMAIN Due[g.class]
      /\ WasLapsed(g)
  BY DEF IInv, TypeOK, GapsWereLapses, WasLapsed
<1>2. PICK k \in Clocks(g.document), V \in SUBSET Time :
       \E a \in Anchors(V, Since(k.over), Due[g.class][k.rule]) :
         /\ IsVerified(k.over, V, g.ingestedAt)
         /\ Lapsed(k.over, V, a, Due[g.class][k.rule][a.at], g.ingestedAt)
         /\ g = Gap(g.document, g.class, g.ingestedAt, Window(k, g.class, a))
  BY <1>1 DEF WasLapsed
<1>3. PICK a \in Anchors(V, Since(k.over), Due[g.class][k.rule]) :
         /\ IsVerified(k.over, V, g.ingestedAt)
         /\ Lapsed(k.over, V, a, Due[g.class][k.rule][a.at], g.ingestedAt)
         /\ g = Gap(g.document, g.class, g.ingestedAt, Window(k, g.class, a))
  BY <1>2
<1> DEFINE w == Window(k, g.class, a)
           over == k.over
           close == g.id.close
<1>4. /\ w.rule = k.rule /\ w.anchorAt = a.at /\ w.close = Due[g.class][k.rule][a.at]
  BY WindowFields
<1>5. g.id.rule = w.rule /\ g.anchorAt = w.anchorAt /\ g.id.close = w.close
  BY <1>3 DEF Gap, GapId
<1>6. over \in SUBSET g.document
  BY <1>1, RunFacts
<1>7. IsVerified(over, V, g.ingestedAt) /\ Lapsed(over, V, a, close, g.ingestedAt) /\ close \in Nat
  BY <1>1, <1>3, <1>4, <1>5
<1> HIDE DEF over, close
<1>8. close < g.ingestedAt
  BY <1>1, <1>6, <1>7, LapsedBeforeAsOf
<1> QED BY <1>1, <1>4, <1>5, <1>8 DEF close

\* A gap a report calls contradicted is called so by every later one, while
\* the inventory is left alone and what contradicted it is not withdrawn.
LEMMA OnceContradicted ==
  ASSUME IInv, inventory' = inventory,
         NEW g \in gaps, NEW asOf \in Time, NEW later \in Time, asOf <= later,
         Disproofs(g, inventory, asOf) \subseteq Disproofs(g, inventory, later)',
         g.ingestedAt <= asOf, Derivable(g.class),
         GapNote(g, inventory, g.class, asOf) = "coverage_gap_contradicted"
  PROVE  GapNote(g, inventory, g.class, later)' = "coverage_gap_contradicted"
<1> DEFINE c == g.class
           close == g.id.close
           filed == FiledUnder(inventory, g.id.rule, g.id.subject)
<1>1. g.id \notin DerivedIds(inventory, c, asOf) /\ Disproved(g, inventory, asOf)
  BY DEF GapNote
<1>2. /\ inventory \in Documents /\ Readable(inventory) /\ CoverageRules \subseteq DOMAIN Due[c]
  BY DEF Derivable, IInv, TypeOK
<1>3. /\ close \in Nat /\ g.anchorAt \in Time /\ g.ingestedAt \in Time /\ c \in DOMAIN Due
      /\ close < g.ingestedAt /\ Due[c][g.id.rule][g.anchorAt] = close
  BY RecordedWindow
<1>4. filed \in SUBSET inventory
  BY DEF FiledUnder, EntryFor
<1>5. PICK v \in VerifiedAt(filed, asOf) : g.anchorAt < v /\ v <= close
  BY <1>1 DEF Disproved
<1>6. \A u \in VerifiedAt(filed, asOf) :
        g.anchorAt < u /\ u <= close => u \in VerifiedAt(filed, later)'
  BY DEF Disproofs
<1>7. Disproved(g, inventory, later)'
  BY <1>5, <1>6 DEF Disproved
<1>8. close < asOf
  <2>1. g.ingestedAt \in Nat /\ asOf \in Nat
    BY <1>3, TimeIsNat
  <2> QED BY <1>3, <2>1
<1>9. g.id \notin DerivedIds(inventory, c, later)'
  <2> SUFFICES ASSUME g.id \in DerivedIds(inventory, c, later)' PROVE FALSE
    OBVIOUS
  <2>1. PICK k \in Clocks(inventory) : \E a \in LapsedAnchors(k, c, later)' :
          g.id = GapId(inventory, Window(k, c, a))
    BY DEF DerivedIds, Windows, ClockWindows
  <2>2. PICK a \in LapsedAnchors(k, c, later)' : g.id = GapId(inventory, Window(k, c, a))
    BY <2>1
  <2> DEFINE due == Due[c][k.rule]
             since == Since(k.over)
             V0 == VerifiedAt(k.over, asOf)
             V == VerifiedAt(k.over, later)'
  <2>3. /\ g.id.rule = k.rule /\ g.id.subject = k.subject /\ close = due[a.at]
    BY <2>2, WindowFields DEF GapId
  <2>4. /\ IsDue(due) /\ since \in Time /\ V0 \in SUBSET Time
        /\ filed = k.over /\ k.over \in SUBSET inventory
    BY <1>2, <1>3, <2>3, RunFacts
  <2>5. /\ IsVerified(k.over, V, later) /\ V \in SUBSET Time
        /\ \A u \in V0 : g.anchorAt < u /\ u <= close => u \in V
    <3>1. IsVerified(k.over, V, later)
      BY <1>2, <2>4, VerifiedInTimeNext
    <3>2. \A u \in V0 : g.anchorAt < u /\ u <= close => u \in V
      BY <1>6, <2>4
    <3> QED BY <3>1, <3>2 DEF IsVerified
  <2>6. a \in Anchors(V, since, due) /\ Lapsed(k.over, V, a, due[a.at], later)
    BY <2>2 DEF LapsedAnchors
  <2>7. v \in V0 /\ due[g.anchorAt] = close
    BY <1>3, <1>5, <2>3, <2>4
  <2> HIDE DEF due, since, V0, V
  <2>8. \A u \in V : ~(a.at < u /\ u <= close)
    <3>1. \A u \in V : u > a.at => u > close
      BY <2>3, <2>6 DEF Lapsed, After
    <3>2. a.at \in Time
      BY <2>4, <2>5, <2>6, AnchorFacts
    <3>3. a.at \in Nat /\ V \subseteq Nat /\ close \in Nat
      BY <1>3, <2>5, <3>2, TimeIsNat
    <3> HIDE DEF close
    <3> QED BY <3>1, <3>3
  <2>9. ~StoppedBefore(k.over, close)
    <3> DEFINE over == k.over
               end == close
    <3>1. /\ over \in SUBSET inventory /\ IsVerified(over, V, later) /\ end \in Nat
          /\ Lapsed(over, V, a, end, later)
      BY <1>3, <2>3, <2>4, <2>5, <2>6
    <3> HIDE DEF over, end
    <3>2. ~StoppedBefore(over, end)
      BY <1>2, <3>1, LapsedBeforeAsOf
    <3> QED BY <3>2 DEF over, end
  <2>10. /\ since <= asOf
         /\ \E b \in Anchors(V0, since, due) :
              due[b.at] = close /\ Lapsed(k.over, V0, b, due[b.at], asOf)
    <3> DEFINE p == g.anchorAt
    <3>1. /\ close \in Nat /\ close < asOf /\ p \in Time /\ due[p] = close
          /\ v \in V0 /\ p < v /\ v <= close /\ due[a.at] = close
          /\ a \in Anchors(V, since, due)
      BY <1>3, <1>5, <1>8, <2>3, <2>6, <2>7
    <3>2. ClosesAgain(k.over, V0, V, since, due, asOf, close, p, v, a)
      BY <2>4, <2>5, <2>8, <2>9, <3>1 DEF ClosesAgain
    <3> HIDE DEF p, close
    <3> QED BY <3>2, DerivedBefore
  <2>11. PICK b \in Anchors(V0, since, due) :
              due[b.at] = close /\ Lapsed(k.over, V0, b, due[b.at], asOf)
    BY <2>10
  <2>12. b \in LapsedAnchors(k, c, asOf)
    BY <2>10, <2>11, LapsedIff DEF due, since, V0
  <2>13. GapId(inventory, Window(k, c, b)) = GapId(inventory, Window(k, c, a))
    <3>1. Window(k, c, b).close = Window(k, c, a).close
      BY <2>3, <2>11, WindowFields DEF due
    <3>2. /\ Window(k, c, b).rule = Window(k, c, a).rule
          /\ Window(k, c, b).subject = Window(k, c, a).subject
      BY WindowFields
    <3> QED BY <3>1, <3>2 DEF GapId, ContextKey
  <2>14. Window(k, c, b) \in Windows(inventory, c, asOf)
    BY <2>12, WindowIff
  <2> QED BY <1>1, <2>2, <2>13, <2>14 DEF DerivedIds
<1> QED BY <1>7, <1>9 DEF GapNote

\* What a report called contradicted, and a case it advised as a false positive, stay so
\* (_underived_gap, records.py) until a newer reading withdraws what contradicted it, but for
\* a case with a window another class, a later as-of or a later run recorded.
THEOREM AdviceStands == Spec => ContradictedStays
<1>1. ASSUME IInv, [Next]_vars, inventory' = inventory,
             NEW g \in gaps, NEW asOf \in Time, g.ingestedAt <= asOf,
             Derivable(g.class),
             GapNote(g, inventory, g.class, asOf) = "coverage_gap_contradicted",
             NEW later \in asOf .. MaxTime
      PROVE  /\ Disproofs(g, inventory, asOf) \subseteq Disproofs(g, inventory, later)'
                => GapNote(g, inventory, g.class, later)' = "coverage_gap_contradicted"
             /\ Advised(g, inventory, g.class, asOf)
                => \/ Advised(g, inventory, g.class, later)'
                   \/ \E h \in gaps' :
                        /\ h.id.context = g.id.context
                        /\ \/ h \notin gaps
                           \/ h.class # g.class
                           \/ h.ingestedAt > asOf
                           \/ ~(Disproofs(h, inventory, asOf)
                                   \subseteq Disproofs(h, inventory, later)')
  <2>1. later \in Time /\ asOf <= later
    BY TimeAssumption DEF Time
  <2>2. Disproofs(g, inventory, asOf) \subseteq Disproofs(g, inventory, later)'
          => GapNote(g, inventory, g.class, later)' = "coverage_gap_contradicted"
    BY <1>1, <2>1, OnceContradicted
  <2>3. ASSUME Advised(g, inventory, g.class, asOf),
               NEW h \in gaps', h.id.context = g.id.context,
               h \in gaps, h.class = g.class, ~(h.ingestedAt > asOf),
               Disproofs(h, inventory, asOf) \subseteq Disproofs(h, inventory, later)'
        PROVE  GapNote(h, inventory, g.class, later)' = "coverage_gap_contradicted"
    <3>1. GapNote(h, inventory, h.class, asOf) = "coverage_gap_contradicted"
      BY <2>3 DEF Advised
    <3>2. h.ingestedAt <= asOf
      <4>1. h.ingestedAt \in Nat /\ asOf \in Nat
        BY <1>1, <2>3, RecordedWindow, TimeIsNat
      <4> QED BY <2>3, <4>1
    <3>3. GapNote(h, inventory, h.class, later)' = "coverage_gap_contradicted"
      BY <1>1, <2>1, <2>3, <3>1, <3>2, OnceContradicted
    <3> QED BY <2>3, <3>3
  <2> QED BY <2>2, <2>3 DEF Advised
<1>2. IInv /\ [Next]_vars =>
       (inventory' = inventory =>
         \A g \in gaps, asOf \in Time :
           /\ g.ingestedAt <= asOf
           /\ Derivable(g.class) /\ Derivable(g.class)'
           /\ GapNote(g, inventory, g.class, asOf) = "coverage_gap_contradicted"
           => \A later \in asOf .. MaxTime :
                /\ Disproofs(g, inventory, asOf) \subseteq Disproofs(g, inventory, later)'
                   => GapNote(g, inventory, g.class, later)' = "coverage_gap_contradicted"
                /\ Advised(g, inventory, g.class, asOf)
                   => \/ Advised(g, inventory, g.class, later)'
                      \/ \E h \in gaps' :
                           /\ h.id.context = g.id.context
                           /\ \/ h \notin gaps
                              \/ h.class # g.class
                              \/ h.ingestedAt > asOf
                              \/ ~(Disproofs(h, inventory, asOf)
                                      \subseteq Disproofs(h, inventory, later)'))
  BY <1>1
<1> QED BY <1>2, Invariant, PTL DEF Spec, ContradictedStays
=============================================================================
