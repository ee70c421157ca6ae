-------------------------- MODULE CycloneDxProofs --------------------------
(***************************************************************************)
(* What the walk of a bill of materials (adapters/cyclonedx.py) makes of   *)
(* any bill: the statements it passes, the components it indexes, what it  *)
(* shows, and that it shows it in any order and of the next release.       *)
(***************************************************************************)
EXTENDS Ingest, TLAPS, FiniteSetTheorems, WellFoundedInduction

IsSequence(entries) == entries \in Seq(Range(entries))

\* A finite set of numbers that is not empty has a least.
LEMMA LeastExists ==
  ASSUME NEW C0 \in SUBSET Nat, IsFiniteSet(C0), C0 # {}
  PROVE  \E c \in C0 : \A g \in C0 : c <= g
  <1> DEFINE HasLeast(U) == \E c \in U : \A g \in U : c <= g
             Bad == {U \in FiniteSubsetsOf(Nat) : U # {} /\ ~HasLeast(U)}
  <1>1. SUFFICES ASSUME C0 \in Bad PROVE FALSE
    BY DEF FiniteSubsetsOf
  <1>2. PICK U \in Bad : \A V \in Bad : <<V, U>> \notin StrictSubsetOrdering(Nat)
    BY <1>1, WFMin, FS_StrictSubsetOrderingWellFounded
  <1>3. PICK x \in U : TRUE
    OBVIOUS
  <1>4. U \ {x} \in FiniteSubsetsOf(Nat) /\ U \subseteq Nat
    BY <1>3, FS_RemoveElement DEF FiniteSubsetsOf
  <1>5. U \ {x} \notin Bad
    BY <1>2, <1>3, <1>4 DEF StrictSubsetOrdering, FiniteSubsetsOf
  <1>6. HasLeast(U)
    <2>1. CASE U \ {x} = {}
      BY <1>3, <1>4, <2>1
    <2>2. CASE U \ {x} # {}
      <3>1. PICK n \in U \ {x} : \A g \in U \ {x} : n <= g
        BY <1>4, <1>5, <2>2
      <3>2. CASE n <= x
        BY <3>1, <3>2
      <3>3. CASE x < n
        BY <1>3, <1>4, <3>1, <3>3
      <3> QED BY <1>3, <1>4, <3>2, <3>3
    <2> QED BY <2>1, <2>2
  <1> QED BY <1>6

\* Some naturals have a least.
LEMMA LeastOfNats ==
  ASSUME NEW N \in SUBSET Nat, N # {}
  PROVE  \E n \in N : \A m \in N : n <= m
  <1>1. PICK n \in N : TRUE
    OBVIOUS
  <1> DEFINE low == N \cap 0 .. n
  <1>2. IsFiniteSet(0 .. n)
    BY FS_Interval
  <1>3. IsFiniteSet(low) /\ low # {} /\ low \in SUBSET Nat
    BY <1>1, <1>2, FS_Subset
  <1>4. PICK k \in low : \A m \in low : k <= m
    <2> HIDE DEF low
    <2> QED BY <1>3, LeastExists
  <1>5. \A m \in N : k <= m
    BY <1>1, <1>4
  <1> QED BY <1>4, <1>5

LEMMA SequenceIs ==
  ASSUME NEW T, NEW entries \in Seq(T)
  PROVE  IsSequence(entries)
  BY DEF IsSequence, Range

CdxFields ==
  {"step", "pending", "at", "entry", "index", "components", "tool", "scope", "lineage", "resolved",
   "folds", "diagnostics"}

\* A reading that failed has an error among its diagnostics.
LEMMA ErrorsAre ==
  ASSUME NEW d
  PROVE  /\ S!HasErrors(d) <=> \E x \in d : x.level = "ERROR"
         /\ H!HasErrors(d) <=> \E x \in d : x.level = "ERROR"
         /\ D!HasErrors(d) <=> \E x \in d : x.level = "ERROR"
  BY DEF S!HasErrors, S!ErrorsOf, S!CodesOf, H!HasErrors, H!ErrorsOf, H!CodesOf,
         D!HasErrors, D!ErrorsOf, D!CodesOf

LEMMA ErrorsStay ==
  ASSUME NEW d, NEW more, d \subseteq more
  PROVE  /\ S!HasErrors(d) => S!HasErrors(more)
         /\ H!HasErrors(d) => H!HasErrors(more)
         /\ D!HasErrors(d) => D!HasErrors(more)
  BY ErrorsAre

\* Warnings are no errors.
LEMMA WarningsAdded ==
  ASSUME NEW d, NEW more, ~D!HasErrors(d), \A x \in more : x.level # "ERROR"
  PROVE  ~D!HasErrors(d \cup more)
  BY ErrorsAre

-----------------------------------------------------------------------------
(* The walk of a bill of materials: every statement it has passed is one    *)
(* candidate.                                                               *)

LEMMA CountedAlike ==
  ASSUME NEW T
  PROVE  D!Cardinality(T) = Cardinality(T)
  BY DEF D!Cardinality, Cardinality

\* What some are counted by for each of a set of places sums to how many they are.
LEMMA SumCounts ==
  ASSUME NEW U, IsFiniteSet(U), NEW T, NEW place \in [U -> T], NEW count,
         DOMAIN count = T, \A t \in T : IsFiniteSet(T) /\ count[t] = Cardinality({u \in U : place[u] = t})
  PROVE  D!SumFunction(count) = Cardinality(U)
  <1> DEFINE Those(s) == {u \in U : place[u] \in s}
             Sums(f) == f = [s \in SUBSET T |-> IF s = {} THEN 0
                                                ELSE LET x == CHOOSE x \in s : TRUE
                                                     IN count[x] + f[s \ {x}]]
             sum == CHOOSE f : Sums(f)
             sizes == [s \in SUBSET T |-> Cardinality(Those(s))]
  <1>1. D!SumFunction(count) = sum[T]
    BY DEF D!SumFunction, D!SumFunctionOnSet, D!FoldFunctionOnSet, D!MapThenFoldSet
  <1>2. \A V \in SUBSET U : IsFiniteSet(V) /\ Cardinality(V) \in Nat
    BY FS_Subset, FS_CardinalityType
  <1>3. Those({}) = {} /\ Cardinality({}) = 0
    BY FS_EmptySet
  <1>4. ASSUME NEW s \in SUBSET T, NEW x \in s
        PROVE  Cardinality(Those(s)) = count[x] + Cardinality(Those(s \ {x}))
    <2> DEFINE one == {u \in U : place[u] = x}
               rest == Those(s \ {x})
    <2>1. Those(s) = one \cup rest /\ one \cap rest = {} /\ one \in SUBSET U /\ rest \in SUBSET U
      OBVIOUS
    <2>2. count[x] = Cardinality(one)
      OBVIOUS
    <2> HIDE DEF one, rest, Those
    <2>3. Cardinality(one \cup rest) = Cardinality(one) + Cardinality(rest) - Cardinality({})
      BY <1>2, <2>1, FS_Union
    <2>4. Cardinality(one) \in Nat /\ Cardinality(rest) \in Nat
      BY <1>2, <2>1
    <2>5. Cardinality(Those(s)) = count[x] + Cardinality(rest)
      BY <1>3, <2>1, <2>2, <2>3, <2>4
    <2> QED BY <2>5 DEF rest
  <1> HIDE DEF Those
  <1>5. Sums(sizes)
    <2>1. ASSUME NEW s \in SUBSET T
          PROVE  sizes[s] = IF s = {} THEN 0 ELSE LET x == CHOOSE x \in s : TRUE IN count[x] + sizes[s \ {x}]
      <3>1. CASE s = {}
        <4>1. sizes[s] = Cardinality(Those(s))
          OBVIOUS
        <4> HIDE DEF sizes
        <4> QED BY <1>3, <3>1, <4>1
      <3>2. CASE s # {}
        <4> DEFINE x == CHOOSE x \in s : TRUE
        <4>1. x \in s
          BY <3>2
        <4> HIDE DEF x
        <4>2. sizes[s] = count[x] + sizes[s \ {x}]
          BY <1>4, <4>1
        <4> QED BY <3>2, <4>2 DEF x
      <3> QED BY <3>1, <3>2
    <2>2. sizes = [s \in SUBSET T |-> sizes[s]]
      OBVIOUS
    <2> HIDE DEF sizes
    <2> QED BY <2>1, <2>2
  <1>6. Sums(sum)
    <2> HIDE DEF Sums, sizes
    <2> QED BY <1>5
  <1> HIDE DEF sum
  <1>7. sum[T] = Cardinality(Those(T))
    <2> DEFINE Wrong == {s \in FiniteSubsetsOf(T) : sum[s] # Cardinality(Those(s))}
    <2>0. CASE T = {}
      <3>1. sum[T] = 0
        BY <1>6, <2>0
      <3> QED BY <1>3, <2>0, <3>1
    <2>1. CASE T # {}
      <3>1. IsFiniteSet(T)
        BY <2>1
      <3>2. SUFFICES ASSUME T \in Wrong PROVE FALSE
        BY <3>1 DEF FiniteSubsetsOf
      <3>3. PICK s \in Wrong : \A r \in Wrong : <<r, s>> \notin StrictSubsetOrdering(T)
        <4> HIDE DEF Wrong
        <4>1. Wrong \subseteq FiniteSubsetsOf(T)
          BY DEF Wrong
        <4> QED BY <3>2, <4>1, WFMin, FS_StrictSubsetOrderingWellFounded
      <3>4. s \in SUBSET T /\ IsFiniteSet(s)
        BY DEF FiniteSubsetsOf
      <3>5. s # {}
        <4>1. s = {} => sum[s] = 0
          BY <1>6, <3>4
        <4> QED BY <1>3, <3>3, <4>1
      <3> DEFINE x == CHOOSE x \in s : TRUE
      <3>6. x \in s
        BY <3>5
      <3>7. sum[s] = count[x] + sum[s \ {x}]
        BY <1>6, <3>4, <3>5
      <3> HIDE DEF x
      <3>8. s \ {x} \in FiniteSubsetsOf(T) /\ <<s \ {x}, s>> \in StrictSubsetOrdering(T)
        <4>1. IsFiniteSet(s \ {x})
          BY <3>4, FS_Subset
        <4> QED BY <3>4, <3>6, <4>1 DEF FiniteSubsetsOf, StrictSubsetOrdering
      <3>9. sum[s \ {x}] = Cardinality(Those(s \ {x}))
        BY <3>3, <3>8
      <3> QED BY <1>4, <3>3, <3>4, <3>6, <3>7, <3>9
    <2> QED BY <2>0, <2>1
  <1>8. Those(T) = U
    BY DEF Those
  <1> QED BY <1>1, <1>7, <1>8

\* Of some severities one is the worst.
LEMMA WorstIs ==
  ASSUME NEW severities, severities \subseteq DOMAIN D!CdxSeverityRank, severities # {}
  PROVE  /\ D!Worst(severities) \in severities
         /\ \A s \in severities : D!CdxSeverityRank[s] <= D!CdxSeverityRank[D!Worst(severities)]
  <1> DEFINE rank == D!CdxSeverityRank
             Top(v) == v \in severities /\ \A w \in severities : rank[w] <= rank[v]
  <1>1. /\ DOMAIN rank = {"CRITICAL", "HIGH", "MEDIUM", "LOW", "INFORMATIONAL", "UNKNOWN"}
        /\ rank["CRITICAL"] = 5 /\ rank["HIGH"] = 4 /\ rank["MEDIUM"] = 3 /\ rank["LOW"] = 2
        /\ rank["INFORMATIONAL"] = 1 /\ rank["UNKNOWN"] = 0
    BY DEF D!CdxSeverityRank
  <1>2. D!Worst(severities) = CHOOSE v \in severities : \A w \in severities : rank[w] <= rank[v]
    BY DEF D!Worst
  <1>3. severities \subseteq DOMAIN rank
    OBVIOUS
  <1> HIDE DEF rank
  <1>4. \A w \in severities :
          /\ rank[w] \in 0 .. 5
          /\ (w # "CRITICAL" => rank[w] <= 4)
          /\ (w \notin {"CRITICAL", "HIGH"} => rank[w] <= 3)
          /\ (w \notin {"CRITICAL", "HIGH", "MEDIUM"} => rank[w] <= 2)
          /\ (w \notin {"CRITICAL", "HIGH", "MEDIUM", "LOW"} => rank[w] <= 1)
          /\ (w \notin {"CRITICAL", "HIGH", "MEDIUM", "LOW", "INFORMATIONAL"} => rank[w] <= 0)
    <2> TAKE w \in severities
    <2>1. \/ w = "CRITICAL" \/ w = "HIGH" \/ w = "MEDIUM" \/ w = "LOW" \/ w = "INFORMATIONAL"
          \/ w = "UNKNOWN"
      BY <1>1, <1>3
    <2> QED BY <1>1, <2>1
  <1>5. \E v : Top(v)
    <2>1. "CRITICAL" \in severities => Top("CRITICAL")
      BY <1>1, <1>4
    <2>2. ("CRITICAL" \notin severities /\ "HIGH" \in severities) => Top("HIGH")
      BY <1>1, <1>4
    <2>3. ("CRITICAL" \notin severities /\ "HIGH" \notin severities /\ "MEDIUM" \in severities)
            => Top("MEDIUM")
      BY <1>1, <1>4
    <2>4. (/\ "CRITICAL" \notin severities /\ "HIGH" \notin severities /\ "MEDIUM" \notin severities
           /\ "LOW" \in severities) => Top("LOW")
      BY <1>1, <1>4
    <2>5. (/\ "CRITICAL" \notin severities /\ "HIGH" \notin severities /\ "MEDIUM" \notin severities
           /\ "LOW" \notin severities /\ "INFORMATIONAL" \in severities) => Top("INFORMATIONAL")
      BY <1>1, <1>4
    <2>6. (/\ "CRITICAL" \notin severities /\ "HIGH" \notin severities /\ "MEDIUM" \notin severities
           /\ "LOW" \notin severities /\ "INFORMATIONAL" \notin severities
           /\ "UNKNOWN" \in severities) => Top("UNKNOWN")
      BY <1>1, <1>4
    <2>7. \E w \in severities : w \in DOMAIN rank
      BY <1>3
    <2> HIDE DEF Top
    <2> QED BY <1>1, <2>1, <2>2, <2>3, <2>4, <2>5, <2>6, <2>7
  <1>6. \E v \in severities : \A w \in severities : rank[w] <= rank[v]
    BY <1>5
  <1> QED BY <1>2, <1>6 DEF rank

\* The severity of a record is at least that of each of its ratings.
LEMMA RatedIs ==
  ASSUME NEW ratings, \A r \in ratings : "word" \in DOMAIN r
  PROVE  /\ D!Rated(ratings).severity \in DOMAIN D!CdxSeverityRank
         /\ \A r \in ratings : r.word \in DOMAIN D!RatingSeverities =>
              D!CdxSeverityRank[D!RatingSeverities[r.word]] <= D!CdxSeverityRank[D!Rated(ratings).severity]
  <1> DEFINE told == {s \in ratings : s.word \in DOMAIN D!RatingSeverities}
             words == {[r EXCEPT !.word = D!RatingSeverities[r.word]] : r \in told}
             severities == {r.word : r \in words}
  <1>1. D!Rated(ratings).severity = IF words = {} THEN "UNKNOWN" ELSE D!Worst(severities)
    BY DEF D!Rated
  <1>2. \A r \in told : D!RatingSeverities[r.word] \in severities
    <2>1. \A r \in told : [r EXCEPT !.word = D!RatingSeverities[r.word]].word = D!RatingSeverities[r.word]
      OBVIOUS
    <2> QED BY <2>1
  <1>3. \A w \in DOMAIN D!RatingSeverities : D!RatingSeverities[w] \in DOMAIN D!CdxSeverityRank
    BY DEF D!RatingSeverities, D!CdxSeverityRank
  <1>4. severities \subseteq DOMAIN D!CdxSeverityRank
    <2>1. \A r \in told : [r EXCEPT !.word = D!RatingSeverities[r.word]].word = D!RatingSeverities[r.word]
      OBVIOUS
    <2> QED BY <1>3, <2>1
  <1>5. "UNKNOWN" \in DOMAIN D!CdxSeverityRank
    BY DEF D!CdxSeverityRank
  <1>6. words = {} <=> severities = {}
    OBVIOUS
  <1>7. words = {} => told = {}
    OBVIOUS
  <1> HIDE DEF words, severities
  <1>8. severities # {} =>
          /\ D!Worst(severities) \in severities
          /\ \A s \in severities : D!CdxSeverityRank[s] <= D!CdxSeverityRank[D!Worst(severities)]
    BY <1>4, WorstIs
  <1> QED BY <1>1, <1>2, <1>4, <1>5, <1>6, <1>7, <1>8

\* A bill whose records list the entries they affect, and rate themselves in words.
CdxListed(document) ==
  /\ IsSequence(document.vulnerabilities)
  /\ \A v \in Range(document.vulnerabilities) :
       IsSequence(v.affects) /\ \A r \in v.ratings : "word" \in DOMAIN r

\* The entries of a record: one stands for a record that names no component.
Entries(v) == IF v.affects = <<>> THEN {0} ELSE 1 .. Len(v.affects)

\* A statement the walk has passed.
Spoken(p, document, i, k) ==
  /\ i \in DOMAIN document.vulnerabilities /\ k \in Entries(document.vulnerabilities[i])
  /\ i < p.at \/ (i = p.at /\ k < p.entry)

\* What a candidate says of a statement.
Says(c, document, i, k) ==
  \E resource, instances :
    c = D!CdxCandidate(document.vulnerabilities[i], <<i, k>>, resource, instances)

\* Every statement passed is one candidate, and every candidate a statement passed.
Tallied(p, document) ==
  /\ p.at \in 1 .. Len(document.vulnerabilities) + 1 /\ p.entry \in Nat
  /\ p.entry # 0 => /\ p.at \in DOMAIN document.vulnerabilities
                    /\ p.entry \in 1 .. Len(document.vulnerabilities[p.at].affects)
  /\ IsFiniteSet(p.folds)
  /\ \A c \in p.folds : \E i, k : Spoken(p, document, i, k) /\ Says(c, document, i, k)
  /\ \A i, k : Spoken(p, document, i, k) => \E c \in p.folds : c.place = <<i, k>>
  /\ \A c, d \in p.folds : c.place = d.place => c = d

CdxKept(p, document) ==
  /\ DOMAIN p = CdxFields
  /\ p.step = "index" => p.at = 1 /\ p.entry = 0 /\ p.folds = {}
  /\ p.step = "fold" => D!HasErrors(p.diagnostics) \/ Tallied(p, document)
  /\ p.step \in {"superseded", "scoped"} =>
       /\ Tallied(p, document) /\ p.at \notin DOMAIN document.vulnerabilities
       /\ ~D!HasErrors(p.diagnostics)

LEMMA CdxStartKeeps ==
  ASSUME NEW document
  PROVE  CdxKept(D!CdxStart(document), document)
  BY DEF CdxKept, D!CdxStart, CdxFields

\* A candidate more, of the statement that is next.
OneMore(p, q, document, k, c) ==
  /\ p.at \in DOMAIN document.vulnerabilities /\ k \in Entries(document.vulnerabilities[p.at])
  /\ ~(k < p.entry) /\ ~(p.at < p.at)
  /\ Says(c, document, p.at, k) /\ q.folds = p.folds \cup {c}
  /\ q.at \in 1 .. Len(document.vulnerabilities) + 1 /\ q.entry \in Nat
  /\ q.entry # 0 => /\ q.at \in DOMAIN document.vulnerabilities
                    /\ q.entry \in 1 .. Len(document.vulnerabilities[q.at].affects)
  /\ \A i, j : Spoken(q, document, i, j) <=> Spoken(p, document, i, j) \/ (i = p.at /\ j = k)

LEMMA OneMoreTold ==
  ASSUME NEW document, NEW p, Tallied(p, document), NEW q, NEW k, NEW c, OneMore(p, q, document, k, c)
  PROVE  Tallied(q, document)
  <1> USE DEF OneMore
  <1>1. c.place = <<p.at, k>>
    BY DEF Says, D!CdxCandidate
  <1>2. ~Spoken(p, document, p.at, k)
    BY DEF Spoken
  <1>3. \A d \in p.folds : d.place # <<p.at, k>>
    <2> SUFFICES ASSUME NEW d \in p.folds PROVE d.place # <<p.at, k>>
      OBVIOUS
    <2>1. PICK i, j : Spoken(p, document, i, j) /\ Says(d, document, i, j)
      BY DEF Tallied
    <2>2. d.place = <<i, j>>
      BY <2>1 DEF Says, D!CdxCandidate
    <2>3. i # p.at \/ j # k
      BY <1>2, <2>1
    <2> QED BY <2>2, <2>3
  <1>4. IsFiniteSet(q.folds)
    <2>1. IsFiniteSet(p.folds)
      BY DEF Tallied
    <2> QED BY <2>1, FS_AddElement
  <1>5. ASSUME NEW d \in q.folds
        PROVE  \E i, j : Spoken(q, document, i, j) /\ Says(d, document, i, j)
    <2>1. CASE d = c
      <3>1. Spoken(q, document, p.at, k) /\ Says(d, document, p.at, k)
        BY <2>1
      <3> QED BY <3>1
    <2>2. CASE d \in p.folds
      <3>1. PICK i, j : Spoken(p, document, i, j) /\ Says(d, document, i, j)
        BY <2>2 DEF Tallied
      <3>2. Spoken(q, document, i, j)
        BY <3>1
      <3> QED BY <3>1, <3>2
    <2> QED BY <2>1, <2>2
  <1>6. ASSUME NEW i, NEW j, Spoken(q, document, i, j) PROVE \E d \in q.folds : d.place = <<i, j>>
    <2>1. CASE i = p.at /\ j = k
      BY <1>1, <2>1
    <2>2. CASE Spoken(p, document, i, j)
      <3>1. PICK d \in p.folds : d.place = <<i, j>>
        BY <2>2 DEF Tallied
      <3> QED BY <3>1
    <2> QED BY <1>6, <2>1, <2>2
  <1>7. \A d, e \in q.folds : d.place = e.place => d = e
    BY <1>1, <1>3 DEF Tallied
  <1> QED BY <1>4, <1>5, <1>6, <1>7 DEF Tallied

\* The places of the records and of their entries.
LEMMA EntriesAre ==
  ASSUME NEW document, CdxListed(document)
  PROVE  /\ Len(document.vulnerabilities) \in Nat
         /\ DOMAIN document.vulnerabilities = 1 .. Len(document.vulnerabilities)
         /\ \A i \in DOMAIN document.vulnerabilities :
              LET v == document.vulnerabilities[i] IN
              /\ Len(v.affects) \in Nat
              /\ v.affects = <<>> <=> Len(v.affects) = 0
              /\ \A r \in v.ratings : "word" \in DOMAIN r
  <1>1. Len(document.vulnerabilities) \in Nat
        /\ DOMAIN document.vulnerabilities = 1 .. Len(document.vulnerabilities)
    BY DEF CdxListed, IsSequence
  <1>2. \A i \in DOMAIN document.vulnerabilities :
          document.vulnerabilities[i] \in Range(document.vulnerabilities)
    BY DEF Range
  <1>3. ASSUME NEW v \in Range(document.vulnerabilities)
        PROVE  /\ Len(v.affects) \in Nat /\ (v.affects = <<>> <=> Len(v.affects) = 0)
               /\ \A r \in v.ratings : "word" \in DOMAIN r
    <2>1. IsSequence(v.affects) /\ \A r \in v.ratings : "word" \in DOMAIN r
      BY DEF CdxListed
    <2> QED BY <2>1 DEF IsSequence
  <1> QED BY <1>1, <1>2, <1>3

\* What one entry of a record adds.
LEMMA AffectAdds ==
  ASSUME NEW p, DOMAIN p = CdxFields, p.step = "fold", NEW document, NEW v, NEW entry
  PROVE  LET q == D!Affect(p, document, v, entry) IN
         /\ DOMAIN q = CdxFields /\ q.at = p.at /\ q.entry = p.entry
         /\ p.diagnostics \subseteq q.diagnostics /\ q.step \in {"fold", "bound"}
         /\ \/ q.step = "bound" \/ D!HasErrors(q.diagnostics)
            \/ \E resource, instances :
                 q.folds = p.folds \cup {D!CdxCandidate(v, <<p.at, p.entry>>, resource, instances)}
  <1> DEFINE carriers == D!Carriers(p, document, entry.ref)
             named == D!Resolve(carriers)
             target == IF named = {} THEN D!RefKey(entry.ref) ELSE (CHOOSE c \in named : TRUE).target
             resource == IF target = D!Subject THEN p.scope ELSE <<"package", p.scope[1], p.lineage, target>>
             located == D!Added(p, D!When(D!Conflict(carriers), D!Warning("bom_ref_conflict"))
                                   \cup D!When(named = {}, D!Warning("affects_unresolved"))
                                   \cup D!When(D!Weak(target), D!Warning("package_identity_weak")))
             faulty == D!Added(located, {D!Error("identity_input_invalid")})
             noted == D!Added(located, D!When(D!Contradicted(entry, named), D!Warning("affects_version_unaffected")))
             counted == [noted EXCEPT !.resolved = @ \/ D!Counts(v, entry, named)]
             instances == IF target = D!Subject THEN {} ELSE named
             candidate == D!CdxCandidate(v, <<p.at, p.entry>>, resource, instances)
             Goes(q) == /\ DOMAIN q = CdxFields /\ q.at = p.at /\ q.entry = p.entry
                        /\ p.diagnostics \subseteq q.diagnostics /\ q.step = "fold" /\ q.folds = p.folds
  <1>1. D!Affect(p, document, v, entry) = faulty \/ D!Affect(p, document, v, entry) = D!Put(counted, candidate)
    BY Zenon DEF D!Affect
  <1>2. ASSUME NEW q, Goes(q), NEW more
        PROVE  Goes(D!Added(q, more)) /\ D!Added(q, more).diagnostics = q.diagnostics \cup more
    BY <1>2 DEF D!Added, CdxFields
  <1>3. Goes(p)
    OBVIOUS
  <1>4. Goes(located)
    <2> HIDE DEF Goes
    <2> QED BY <1>2, <1>3
  <1> HIDE DEF located
  <1>5. Goes(faulty) /\ D!HasErrors(faulty.diagnostics)
    <2>1. Goes(faulty) /\ faulty.diagnostics = located.diagnostics \cup {D!Error("identity_input_invalid")}
      <3> HIDE DEF Goes
      <3> QED BY <1>2, <1>4
    <2> QED BY <2>1, ErrorsAre DEF D!Error
  <1>6. Goes(noted)
    <2> HIDE DEF Goes
    <2> QED BY <1>2, <1>4
  <1> HIDE DEF faulty, noted
  <1>7. Goes(counted)
    BY <1>6 DEF CdxFields
  <1> HIDE DEF counted
  <1>8. LET q == D!Put(counted, candidate) IN
        /\ DOMAIN q = CdxFields /\ q.at = p.at /\ q.entry = p.entry
        /\ p.diagnostics \subseteq q.diagnostics /\ q.step \in {"fold", "bound"}
        /\ q.step = "bound" \/ q.folds = p.folds \cup {candidate}
    <2> HIDE DEF candidate
    <2> QED BY <1>7 DEF D!Put, CdxFields
  <1> HIDE DEF resource, instances
  <1> QED BY <1>1, <1>5, <1>8

\* One entry of a record.
LEMMA EntryTells ==
  ASSUME NEW document, CdxListed(document), NEW p, CdxKept(p, document), p.step = "fold",
         p.at \in DOMAIN document.vulnerabilities, p.entry # 0
  PROVE  CdxKept(D!Entry(p, document), document)
  <1> DEFINE v == document.vulnerabilities[p.at]
             q == D!Affect(p, document, v, v.affects[p.entry])
             last == p.entry = Len(v.affects)
             r == D!Entry(p, document)
  <1>1. r = IF last THEN D!NextRecord(q) ELSE [q EXCEPT !.entry = @ + 1]
    BY DEF D!Entry
  <1>2. /\ DOMAIN q = CdxFields /\ q.at = p.at /\ q.entry = p.entry
        /\ p.diagnostics \subseteq q.diagnostics /\ q.step \in {"fold", "bound"}
        /\ \/ q.step = "bound" \/ D!HasErrors(q.diagnostics)
           \/ \E resource, instances :
                q.folds = p.folds \cup {D!CdxCandidate(v, <<p.at, p.entry>>, resource, instances)}
    <2>1. DOMAIN p = CdxFields
      BY DEF CdxKept
    <2> HIDE DEF v
    <2> QED BY <2>1, AffectAdds
  <1> HIDE DEF q, r
  <1>3. /\ DOMAIN r = CdxFields /\ r.step = q.step /\ r.folds = q.folds /\ r.diagnostics = q.diagnostics
        /\ r.at = IF last THEN p.at + 1 ELSE p.at
        /\ r.entry = IF last THEN 0 ELSE p.entry + 1
    <2> HIDE DEF last
    <2>1. CASE last
      BY <1>1, <1>2, <2>1 DEF D!NextRecord, CdxFields
    <2>2. CASE ~last
      BY <1>1, <1>2, <2>2 DEF CdxFields
    <2> QED BY <2>1, <2>2
  <1>4. ASSUME r.step # "bound", ~D!HasErrors(r.diagnostics) PROVE Tallied(r, document)
    <2>1. ~D!HasErrors(p.diagnostics)
      BY <1>2, <1>3, <1>4, ErrorsStay
    <2>2. Tallied(p, document)
      BY <2>1 DEF CdxKept
    <2>3. PICK resource, instances :
            r.folds = p.folds \cup {D!CdxCandidate(v, <<p.at, p.entry>>, resource, instances)}
      BY <1>2, <1>3, <1>4
    <2> DEFINE c == D!CdxCandidate(v, <<p.at, p.entry>>, resource, instances)
    <2>4. Says(c, document, p.at, p.entry)
      BY DEF Says
    <2> HIDE DEF c
    <2>5. /\ Len(document.vulnerabilities) \in Nat
          /\ DOMAIN document.vulnerabilities = 1 .. Len(document.vulnerabilities)
          /\ Len(v.affects) \in Nat /\ p.entry \in 1 .. Len(v.affects) /\ v.affects # <<>>
      BY <2>2, EntriesAre DEF Tallied
    <2>6. Entries(v) = 1 .. Len(v.affects) /\ p.entry \in Entries(v)
      BY <2>5 DEF Entries
    <2>7. \A i \in DOMAIN document.vulnerabilities : \A j \in Entries(document.vulnerabilities[i]) : j \in Nat
      BY EntriesAre DEF Entries
    <2>8. \A i, j : Spoken(r, document, i, j) <=> Spoken(p, document, i, j) \/ (i = p.at /\ j = p.entry)
      <3> SUFFICES ASSUME NEW i \in DOMAIN document.vulnerabilities,
                          NEW j \in Entries(document.vulnerabilities[i])
                   PROVE  (i < r.at \/ (i = r.at /\ j < r.entry)) <=>
                            \/ i < p.at \/ (i = p.at /\ j < p.entry) \/ (i = p.at /\ j = p.entry)
        BY <2>6 DEF Spoken
      <3>1. i \in Nat /\ p.at \in Nat /\ j \in Nat /\ p.entry \in Nat
        BY <2>5, <2>7
      <3>2. i = p.at => j <= Len(v.affects)
        BY <2>6, <3>1
      <3> HIDE DEF v
      <3> QED BY <1>3, <2>5, <3>1, <3>2
    <2>9. /\ r.at \in 1 .. Len(document.vulnerabilities) + 1 /\ r.entry \in Nat
          /\ r.entry # 0 => /\ r.at \in DOMAIN document.vulnerabilities
                            /\ r.entry \in 1 .. Len(document.vulnerabilities[r.at].affects)
      BY <1>3, <2>5
    <2>10. ~(p.at < p.at) /\ ~(p.entry < p.entry) /\ p.entry \in Entries(document.vulnerabilities[p.at])
      BY <2>5, <2>6
    <2>11. r.folds = p.folds \cup {c}
      BY <2>3 DEF c
    <2>12. OneMore(p, r, document, p.entry, c)
      BY <2>4, <2>5, <2>8, <2>9, <2>10, <2>11 DEF OneMore
    <2> QED BY <2>2, <2>12, OneMoreTold
  <1> HIDE DEF last
  <1>5. CdxKept(r, document)
    BY <1>2, <1>3, <1>4 DEF CdxKept
  <1> QED BY <1>5 DEF r

LEMMA RecordErrorsAre ==
  ASSUME NEW v, D!RecordErrors(v) # {}
  PROVE  \A x \in D!RecordErrors(v) : x.level = "ERROR"
  BY DEF D!RecordErrors, D!Error, D!When

\* One record: an error, or a statement of its own, or the first of its entries.
LEMMA RecordTells ==
  ASSUME NEW document, CdxListed(document), NEW p, CdxKept(p, document), p.step = "fold",
         p.at \in DOMAIN document.vulnerabilities, p.entry = 0
  PROVE  CdxKept(D!Record(p, document), document)
  <1> DEFINE v == document.vulnerabilities[p.at]
             q == D!Added(p, D!AnalysisCodes(v) \cup D!When(v.unfixed, D!Warning("response_will_not_fix")))
             faulty == D!Added(p, D!RecordErrors(v))
             missing == D!Added(q, {D!Warning("affects_missing")})
             c == D!CdxCandidate(v, <<p.at, 0>>, p.scope, {})
             put == D!Put(missing, c)
             r == D!Record(p, document)
  <1>1. r = IF D!RecordErrors(v) # {} THEN D!NextRecord(faulty)
            ELSE IF v.affects = <<>> THEN D!NextRecord(put) ELSE [q EXCEPT !.entry = 1]
    BY DEF D!Record
  <1>2. DOMAIN p = CdxFields
    BY DEF CdxKept
  <1>3. /\ DOMAIN q = CdxFields /\ q.at = p.at /\ q.step = "fold" /\ q.folds = p.folds
        /\ p.diagnostics \subseteq q.diagnostics
    BY <1>2 DEF D!Added, CdxFields
  <1>4. /\ DOMAIN faulty = CdxFields /\ faulty.step = "fold"
        /\ faulty.diagnostics = p.diagnostics \cup D!RecordErrors(v)
    BY <1>2 DEF D!Added, CdxFields
  <1>5. D!RecordErrors(v) # {} => D!HasErrors(faulty.diagnostics)
    <2> HIDE DEF v, faulty
    <2> QED BY <1>4, RecordErrorsAre, ErrorsAre
  <1> HIDE DEF q, faulty
  <1>6. /\ DOMAIN missing = CdxFields /\ missing.at = p.at /\ missing.step = "fold"
        /\ missing.folds = p.folds /\ p.diagnostics \subseteq missing.diagnostics
    BY <1>3 DEF D!Added, CdxFields
  <1> HIDE DEF missing, c
  <1>7. /\ DOMAIN put = CdxFields /\ put.at = p.at /\ p.diagnostics \subseteq put.diagnostics
        /\ put.step = "bound" \/ (put.step = "fold" /\ put.folds = p.folds \cup {c})
    BY <1>6 DEF D!Put, CdxFields
  <1> HIDE DEF put
  <1>8. /\ Len(document.vulnerabilities) \in Nat
        /\ DOMAIN document.vulnerabilities = 1 .. Len(document.vulnerabilities)
        /\ Len(v.affects) \in Nat /\ (v.affects = <<>> <=> Len(v.affects) = 0)
    BY EntriesAre
  <1>9. p.at \in Nat /\ p.at \in 1 .. Len(document.vulnerabilities)
    BY <1>8
  <1>10. CASE D!RecordErrors(v) # {}
    <2>1. r = D!NextRecord(faulty)
      BY <1>1, <1>10
    <2>2. DOMAIN r = CdxFields /\ r.step = "fold" /\ D!HasErrors(r.diagnostics)
      BY <1>4, <1>5, <1>10, <2>1 DEF D!NextRecord, CdxFields
    <2> HIDE DEF r
    <2>3. CdxKept(r, document)
      BY <2>2 DEF CdxKept
    <2> QED BY <2>3 DEF r
  <1>11. CASE D!RecordErrors(v) = {} /\ v.affects = <<>>
    <2>1. r = D!NextRecord(put)
      BY <1>1, <1>11
    <2>2. /\ DOMAIN r = CdxFields /\ r.at = p.at + 1 /\ r.entry = 0 /\ p.diagnostics \subseteq r.diagnostics
          /\ r.step = "bound" \/ (r.step = "fold" /\ r.folds = p.folds \cup {c})
      BY <1>7, <2>1 DEF D!NextRecord, CdxFields
    <2> HIDE DEF r
    <2>3. ASSUME r.step = "fold", ~D!HasErrors(r.diagnostics) PROVE Tallied(r, document)
      <3>1. Tallied(p, document)
        <4>1. ~D!HasErrors(p.diagnostics)
          BY <2>2, <2>3, ErrorsStay
        <4> QED BY <4>1 DEF CdxKept
      <3>2. Says(c, document, p.at, 0) /\ 0 \in Entries(v) /\ Entries(v) = {0}
        BY <1>11 DEF Says, Entries, c
      <3>3. \A i \in DOMAIN document.vulnerabilities : \A j \in Entries(document.vulnerabilities[i]) : j \in Nat
        BY EntriesAre DEF Entries
      <3>4. \A i, j : Spoken(r, document, i, j) <=> Spoken(p, document, i, j) \/ (i = p.at /\ j = 0)
        <4> SUFFICES ASSUME NEW i \in DOMAIN document.vulnerabilities,
                            NEW j \in Entries(document.vulnerabilities[i])
                     PROVE  (i < r.at \/ (i = r.at /\ j < r.entry)) <=>
                              \/ i < p.at \/ (i = p.at /\ j < p.entry) \/ (i = p.at /\ j = 0)
          BY <3>2 DEF Spoken
        <4>1. i \in Nat /\ j \in Nat /\ (i = p.at => j = 0)
          BY <1>8, <3>2, <3>3
        <4> HIDE DEF v
        <4> QED BY <1>9, <2>2, <4>1
      <3>5. OneMore(p, r, document, 0, c)
        BY <1>8, <1>9, <2>2, <2>3, <3>2, <3>4 DEF OneMore
      <3> QED BY <3>1, <3>5, OneMoreTold
    <2>4. CdxKept(r, document)
      BY <2>2, <2>3 DEF CdxKept
    <2> QED BY <2>4 DEF r
  <1>12. CASE D!RecordErrors(v) = {} /\ v.affects # <<>>
    <2>1. r = [q EXCEPT !.entry = 1]
      BY <1>1, <1>12
    <2>2. /\ DOMAIN r = CdxFields /\ r.at = p.at /\ r.entry = 1 /\ r.step = "fold" /\ r.folds = p.folds
          /\ p.diagnostics \subseteq r.diagnostics
      BY <1>3, <2>1 DEF CdxFields
    <2> HIDE DEF r
    <2>3. ASSUME ~D!HasErrors(r.diagnostics) PROVE Tallied(r, document)
      <3>1. Tallied(p, document)
        <4>1. ~D!HasErrors(p.diagnostics)
          BY <2>2, <2>3, ErrorsStay
        <4> QED BY <4>1 DEF CdxKept
      <3>2. \A j \in Entries(v) : j \in Nat /\ ~(j < 1)
        BY <1>8, <1>12 DEF Entries
      <3>3. \A i, j : Spoken(r, document, i, j) <=> Spoken(p, document, i, j)
        <4> SUFFICES ASSUME NEW i \in DOMAIN document.vulnerabilities,
                            NEW j \in Entries(document.vulnerabilities[i])
                     PROVE  (i < r.at \/ (i = r.at /\ j < r.entry)) <=> (i < p.at \/ (i = p.at /\ j < p.entry))
          BY DEF Spoken
        <4>1. i = p.at => j \in Nat /\ ~(j < 1)
          BY <3>2
        <4> HIDE DEF v
        <4> QED BY <2>2, <4>1
      <3>4. 1 \in 1 .. Len(v.affects)
        BY <1>8, <1>12
      <3>5. \A i, j : Spoken(p, document, i, j) => \E d \in p.folds : d.place = <<i, j>>
        BY <3>1 DEF Tallied
      <3>6. \A d \in p.folds : \E i, j : Spoken(p, document, i, j) /\ Says(d, document, i, j)
        BY <3>1 DEF Tallied
      <3>7. IsFiniteSet(r.folds) /\ \A d, e \in r.folds : d.place = e.place => d = e
        BY <2>2, <3>1 DEF Tallied
      <3>8. /\ r.at \in 1 .. Len(document.vulnerabilities) + 1 /\ r.entry \in Nat
            /\ r.at \in DOMAIN document.vulnerabilities
            /\ r.entry \in 1 .. Len(document.vulnerabilities[r.at].affects)
        BY <1>8, <1>9, <2>2, <3>4
      <3>9. \A d \in r.folds : \E i, j : Spoken(r, document, i, j) /\ Says(d, document, i, j)
        BY <2>2, <3>3, <3>6
      <3>10. \A i, j : Spoken(r, document, i, j) => \E d \in r.folds : d.place = <<i, j>>
        BY <2>2, <3>3, <3>5
      <3> QED BY <3>7, <3>8, <3>9, <3>10 DEF Tallied
    <2>4. CdxKept(r, document)
      BY <2>2, <2>3 DEF CdxKept
    <2> QED BY <2>4 DEF r
  <1> QED BY <1>10, <1>11, <1>12

\* What a bill names itself by: the tools that made it, and its subject.
ToolOf(document) == IF D!Tools(document) # {} THEN D!Tools(document) ELSE {"cyclonedx"}
ScopeOf(document) == D!Scope(document, ToolOf(document))

\* What is read between the components and the records.
LEMMA ScopeReads ==
  ASSUME NEW document, NEW p, DOMAIN p = CdxFields
  PROVE  LET q == D!ReadScope(p, document) IN
         /\ DOMAIN q = CdxFields
         /\ q.at = p.at /\ q.entry = p.entry /\ q.folds = p.folds
         /\ q.index = p.index /\ q.resolved = p.resolved
         /\ \/ q.step \in {"done", "rejected"}
            \/ /\ ~D!HasErrors(p.diagnostics) /\ q.step \in {"bound", "fold"}
               /\ q.scope = ScopeOf(document).resource /\ q.lineage = ScopeOf(document).lineage
  <1> DEFINE Holds(q) == /\ DOMAIN q = CdxFields
                         /\ q.at = p.at /\ q.entry = p.entry /\ q.folds = p.folds
                         /\ q.index = p.index /\ q.resolved = p.resolved
             Over(q) == Holds(q) /\ q.step \in {"done", "rejected"}
             Going(q) == /\ Holds(q) /\ q.step \in {"bound", "fold"}
                         /\ q.scope = ScopeOf(document).resource /\ q.lineage = ScopeOf(document).lineage
  <1>1. Holds(p)
    OBVIOUS
  <1>2. ASSUME NEW q, Holds(q), NEW more
        PROVE  Holds(D!Added(q, more)) /\ D!Added(q, more).step = q.step
    BY <1>2 DEF D!Added, CdxFields
  <1>3. ASSUME NEW q, Holds(q), NEW step PROVE Holds([q EXCEPT !.step = step])
                                               /\ [q EXCEPT !.step = step].step = step
    BY <1>3 DEF CdxFields
  <1>4. ASSUME NEW q, Holds(q), NEW code PROVE Over(D!Faulted([q EXCEPT !.step = "done"], document, code))
    <2> DEFINE done == [q EXCEPT !.step = "done"]
    <2>1. Holds(done) /\ done.step = "done"
      BY <1>3, <1>4
    <2> HIDE DEF done, Holds
    <2>2. D!Faulted(done, document, code) = D!Added(done, {D!Error(code)})
          \/ D!Faulted(done, document, code) = [done EXCEPT !.step = "rejected"]
      BY DEF D!Faulted
    <2>3. Over(D!Added(done, {D!Error(code)}))
      BY <1>2, <2>1
    <2>4. Over([done EXCEPT !.step = "rejected"])
      BY <1>3, <2>1
    <2>5. Over(D!Faulted(done, document, code))
      <3> HIDE DEF Over
      <3> QED BY <2>2, <2>3, <2>4
    <2> QED BY <2>5 DEF done
  <1> DEFINE named == D!Tools(document) # {}
             tool == IF named THEN D!Tools(document) ELSE {"cyclonedx"}
             scope == D!Scope(document, tool)
             first == D!When(~named, D!Warning("tool_identity_fallback"))
                      \cup D!When(D!Cardinality(tool) > 1, D!Warning("tool_identity_ambiguous"))
             known == D!Added(p, first)
             noted == D!When(scope.resource = <<"scan", <<tool>>>>, D!Warning("subject_identity_fallback"))
                      \cup D!When(document.version = D!Unusable, D!Warning("bom_version_invalid"))
                      \cup D!When(document.timestamp = D!Unusable, D!Warning("source_timestamp_invalid"))
                      \cup D!When(~D!Usable(document.timestamp), D!Warning("source_timestamp_missing"))
             both == D!Added(known, noted)
             read == [both EXCEPT !.step = IF D!OverBound(document) THEN "bound" ELSE "fold",
                                  !.tool = tool, !.scope = scope.resource, !.lineage = scope.lineage]
             blank == D!Added(p, {D!Error("invalid_bom")})
             failed == D!HasErrors(p.diagnostics)
  <1>5. \/ D!ReadScope(p, document) \in
             {[p EXCEPT !.step = "done"], [p EXCEPT !.step = "rejected"], [blank EXCEPT !.step = "done"],
              D!Faulted([p EXCEPT !.step = "done"], document, "identity_input_invalid"),
              D!Faulted([known EXCEPT !.step = "done"], document, "identity_input_invalid")}
        \/ ~failed /\ D!ReadScope(p, document) = read
    BY Zenon DEF D!ReadScope
  <1>6. scope = ScopeOf(document)
    BY Zenon DEF ScopeOf, ToolOf
  <1> HIDE DEF first, noted, scope, tool, named, failed
  <1>7. Holds(known) /\ Holds(blank)
    <2> HIDE DEF Holds
    <2> QED BY <1>1, <1>2
  <1> HIDE DEF known, blank
  <1>8. Holds(both)
    <2> HIDE DEF Holds
    <2> QED BY <1>2, <1>7
  <1> HIDE DEF both
  <1>9. Going(read)
    BY <1>6, <1>8 DEF CdxFields
  <1> HIDE DEF read
  <1>10. Over(D!ReadScope(p, document)) \/ (~failed /\ Going(D!ReadScope(p, document)))
    <2> HIDE DEF Holds
    <2>1. Over([p EXCEPT !.step = "done"]) /\ Over([p EXCEPT !.step = "rejected"])
      BY <1>1, <1>3
    <2>2. Over([blank EXCEPT !.step = "done"])
      BY <1>3, <1>7
    <2>3. /\ Over(D!Faulted([p EXCEPT !.step = "done"], document, "identity_input_invalid"))
          /\ Over(D!Faulted([known EXCEPT !.step = "done"], document, "identity_input_invalid"))
      BY <1>1, <1>4, <1>7
    <2> HIDE DEF Over, Going
    <2> QED BY <1>5, <1>9, <2>1, <2>2, <2>3
  <1> QED BY <1>10 DEF failed

\* What is read before a record adds no candidate.
LEMMA ScopeTells ==
  ASSUME NEW document, CdxListed(document), NEW p, CdxKept(p, document), p.step = "index"
  PROVE  CdxKept(D!ReadScope(p, document), document)
  <1> DEFINE q == D!ReadScope(p, document)
  <1>1. DOMAIN p = CdxFields /\ p.at = 1 /\ p.entry = 0 /\ p.folds = {}
    BY DEF CdxKept
  <1>2. /\ DOMAIN q = CdxFields /\ q.at = 1 /\ q.entry = 0 /\ q.folds = {}
        /\ q.step \in {"done", "rejected", "bound", "fold"}
    BY <1>1, ScopeReads
  <1> HIDE DEF q
  <1>3. Tallied(q, document)
    <2>1. \A i, k : ~Spoken(q, document, i, k)
      <3> SUFFICES ASSUME NEW i \in DOMAIN document.vulnerabilities,
                          NEW k \in Entries(document.vulnerabilities[i]), i < 1 \/ k < 0
                   PROVE  FALSE
        BY <1>2 DEF Spoken
      <3> QED BY EntriesAre DEF Entries
    <2>2. 1 \in 1 .. Len(document.vulnerabilities) + 1
      BY EntriesAre
    <2> QED BY <1>2, <2>1, <2>2, FS_EmptySet DEF Tallied
  <1>4. CdxKept(q, document)
    BY <1>2, <1>3 DEF CdxKept
  <1> QED BY <1>4 DEF q

LEMMA CdxStepTells ==
  ASSUME NEW document, CdxListed(document), NEW p, CdxKept(p, document), D!Walking(p)
  PROVE  CdxKept(D!Stepped(p, document), document)
  <1>1. p.step \in {"index", "fold"} /\ DOMAIN p = CdxFields
    BY DEF D!Walking, CdxKept
  <1>2. CASE p.step = "index" /\ p.pending # <<>>
    <2> DEFINE q == D!Index(p, document)
               rest == [p EXCEPT !.pending = Tail(@)]
    <2>1. D!Stepped(p, document) = q
      BY <1>2 DEF D!Stepped
    <2>2. /\ p.at = 1 /\ p.entry = 0 /\ p.folds = {}
      BY <1>2 DEF CdxKept
    <2>3. /\ DOMAIN rest = CdxFields /\ rest.at = 1 /\ rest.entry = 0 /\ rest.folds = {}
          /\ rest.step = "index"
      BY <1>1, <1>2, <2>2 DEF CdxFields
    <2> HIDE DEF rest
    <2>4. LET f == D!Faulted(rest, document, "invalid_component") IN
          /\ DOMAIN f = CdxFields /\ f.at = 1 /\ f.entry = 0 /\ f.folds = {}
          /\ f.step \in {"index", "rejected"}
      BY <2>3 DEF D!Faulted, D!Added, CdxFields
    <2>5. /\ DOMAIN q = CdxFields /\ q.at = 1 /\ q.entry = 0 /\ q.folds = {}
          /\ q.step \in {"index", "rejected"}
      <3>1. CASE ~D!Head(p.pending).component.sound
        <4>1. q = D!Faulted(rest, document, "invalid_component")
          BY <3>1 DEF D!Index, rest
        <4> QED BY <2>4, <4>1
      <3>2. CASE D!Head(p.pending).component.sound
        BY <1>1, <1>2, <2>2, <3>2 DEF D!Index, CdxFields
      <3> QED BY <3>1, <3>2
    <2> HIDE DEF q
    <2>6. CdxKept(q, document)
      BY <2>5 DEF CdxKept
    <2> QED BY <2>1, <2>6
  <1>3. CASE p.step = "index" /\ p.pending = <<>>
    <2>1. D!Stepped(p, document) = D!ReadScope(p, document)
      BY <1>3 DEF D!Stepped
    <2> QED BY <1>3, <2>1, ScopeTells
  <1>4. CASE p.step = "fold" /\ p.at \in DOMAIN document.vulnerabilities
    <2>1. D!Stepped(p, document) = IF p.entry = 0 THEN D!Record(p, document) ELSE D!Entry(p, document)
      BY <1>4 DEF D!Stepped
    <2> QED BY <1>4, <2>1, RecordTells, EntryTells
  <1>5. CASE p.step = "fold" /\ p.at \notin DOMAIN document.vulnerabilities
    <2> DEFINE q == D!Close(p)
    <2>1. D!Stepped(p, document) = q
      BY <1>5 DEF D!Stepped
    <2>2. /\ DOMAIN q = CdxFields /\ q.at = p.at /\ q.entry = p.entry /\ q.folds = p.folds
          /\ q.step \in {"done", "bound", "superseded", "scoped"}
          /\ q.diagnostics = p.diagnostics /\ (D!HasErrors(p.diagnostics) => q.step = "done")
      BY <1>1 DEF D!Close, CdxFields
    <2> HIDE DEF q
    <2>3. ASSUME q.step \in {"superseded", "scoped"} PROVE Tallied(q, document)
      <3>1. Tallied(p, document)
        BY <1>5, <2>2, <2>3 DEF CdxKept
      <3>2. \A i, k : Spoken(q, document, i, k) <=> Spoken(p, document, i, k)
        BY <2>2 DEF Spoken
      <3> QED BY <2>2, <3>1, <3>2 DEF Tallied
    <2>4. CdxKept(q, document)
      BY <1>5, <2>2, <2>3 DEF CdxKept
    <2> QED BY <2>1, <2>4
  <1> QED BY <1>1, <1>2, <1>3, <1>4, <1>5

\* What is folded is a record of its identity, at the worst severity of its copies.
LEMMA FoldIs ==
  ASSUME NEW key, NEW candidates
  PROVE  LET o == D!AssembleFold(key, candidates) IN
         /\ o.key = key /\ o.count = Cardinality(candidates) /\ o.disposition = "OPEN"
         /\ o.severity = D!Worst({c.severity : c \in candidates})
         /\ o.states = UNION {c.states : c \in candidates}
  BY CountedAlike DEF D!AssembleFold

\* The observations of a document that came to its end.
LEMMA OutputIs ==
  ASSUME NEW p, NEW document, CdxKept(p, document), p.step \in {"superseded", "scoped"}
  PROVE  D!CdxOutput(p, document).observations = D!Folded(p) \cup (IF p.step = "scoped" THEN {D!ScopeObservation(p)} ELSE {})
  <1> DEFINE scope == IF p.step = "scoped" THEN {D!ScopeObservation(p)} ELSE {}
             notes == IF D!HasErrors(p.diagnostics) THEN {} ELSE D!CloseNotes(p, document)
  <1>1. p.step \in {"superseded", "scoped"} /\ ~D!HasErrors(p.diagnostics)
    BY DEF CdxKept
  <1>2. D!CdxOutput(p, document) = D!Reading(D!Folded(p) \cup scope, p.diagnostics \cup notes, D!Absent)
    BY <1>1 DEF D!CdxOutput
  <1>3. ~D!HasErrors(p.diagnostics \cup notes)
    <2>1. \A x \in notes : x.level # "ERROR"
      BY DEF D!CloseNotes, D!When, D!Warning
    <2> HIDE DEF notes
    <2> QED BY <1>1, <2>1, WarningsAdded
  <1> HIDE DEF notes, scope
  <1>4. D!CdxOutput(p, document).observations = D!Folded(p) \cup scope
    BY <1>2, <1>3 DEF D!Reading
  <1> QED BY <1>4 DEF scope

LEMMA ObservedAre ==
  ASSUME CdxKept(parse, doc), D!Imports
  PROVE  D!Observed = D!Folded(parse) \cup (IF parse.step = "scoped" THEN {D!ScopeObservation(parse)} ELSE {})
  BY OutputIs DEF D!Observed, D!Imports

\* The findings of a document that came to its end are its folds.
LEMMA FindingsAre ==
  ASSUME CdxKept(parse, doc), D!Imports
  PROVE  D!Findings = D!Folded(parse)
  <1> DEFINE scope == IF parse.step = "scoped" THEN {D!ScopeObservation(parse)} ELSE {}
  <1>1. D!Observed = D!Folded(parse) \cup scope
    BY ObservedAre
  <1>2. \A o \in scope : o.disposition # "OPEN"
    BY DEF D!ScopeObservation
  <1>3. \A o \in D!Folded(parse) : o.disposition = "OPEN"
    <2> SUFFICES ASSUME NEW o \in D!Folded(parse) PROVE o.disposition = "OPEN"
      OBVIOUS
    <2>1. PICK key : o = D!AssembleFold(key, {c \in parse.folds : c.key = key})
      BY DEF D!Folded
    <2> DEFINE those == {c \in parse.folds : c.key = key}
    <2>2. D!AssembleFold(key, those).disposition = "OPEN"
      <3> HIDE DEF those
      <3> QED BY FoldIs
    <2> QED BY <2>1, <2>2
  <1> HIDE DEF scope
  <1> QED BY <1>1, <1>2, <1>3 DEF D!Findings

\* The statements of one record.
LEMMA RecordTallied ==
  ASSUME CdxListed(doc), Tallied(parse, doc), parse.at \notin DOMAIN doc.vulnerabilities,
         NEW i \in DOMAIN doc.vulnerabilities
  PROVE  Cardinality({c \in parse.folds : c.place[1] = i}) = D!Statements(doc.vulnerabilities[i])
  <1> DEFINE v == doc.vulnerabilities[i]
             those == {c \in parse.folds : c.place[1] = i}
             which == [c \in those |-> c.place[2]]
  <1>1. /\ Len(v.affects) \in Nat /\ (v.affects = <<>> <=> Len(v.affects) = 0)
        /\ DOMAIN doc.vulnerabilities = 1 .. Len(doc.vulnerabilities) /\ Len(doc.vulnerabilities) \in Nat
    BY EntriesAre
  <1>2. i < parse.at
    BY <1>1 DEF Tallied
  <1>3. \A k : Spoken(parse, doc, i, k) <=> k \in Entries(v)
    BY <1>2 DEF Spoken
  <1>4. \A c \in parse.folds : \E j, k : Spoken(parse, doc, j, k) /\ c.place = <<j, k>>
    BY DEF Tallied, Says, D!CdxCandidate
  <1> HIDE DEF v
  <1>5. \A c \in those : c.place = <<i, c.place[2]>> /\ c.place[2] \in Entries(v)
    <2> SUFFICES ASSUME NEW c \in those PROVE c.place = <<i, c.place[2]>> /\ c.place[2] \in Entries(v)
      OBVIOUS
    <2>1. PICK j, k : Spoken(parse, doc, j, k) /\ c.place = <<j, k>>
      BY <1>4
    <2>2. j = i
      BY <2>1
    <2> QED BY <1>3, <2>1, <2>2
  <1> DEFINE spoken == Entries(v)
  <1>6. which \in [those -> spoken]
    BY <1>5
  <1>7. \A c, d \in those : which[c] = which[d] => c = d
    <2> SUFFICES ASSUME NEW c \in those, NEW d \in those, which[c] = which[d] PROVE c = d
      OBVIOUS
    <2>1. c.place[2] = d.place[2]
      OBVIOUS
    <2>2. c.place = d.place
      BY <1>5, <2>1
    <2> QED BY <2>2 DEF Tallied
  <1>8. \A k \in spoken : \E c \in those : which[c] = k
    <2> SUFFICES ASSUME NEW k \in spoken PROVE \E c \in those : which[c] = k
      OBVIOUS
    <2>1. PICK c \in parse.folds : c.place = <<i, k>>
      BY <1>3 DEF Tallied
    <2> QED BY <2>1
  <1>9. IsFiniteSet(those)
    <2>1. IsFiniteSet(parse.folds)
      BY DEF Tallied
    <2> QED BY <2>1, FS_Subset
  <1> HIDE DEF which, those, spoken
  <1>10. ExistsBijection(those, spoken)
    <2>1. which \in Injection(those, spoken)
      BY <1>6, <1>7 DEF Injection, IsInjective
    <2>2. which \in Surjection(those, spoken)
      BY <1>6, <1>8 DEF Surjection
    <2>3. which \in Bijection(those, spoken)
      BY <2>1, <2>2 DEF Bijection
    <2> QED BY <2>3 DEF ExistsBijection
  <1>11. Cardinality(Entries(v)) = Cardinality(those)
    BY <1>9, <1>10, FS_Bijection DEF spoken
  <1> DEFINE n == Len(v.affects)
  <1> HIDE DEF n
  <1>12. Cardinality(Entries(v)) = D!Statements(v)
    <2>1. CASE v.affects = <<>>
      BY <2>1, FS_Singleton DEF Entries, D!Statements
    <2>2. CASE v.affects # <<>>
      <3>n. n \in Nat
        BY <1>1 DEF n, v
      <3>1. Cardinality(1 .. n) = n
        <4>1. Cardinality(1 .. n) = IF 1 > n THEN 0 ELSE n - 1 + 1
          BY <3>n, FS_Interval
        <4> QED BY <3>n, <4>1
      <3> QED BY <2>2, <3>1 DEF Entries, D!Statements, n
    <2> QED BY <2>1, <2>2
  <1> QED BY <1>11, <1>12 DEF those, v

\* Every statement of a bill is in one open finding of its record.
LEMMA StatementsFound ==
  ASSUME CdxListed(doc), CdxKept(parse, doc)
  PROVE  D!StatementsOpen
  <1> SUFFICES ASSUME D!Imports, NEW id \in {v.id : v \in D!Range(doc.vulnerabilities)}
               PROVE  LET records == {i \in DOMAIN doc.vulnerabilities : doc.vulnerabilities[i].id = id}
                          ofId == {o \in D!Findings : o.key.record = id}
                      IN /\ D!SumFunction([o \in ofId |-> o.count])
                              = D!SumFunction([i \in records |-> D!Statements(doc.vulnerabilities[i])])
                         /\ \A i \in records : \E o \in ofId :
                              LET v == doc.vulnerabilities[i] IN
                              /\ v.state \notin {D!None, "unread"} => v.state \in o.states
                              /\ \A r \in v.ratings : r.word \in DOMAIN D!RatingSeverities =>
                                   D!CdxSeverityRank[D!RatingSeverities[r.word]] <= D!CdxSeverityRank[o.severity]
    BY DEF D!StatementsOpen
  <1> DEFINE folds == parse.folds
             records == {i \in DOMAIN doc.vulnerabilities : doc.vulnerabilities[i].id = id}
             ofId == {o \in D!Findings : o.key.record = id}
             said == {c \in folds : c.key.record = id}
             Copies(c) == {d \in folds : d.key = c.key}
             Finding(c) == D!AssembleFold(c.key, Copies(c))
  <1>1. Tallied(parse, doc) /\ parse.at \notin DOMAIN doc.vulnerabilities
    BY DEF D!Imports, CdxKept
  <1>2. \A c \in folds : /\ Finding(c).key = c.key /\ Finding(c).count = Cardinality(Copies(c))
                         /\ Finding(c).severity = D!Worst({d.severity : d \in Copies(c)})
                         /\ Finding(c).states = UNION {d.states : d \in Copies(c)}
    BY FoldIs
  <1>3. D!Findings = {Finding(c) : c \in folds}
    <2>1. D!Folded(parse) = {D!AssembleFold(key, {c \in folds : c.key = key}) : key \in {c.key : c \in folds}}
      BY DEF D!Folded
    <2>2. {D!AssembleFold(key, {c \in folds : c.key = key}) : key \in {c.key : c \in folds}}
            = {Finding(c) : c \in folds}
      OBVIOUS
    <2> QED BY <2>1, <2>2, FindingsAre
  <1>4. \A c \in folds : \E i \in DOMAIN doc.vulnerabilities : \E k :
          /\ k \in Entries(doc.vulnerabilities[i]) /\ c.place = <<i, k>>
          /\ c.key.record = doc.vulnerabilities[i].id
          /\ Says(c, doc, i, k)
    <2> SUFFICES ASSUME NEW c \in folds
                 PROVE  \E i \in DOMAIN doc.vulnerabilities : \E k :
                          /\ k \in Entries(doc.vulnerabilities[i]) /\ c.place = <<i, k>>
                          /\ c.key.record = doc.vulnerabilities[i].id
                          /\ Says(c, doc, i, k)
      OBVIOUS
    <2>1. PICK i, k : Spoken(parse, doc, i, k) /\ Says(c, doc, i, k)
      BY <1>1 DEF Tallied
    <2>2. i \in DOMAIN doc.vulnerabilities /\ k \in Entries(doc.vulnerabilities[i])
      BY <2>1 DEF Spoken
    <2>3. c.place = <<i, k>> /\ c.key.record = doc.vulnerabilities[i].id
      BY <2>1 DEF Says, D!CdxCandidate
    <2> QED BY <2>1, <2>2, <2>3
  <1>5. IsFiniteSet(folds) /\ IsFiniteSet(said)
    <2>1. IsFiniteSet(folds)
      BY <1>1 DEF Tallied
    <2> QED BY <2>1, FS_Subset
  <1>6. D!SumFunction([o \in ofId |-> o.count]) = Cardinality(said)
    <2> DEFINE place == [c \in said |-> Finding(c)]
               count == [o \in ofId |-> o.count]
    <2>1. \A c \in said : Finding(c) \in ofId
      <3> HIDE DEF Finding
      <3> QED BY <1>2, <1>3
    <2>2. \A o \in ofId : \E c \in said : o = Finding(c)
      <3> HIDE DEF Finding
      <3> QED BY <1>2, <1>3
    <2> HIDE DEF ofId, said
    <2>3. place \in [said -> ofId] /\ place \in Surjection(said, ofId)
      <3> HIDE DEF Finding
      <3> QED BY <2>1, <2>2 DEF Surjection
    <2>4. IsFiniteSet(ofId)
      <3> HIDE DEF place
      <3> QED BY <1>5, <2>3, FS_Surjection
    <2>5. ASSUME NEW o \in ofId PROVE count[o] = Cardinality({c \in said : place[c] = o})
      <3>1. PICK c \in said : o = Finding(c)
        BY <2>2
      <3>2. \A d \in folds : d.key = c.key => Finding(d) = Finding(c)
        OBVIOUS
      <3>3. c \in folds /\ o.count = Cardinality(Copies(c))
        BY <1>2, <3>1 DEF said
      <3>4. ASSUME NEW d PROVE d \in Copies(c) <=> d \in said /\ place[d] = o
        <4>1. d \in Copies(c) => d \in said /\ Finding(d) = o
          BY <3>1, <3>2, <3>3 DEF said
        <4>2. (d \in said /\ Finding(d) = o) => d \in Copies(c)
          <5> HIDE DEF Finding
          <5> QED BY <1>2, <3>1, <3>3 DEF said
        <4> HIDE DEF Finding, Copies
        <4> QED BY <4>1, <4>2
      <3> HIDE DEF Copies, Finding, place
      <3>5. Copies(c) = {d \in said : place[d] = o}
        BY <3>3, <3>4 DEF Copies
      <3> QED BY <3>3, <3>5
    <2>6. DOMAIN count = ofId
      OBVIOUS
    <2> HIDE DEF place, count
    <2>7. D!SumFunction(count) = Cardinality(said)
      BY <1>5, <2>3, <2>4, <2>5, <2>6, SumCounts
    <2> QED BY <2>7 DEF count
  <1>7. D!SumFunction([i \in records |-> D!Statements(doc.vulnerabilities[i])]) = Cardinality(said)
    <2> DEFINE place == [c \in said |-> c.place[1]]
               count == [i \in records |-> D!Statements(doc.vulnerabilities[i])]
    <2>1. \A c \in said : c.place[1] \in records
      BY <1>4
    <2>2. place \in [said -> records]
      BY <2>1
    <2>3. IsFiniteSet(records)
      <3>1. DOMAIN doc.vulnerabilities = 1 .. Len(doc.vulnerabilities) /\ Len(doc.vulnerabilities) \in Nat
        BY EntriesAre
      <3>2. IsFiniteSet(DOMAIN doc.vulnerabilities)
        BY <3>1, FS_Interval
      <3> QED BY <3>2, FS_Subset
    <2>4. ASSUME NEW i \in records PROVE count[i] = Cardinality({c \in said : place[c] = i})
      <3>1. Cardinality({c \in folds : c.place[1] = i}) = D!Statements(doc.vulnerabilities[i])
        BY <1>1, RecordTallied
      <3>2. \A c \in folds : c.place[1] = i => c \in said
        BY <1>4
      <3>3. {c \in folds : c.place[1] = i} = {c \in said : place[c] = i}
        BY <3>2
      <3> QED BY <3>1, <3>3
    <2>5. DOMAIN count = records
      OBVIOUS
    <2> HIDE DEF place, count, said, records
    <2>6. D!SumFunction(count) = Cardinality(said)
      BY <1>5, <2>2, <2>3, <2>4, <2>5, SumCounts
    <2> QED BY <2>6 DEF count
  <1>8. ASSUME NEW i \in records
        PROVE  \E o \in ofId :
                 LET v == doc.vulnerabilities[i] IN
                 /\ v.state \notin {D!None, "unread"} => v.state \in o.states
                 /\ \A r \in v.ratings : r.word \in DOMAIN D!RatingSeverities =>
                      D!CdxSeverityRank[D!RatingSeverities[r.word]] <= D!CdxSeverityRank[o.severity]
    <2> DEFINE v == doc.vulnerabilities[i]
    <2>1. /\ Len(doc.vulnerabilities) \in Nat /\ DOMAIN doc.vulnerabilities = 1 .. Len(doc.vulnerabilities)
          /\ Len(v.affects) \in Nat /\ (v.affects = <<>> <=> Len(v.affects) = 0)
          /\ \A j \in DOMAIN doc.vulnerabilities : \A r \in doc.vulnerabilities[j].ratings : "word" \in DOMAIN r
      BY EntriesAre
    <2>2. PICK k : k \in Entries(v)
      <3>1. v.affects # <<>> => 1 \in 1 .. Len(v.affects)
        BY <2>1
      <3> QED BY <3>1 DEF Entries
    <2>3. Spoken(parse, doc, i, k)
      BY <1>1, <2>1, <2>2 DEF Spoken, Tallied
    <2>4. PICK c \in folds : c.place = <<i, k>>
      BY <1>1, <2>3 DEF Tallied
    <2>5. /\ c.key.record = id /\ c.states = {v.state} \ {D!None, "unread"}
          /\ c.severity = D!Rated(v.ratings).severity
      <3>1. Says(c, doc, i, k)
        BY <1>4, <2>4
      <3> QED BY <3>1 DEF Says, D!CdxCandidate
    <2>6. \A d \in folds : d.severity \in DOMAIN D!CdxSeverityRank
      <3> SUFFICES ASSUME NEW d \in folds PROVE d.severity \in DOMAIN D!CdxSeverityRank
        OBVIOUS
      <3>1. PICK j \in DOMAIN doc.vulnerabilities : \E m : Says(d, doc, j, m)
        BY <1>4
      <3>2. d.severity = D!Rated(doc.vulnerabilities[j].ratings).severity
        BY <3>1 DEF Says, D!CdxCandidate
      <3> QED BY <2>1, <3>2, RatedIs
    <2> DEFINE severities == {d.severity : d \in Copies(c)}
    <2>7. severities \subseteq DOMAIN D!CdxSeverityRank /\ c.severity \in severities
      BY <2>6
    <2> HIDE DEF severities
    <2>8. /\ D!CdxSeverityRank[c.severity] <= D!CdxSeverityRank[D!Worst(severities)]
          /\ D!Worst(severities) \in DOMAIN D!CdxSeverityRank
      BY <2>7, WorstIs
    <2>9. \A r \in v.ratings : r.word \in DOMAIN D!RatingSeverities =>
            D!CdxSeverityRank[D!RatingSeverities[r.word]] <= D!CdxSeverityRank[c.severity]
      BY <2>1, <2>5, RatedIs
    <2>10. Finding(c) \in ofId
      <3> HIDE DEF Finding
      <3> QED BY <1>2, <1>3, <2>5
    <2>11. Finding(c).severity = D!Worst(severities) /\ (v.state \notin {D!None, "unread"} => v.state \in Finding(c).states)
      <3>1. Finding(c).severity = D!Worst(severities) /\ Finding(c).states = UNION {d.states : d \in Copies(c)}
        BY <1>2 DEF severities
      <3> HIDE DEF Finding
      <3> QED BY <2>5, <3>1
    <2>12. /\ \A s \in DOMAIN D!CdxSeverityRank : D!CdxSeverityRank[s] \in Int
           /\ \A w \in DOMAIN D!RatingSeverities : D!RatingSeverities[w] \in DOMAIN D!CdxSeverityRank
      BY DEF D!CdxSeverityRank, D!RatingSeverities
    <2> HIDE DEF Finding, Copies, v, ofId, folds
    <2>13. \A r \in v.ratings : r.word \in DOMAIN D!RatingSeverities =>
             D!CdxSeverityRank[D!RatingSeverities[r.word]] <= D!CdxSeverityRank[Finding(c).severity]
      BY <2>6, <2>8, <2>9, <2>11, <2>12
    <2> QED BY <2>10, <2>11, <2>13 DEF v
  <1> QED BY <1>6, <1>7, <1>8

-----------------------------------------------------------------------------
(* A PASS of a bill of materials: the index is of every component listed,   *)
(* at any depth, and a record counts where a match ran.                     *)

\* What is built round by round of a document: its levels, its walk, and its
\* components turned or raised.
First(kind, document) ==
  CASE kind = "levels" -> D!Tops(document)
    [] kind = "walk" -> D!CdxStart(document)
    [] kind \notin {"levels", "walk"} -> [c \in D!Listed(document) |-> c]
After(kind, document, x) ==
  CASE kind = "levels" -> D!Children(x)
    [] kind = "walk" -> D!Onward(x, document)
    [] kind = "turns" -> [c \in D!Listed(document) |-> D!Turn(x, c)]
    [] kind = "raises" -> [c \in D!Listed(document) |-> D!Raise(x, c)]

\* The rounds, up to one.
RoundsTo(kind, document, g, n) ==
  /\ g[0] = First(kind, document)
  /\ \A k \in 1 .. n : g[k] = After(kind, document, g[k - 1])

\* There are rounds up to any number of them.
LEMMA RoundsExist ==
  ASSUME NEW kind, NEW document, NEW n \in Nat
  PROVE  \E g : RoundsTo(kind, document, g, n)
  <1> DEFINE Has(m) == \E g : RoundsTo(kind, document, g, m)
             bad == {m \in Nat : ~Has(m)}
  <1>1. SUFFICES ASSUME bad # {} PROVE FALSE
    OBVIOUS
  <1>2. PICK m \in bad : \A k \in bad : m <= k
    <2>1. bad \in SUBSET Nat
      OBVIOUS
    <2> HIDE DEF bad
    <2> QED BY <1>1, <2>1, LeastOfNats
  <1>3. m \in Nat /\ ~Has(m)
    BY <1>2
  <1>4. CASE m = 0
    <2>1. RoundsTo(kind, document, [k \in {0} |-> First(kind, document)], 0)
      BY DEF RoundsTo
    <2> QED BY <1>3, <1>4, <2>1
  <1>5. CASE m # 0
    <2>1. m - 1 \in Nat /\ m - 1 \notin bad
      <3>1. m - 1 \in Nat /\ ~(m <= m - 1)
        BY <1>3, <1>5
      <3> HIDE DEF bad
      <3> QED BY <1>2, <3>1
    <2>2. PICK g : RoundsTo(kind, document, g, m - 1)
      BY <2>1
    <2> DEFINE h == [k \in 0 .. m |-> IF k = m THEN After(kind, document, g[m - 1]) ELSE g[k]]
    <2>3. RoundsTo(kind, document, h, m)
      <3>1. h[0] = First(kind, document)
        BY <1>3, <1>5, <2>2 DEF RoundsTo
      <3>2. ASSUME NEW k \in 1 .. m PROVE h[k] = After(kind, document, h[k - 1])
        <4>1. k - 1 \in 0 .. m /\ k \in 0 .. m /\ k - 1 # m
          BY <1>3, <3>2
        <4>2. CASE k = m
          BY <4>1, <4>2
        <4>3. CASE k # m
          <5>1. k \in 1 .. m - 1
            BY <1>3, <4>3
          <5>2. g[k] = After(kind, document, g[k - 1])
            BY <2>2, <5>1 DEF RoundsTo
          <5> QED BY <4>1, <4>3, <5>2
        <4> QED BY <4>2, <4>3
      <3> HIDE DEF h
      <3> QED BY <3>1, <3>2 DEF RoundsTo
    <2> QED BY <1>3, <2>3
  <1> QED BY <1>4, <1>5

\* Two series of rounds agree as far as both go.
LEMMA RoundsAgree ==
  ASSUME NEW kind, NEW document, NEW n \in Nat, NEW m \in Nat, NEW g, NEW h,
         RoundsTo(kind, document, g, n), RoundsTo(kind, document, h, m), NEW k \in 0 .. n, k \in 0 .. m
  PROVE  g[k] = h[k]
  <1> DEFINE bad == {j \in 0 .. k : g[j] # h[j]}
  <1>1. SUFFICES ASSUME bad # {} PROVE FALSE
    OBVIOUS
  <1>2. PICK j \in bad : \A i \in bad : j <= i
    <2>1. bad \in SUBSET Nat
      OBVIOUS
    <2> HIDE DEF bad
    <2> QED BY <1>1, <2>1, LeastOfNats
  <1>3. j \in 0 .. k /\ g[j] # h[j] /\ j # 0
    BY <1>2 DEF RoundsTo
  <1>4. j - 1 \in 0 .. k /\ j - 1 \notin bad /\ j \in 1 .. n /\ j \in 1 .. m
    <2>1. j - 1 \in 0 .. k /\ ~(j <= j - 1) /\ j \in 1 .. n /\ j \in 1 .. m
      BY <1>3
    <2> HIDE DEF bad
    <2> QED BY <1>2, <2>1
  <1>5. g[j - 1] = h[j - 1]
    BY <1>4
  <1>6. g[j] = After(kind, document, g[j - 1]) /\ h[j] = After(kind, document, h[j - 1])
    BY <1>4 DEF RoundsTo
  <1> QED BY <1>3, <1>5, <1>6

\* There is a function of all the rounds, each made of the one before.
LEMMA RoundsAre ==
  ASSUME NEW kind, NEW document
  PROVE  \E F : F = [n \in Nat |-> IF n = 0 THEN First(kind, document) ELSE After(kind, document, F[n - 1])]
  <1> DEFINE Step(f) == [n \in Nat |-> IF n = 0 THEN First(kind, document) ELSE After(kind, document, f[n - 1])]
             G(n) == CHOOSE g : RoundsTo(kind, document, g, n)
             F == [n \in Nat |-> G(n)[n]]
  <1>1. \A n \in Nat : RoundsTo(kind, document, G(n), n)
    BY RoundsExist
  <1> HIDE DEF G
  <1>2. ASSUME NEW n \in Nat
        PROVE  F[n] = IF n = 0 THEN First(kind, document) ELSE After(kind, document, F[n - 1])
    <2>1. CASE n = 0
      BY <1>1, <2>1 DEF RoundsTo
    <2>2. CASE n # 0
      <3>1. n - 1 \in Nat /\ n \in 1 .. n /\ n - 1 \in 0 .. n /\ n - 1 \in 0 .. (n - 1)
        BY <2>2
      <3>2. RoundsTo(kind, document, G(n), n) /\ RoundsTo(kind, document, G(n - 1), n - 1)
        BY <1>1, <3>1
      <3>3. G(n)[n - 1] = G(n - 1)[n - 1]
        BY <3>1, <3>2, RoundsAgree
      <3>4. G(n)[n] = After(kind, document, G(n)[n - 1])
        BY <3>1, <3>2 DEF RoundsTo
      <3>5. F[n] = G(n)[n] /\ F[n - 1] = G(n - 1)[n - 1]
        BY <3>1
      <3> HIDE DEF F
      <3> QED BY <2>2, <3>3, <3>4, <3>5
    <2> QED BY <2>1, <2>2
  <1>3. F = Step(F)
    <2>1. DOMAIN F = Nat /\ F = [n \in Nat |-> F[n]]
      OBVIOUS
    <2> HIDE DEF F
    <2> QED BY <1>2, <2>1
  <1> HIDE DEF F
  <1> QED BY <1>3

\* A recursive function is what it says: a level is the children of the one before.
LEMMA LevelsGoOn ==
  ASSUME NEW document
  PROVE  /\ D!Levels(document)[0] = D!Tops(document)
         /\ \A n \in Nat : D!Levels(document)[n + 1] = D!Children(D!Levels(document)[n])
  <1> DEFINE Step(f) == [n \in Nat |-> IF n = 0 THEN D!Tops(document) ELSE D!Children(f[n - 1])]
             L == D!Levels(document)
  <1>1. PICK F : F = Step(F)
    <2>1. /\ First("levels", document) = D!Tops(document)
          /\ \A x : After("levels", document, x) = D!Children(x)
      BY DEF First, After
    <2> QED BY <2>1, RoundsAre
  <1>2. L = CHOOSE f : f = Step(f)
    BY Zenon DEF D!Levels
  <1>3. L = Step(L)
    <2> HIDE DEF Step
    <2> QED BY <1>1, <1>2, Zenon
  <1> HIDE DEF L
  <1>4. \A n \in Nat : L[n] = IF n = 0 THEN D!Tops(document) ELSE D!Children(L[n - 1])
    BY <1>3
  <1>5. ASSUME NEW n \in Nat PROVE L[n + 1] = D!Children(L[n])
    <2>1. n + 1 \in Nat /\ n + 1 # 0 /\ n + 1 - 1 = n
      OBVIOUS
    <2> QED BY <1>4, <2>1
  <1>6. L[0] = D!Tops(document)
    BY <1>4
  <1> QED BY <1>5, <1>6 DEF L

\* A component as the walk meets it: the subject, or one that is listed.
Subjects(document) == {[component |-> s, subject |-> TRUE] : s \in D!Range(document.subject)}
Met(components) == {[component |-> c, subject |-> FALSE] : c \in components}
Whole(document) == Subjects(document) \cup Met(D!Listed(document))
Starts(document) == Subjects(document) \cup Met(D!Range(document.components))
Below(x) == Met(D!Range(x.component.components))

CarrierOf(x) == D!Carrier(x.component, IF x.subject THEN D!Subject ELSE D!PackageKey(x.component))
CarriersOf(nodes) == {CarrierOf(x) : x \in {y \in nodes : y.component.ref # <<>>}}

\* A bill whose components are listed, as deep as the loader reads, and whose
\* entries clear versions.
CdxNested(document) ==
  /\ IsSequence(document.subject) /\ IsSequence(document.components)
  /\ \A x \in Whole(document) : IsSequence(x.component.components)
  /\ D!Levels(document)[MaxDepth + 1] = {}
  /\ \A v \in D!Range(document.vulnerabilities) :
       \A entry \in D!Range(v.affects) : D!None \notin entry.unaffected

\* What is listed starts with the document's own lists, and goes on with the
\* children of what is listed.
LEMMA WholeCloses ==
  ASSUME NEW document, CdxNested(document)
  PROVE  /\ Starts(document) \subseteq Whole(document)
         /\ \A x \in Whole(document) : Below(x) \subseteq Whole(document)
  <1>1. D!Tops(document) \subseteq D!Listed(document)
    <2>1. 0 \in 0 .. MaxDepth
      BY DepthAssumption
    <2>2. D!Levels(document)[0] = D!Tops(document)
      BY LevelsGoOn
    <2> QED BY <2>1, <2>2 DEF D!Listed
  <1>2. ASSUME NEW c \in D!Listed(document), NEW b \in D!Range(c.components) PROVE b \in D!Listed(document)
    <2>1. PICK n \in 0 .. MaxDepth : c \in D!Levels(document)[n]
      BY DEF D!Listed
    <2>2. b \in D!Levels(document)[n + 1]
      BY <2>1, LevelsGoOn DEF D!Children
    <2>3. n # MaxDepth
      BY <2>2 DEF CdxNested
    <2>4. n + 1 \in 0 .. MaxDepth
      BY <2>1, <2>3, DepthAssumption
    <2> QED BY <2>2, <2>4 DEF D!Listed
  <1>3. Starts(document) \subseteq Whole(document)
    BY <1>1 DEF Starts, Whole, Met, D!Tops
  <1>4. ASSUME NEW x \in Whole(document) PROVE Below(x) \subseteq Whole(document)
    <2>1. CASE x \in Subjects(document)
      <3>1. PICK s \in D!Range(document.subject) : x.component = s
        BY <2>1 DEF Subjects
      <3>2. D!Range(x.component.components) \subseteq D!Tops(document)
        BY <3>1 DEF D!Tops, D!Children
      <3> QED BY <1>1, <3>2 DEF Below, Met, Whole
    <2>2. CASE x \in Met(D!Listed(document))
      <3>1. x.component \in D!Listed(document)
        BY <2>2 DEF Met
      <3>2. D!Range(x.component.components) \subseteq D!Listed(document)
        BY <1>2, <3>1
      <3> QED BY <3>2 DEF Below, Met, Whole
    <2> QED BY <2>1, <2>2 DEF Whole
  <1> QED BY <1>3, <1>4

\* A walk that started there, and went on, missed none.
LEMMA WholeReached ==
  ASSUME NEW document, NEW seen, Starts(document) \subseteq seen, \A x \in seen : Below(x) \subseteq seen
  PROVE  Whole(document) \subseteq seen
  <1> DEFINE missed == {n \in Nat : ~(Met(D!Levels(document)[n]) \subseteq seen)}
  <1>1. missed = {}
    <2> SUFFICES ASSUME missed # {} PROVE FALSE
      OBVIOUS
    <2>1. PICK n \in missed : \A k \in missed : n <= k
      <3>1. missed \in SUBSET Nat
        OBVIOUS
      <3> HIDE DEF missed
      <3> QED BY <3>1, LeastOfNats
    <2>2. n \in Nat /\ ~(Met(D!Levels(document)[n]) \subseteq seen)
      BY <2>1
    <2>3. CASE n = 0
      <3>1. Met(D!Tops(document)) \subseteq seen
        <4> SUFFICES ASSUME NEW c \in D!Tops(document) PROVE [component |-> c, subject |-> FALSE] \in seen
          BY DEF Met
        <4>1. CASE c \in D!Range(document.components)
          BY <4>1 DEF Starts, Met
        <4>2. CASE c \notin D!Range(document.components)
          <5>1. PICK s \in D!Range(document.subject) : c \in D!Range(s.components)
            BY <4>2 DEF D!Tops, D!Children
          <5> DEFINE x == [component |-> s, subject |-> TRUE]
          <5>2. x \in seen /\ x.component = s
            BY DEF Starts, Subjects
          <5> HIDE DEF x
          <5>3. [component |-> c, subject |-> FALSE] \in Below(x)
            BY <5>1, <5>2 DEF Below, Met
          <5> QED BY <5>2, <5>3
        <4> QED BY <4>1, <4>2
      <3> QED BY <2>2, <2>3, <3>1, LevelsGoOn
    <2>4. CASE n # 0
      <3>1. n - 1 \in Nat /\ n - 1 \notin missed /\ n - 1 + 1 = n
        <4>1. n - 1 \in Nat /\ ~(n <= n - 1) /\ n - 1 + 1 = n
          BY <2>2, <2>4
        <4> HIDE DEF missed
        <4> QED BY <2>1, <4>1
      <3>2. Met(D!Levels(document)[n - 1]) \subseteq seen
        BY <3>1
      <3>3. D!Levels(document)[n] = D!Children(D!Levels(document)[n - 1])
        BY <3>1, LevelsGoOn
      <3>4. ASSUME NEW c \in D!Levels(document)[n] PROVE [component |-> c, subject |-> FALSE] \in seen
        <4>1. PICK b \in D!Levels(document)[n - 1] : c \in D!Range(b.components)
          BY <3>3 DEF D!Children
        <4> DEFINE x == [component |-> b, subject |-> FALSE]
        <4>2. x \in seen /\ x.component = b
          BY <3>2 DEF Met
        <4> HIDE DEF x
        <4>3. [component |-> c, subject |-> FALSE] \in Below(x)
          BY <4>1, <4>2 DEF Below, Met
        <4> QED BY <4>2, <4>3
      <3> QED BY <2>2, <3>4 DEF Met
    <2> QED BY <2>3, <2>4
  <1>2. ASSUME NEW c \in D!Listed(document) PROVE [component |-> c, subject |-> FALSE] \in seen
    <2>1. PICK n \in 0 .. MaxDepth : c \in D!Levels(document)[n]
      BY DEF D!Listed
    <2>2. Met(D!Levels(document)[n]) \subseteq seen
      BY <1>1
    <2> QED BY <2>1, <2>2 DEF Met
  <1> QED BY <1>2 DEF Whole, Starts, Met

\* What is in a list, of one that loses its head or is put before another.
LEMMA ListsJoined ==
  ASSUME NEW a, NEW b, IsSequence(a), IsSequence(b)
  PROVE  /\ IsSequence(a \o b) /\ D!Range(a \o b) = D!Range(a) \cup D!Range(b)
         /\ a # <<>> => /\ IsSequence(Tail(a)) /\ Head(a) \in D!Range(a)
                        /\ D!Range(a) = D!Range(Tail(a)) \cup {Head(a)}
  <1>1. a \in Seq(Range(a)) /\ b \in Seq(Range(b))
    BY DEF IsSequence
  <1>2. /\ a \in Seq(Range(a) \cup Range(b)) /\ b \in Seq(Range(a) \cup Range(b))
    BY <1>1
  <1> DEFINE T == Range(a) \cup Range(b)
  <1>3. a \in Seq(T) /\ b \in Seq(T)
    BY <1>2
  <1> HIDE DEF T
  <1>4. IsSequence(a \o b)
    <2>1. a \o b \in Seq(T)
      BY <1>3
    <2> QED BY <2>1, SequenceIs
  <1>5. /\ Len(a) \in Nat /\ Len(b) \in Nat /\ DOMAIN a = 1 .. Len(a) /\ DOMAIN b = 1 .. Len(b)
        /\ DOMAIN (a \o b) = 1 .. Len(a) + Len(b)
        /\ \A i \in 1 .. Len(a) + Len(b) : (a \o b)[i] = IF i <= Len(a) THEN a[i] ELSE b[i - Len(a)]
    BY <1>3
  <1>6. D!Range(a \o b) = D!Range(a) \cup D!Range(b)
    <2>1. ASSUME NEW i \in 1 .. Len(a) + Len(b) PROVE (a \o b)[i] \in D!Range(a) \cup D!Range(b)
      <3>1. i <= Len(a) => i \in DOMAIN a
        BY <1>5
      <3>2. ~(i <= Len(a)) => i - Len(a) \in DOMAIN b
        BY <1>5
      <3> QED BY <1>5, <3>1, <3>2 DEF D!Range
    <2>2. ASSUME NEW i \in DOMAIN a PROVE a[i] \in D!Range(a \o b)
      <3>1. i \in 1 .. Len(a) + Len(b) /\ i <= Len(a)
        BY <1>5
      <3>2. (a \o b)[i] = a[i]
        BY <1>5, <3>1
      <3> QED BY <1>5, <3>1, <3>2 DEF D!Range
    <2>3. ASSUME NEW i \in DOMAIN b PROVE b[i] \in D!Range(a \o b)
      <3>1. i + Len(a) \in 1 .. Len(a) + Len(b) /\ ~(i + Len(a) <= Len(a)) /\ i + Len(a) - Len(a) = i
        BY <1>5
      <3>2. (a \o b)[i + Len(a)] = b[i]
        BY <1>5, <3>1
      <3> QED BY <1>5, <3>1, <3>2 DEF D!Range
    <2> QED BY <1>5, <2>1, <2>2, <2>3 DEF D!Range
  <1>7. ASSUME a # <<>>
        PROVE  /\ IsSequence(Tail(a)) /\ Head(a) \in D!Range(a)
               /\ D!Range(a) = D!Range(Tail(a)) \cup {Head(a)}
    <2>1. /\ Tail(a) \in Seq(T) /\ Head(a) = a[1] /\ Len(a) \in Nat \ {0}
          /\ DOMAIN Tail(a) = 1 .. Len(a) - 1 /\ \A i \in 1 .. Len(a) - 1 : Tail(a)[i] = a[i + 1]
      BY <1>3, <1>7
    <2>2. IsSequence(Tail(a))
      BY <2>1, SequenceIs
    <2>3. 1 \in DOMAIN a
      BY <1>5, <2>1
    <2>4. ASSUME NEW i \in DOMAIN a PROVE a[i] \in D!Range(Tail(a)) \cup {Head(a)}
      <3>1. CASE i = 1
        BY <2>1, <3>1
      <3>2. CASE i # 1
        <4>1. i - 1 \in 1 .. Len(a) - 1 /\ i - 1 + 1 = i
          BY <1>5, <3>2
        <4> QED BY <2>1, <4>1 DEF D!Range
      <3> QED BY <3>1, <3>2
    <2>5. ASSUME NEW i \in DOMAIN Tail(a) PROVE Tail(a)[i] \in D!Range(a)
      <3>1. i + 1 \in DOMAIN a
        BY <1>5, <2>1
      <3> QED BY <2>1, <3>1 DEF D!Range
    <2> QED BY <2>1, <2>2, <2>3, <2>4, <2>5 DEF D!Range
  <1> QED BY <1>4, <1>6, <1>7

LEMMA PushedAre ==
  ASSUME NEW components, IsSequence(components), NEW subject
  PROVE  /\ IsSequence(D!Pushed(components, subject))
         /\ D!Range(D!Pushed(components, subject)) =
              {[component |-> c, subject |-> subject] : c \in D!Range(components)}
  <1> DEFINE pushed == D!Pushed(components, subject)
             T == {[component |-> c, subject |-> subject] : c \in D!Range(components)}
  <1>1. DOMAIN components = 1 .. Len(components) /\ Len(components) \in Nat
    BY DEF IsSequence
  <1>2. pushed = [i \in 1 .. Len(components) |-> [component |-> components[i], subject |-> subject]]
    BY <1>1 DEF D!Pushed
  <1>3. \A i \in 1 .. Len(components) : [component |-> components[i], subject |-> subject] \in T
    BY <1>1 DEF D!Range
  <1>4. pushed \in Seq(T)
    <2> HIDE DEF T
    <2> QED BY <1>1, <1>2, <1>3
  <1>5. IsSequence(pushed)
    BY <1>4, SequenceIs
  <1>6. D!Range(pushed) = T
    BY <1>1, <1>2 DEF D!Range
  <1> QED BY <1>5, <1>6

\* The components met so far, all of which could be read and are counted, when what
\* is below each of them is met or next.
Seen(p, document, seen) ==
  /\ \A x \in seen : x.component.sound
  /\ p.components \in Nat /\ (p.components = 0 <=> \A x \in seen : x.subject)
  /\ seen \subseteq Whole(document) /\ D!Range(p.pending) \subseteq Whole(document)
  /\ Starts(document) \subseteq seen \cup D!Range(p.pending)
  /\ \A x \in seen : Below(x) \subseteq seen \cup D!Range(p.pending)
  /\ p.index = CarriersOf(seen)

\* An entry for which a match ran.
Evident(document) ==
  \E v \in D!Range(document.vulnerabilities) : \E entry \in D!Range(v.affects) : D!MatchRan(document, v, entry)

\* The index is of the components met, and of all of them when a record is read;
\* and a record counts only for an entry for which a match ran.
Traced(p, document) ==
  /\ IsFiniteSet(p.index)
  /\ p.step = "index" => ~p.resolved
  /\ (p.step = "index" /\ ~D!HasErrors(p.diagnostics)) =>
       IsSequence(p.pending) /\ \E seen : Seen(p, document, seen)
  /\ p.step = "fold" => p.index = CarriersOf(Whole(document))
  /\ (p.step \in {"fold", "superseded", "scoped"} /\ ~D!HasErrors(p.diagnostics) /\ p.resolved) =>
       Evident(document)
  /\ p.step = "scoped" => \A c \in p.folds : c.key # D!ScopeKey(p)

LEMMA CdxStartTraced ==
  ASSUME NEW document, CdxNested(document)
  PROVE  Traced(D!CdxStart(document), document)
  <1> DEFINE p == D!CdxStart(document)
             subjects == D!Pushed(document.subject, TRUE)
             others == D!Pushed(document.components, FALSE)
  <1>1. /\ p.pending = subjects \o others /\ p.index = {} /\ p.resolved = FALSE
        /\ p.step \in {"rejected", "index"} /\ p.components = 0
    BY DEF D!CdxStart
  <1>2. /\ IsSequence(subjects) /\ D!Range(subjects) = Subjects(document)
        /\ IsSequence(others) /\ D!Range(others) = Met(D!Range(document.components))
    BY PushedAre DEF CdxNested, Subjects, Met
  <1> HIDE DEF p, subjects, others
  <1>3. IsSequence(p.pending) /\ D!Range(p.pending) = Starts(document)
    BY <1>1, <1>2, ListsJoined DEF Starts
  <1>4. CarriersOf({}) = {}
    BY DEF CarriersOf
  <1>5. Seen(p, document, {})
    BY <1>1, <1>3, <1>4, WholeCloses DEF Seen
  <1>6. IsFiniteSet(p.index)
    BY <1>1, FS_EmptySet
  <1> QED BY <1>1, <1>3, <1>5, <1>6 DEF Traced, p

\* A component that can be read is met, and what is below it is next.
LEMMA IndexTraced ==
  ASSUME NEW document, CdxNested(document), NEW p, DOMAIN p = CdxFields, Traced(p, document),
         p.step = "index", p.pending # <<>>
  PROVE  Traced(D!Index(p, document), document)
  <1> DEFINE q == D!Index(p, document)
             x == Head(p.pending)
             rest == [p EXCEPT !.pending = Tail(@)]
             below == D!Pushed(x.component.components, FALSE)
  <1>1. CASE ~x.component.sound
    <2>1. q = D!Faulted(rest, document, "invalid_component")
      BY <1>1 DEF D!Index
    <2>2. DOMAIN rest = CdxFields /\ rest.index = p.index /\ rest.resolved = p.resolved
      BY DEF CdxFields
    <2> HIDE DEF rest
    <2>3. /\ q.index = p.index /\ q.resolved = p.resolved
          /\ q.step = "rejected" \/ D!HasErrors(q.diagnostics)
          /\ q.step \in {"rejected", rest.step}
      <3>1. CASE D!Matched(document)
        <4>1. q = D!Added(rest, {D!Error("invalid_component")})
          BY <2>1, <3>1 DEF D!Faulted
        <4>2. /\ q.index = p.index /\ q.resolved = p.resolved /\ q.step = rest.step
              /\ D!Error("invalid_component") \in q.diagnostics
          BY <2>2, <4>1 DEF D!Added, CdxFields
        <4>3. D!Error("invalid_component").level = "ERROR"
          BY DEF D!Error
        <4> HIDE DEF q
        <4> QED BY <4>2, <4>3, ErrorsAre
      <3>2. CASE ~D!Matched(document)
        <4>1. q = [rest EXCEPT !.step = "rejected"]
          BY <2>1, <3>2 DEF D!Faulted
        <4> QED BY <2>2, <4>1 DEF CdxFields
      <3> QED BY <3>1, <3>2
    <2>4. rest.step = "index"
      BY DEF rest, CdxFields
    <2> HIDE DEF q
    <2>5. Traced(q, document)
      BY <2>3, <2>4 DEF Traced
    <2> QED BY <2>5 DEF q
  <1>2. CASE x.component.sound
    <2> DEFINE named == x.component.ref # <<>>
    <2>1. q = [p EXCEPT !.pending = below \o Tail(@),
                        !.components = IF x.subject THEN @ ELSE @ + 1,
                        !.index = IF named THEN @ \cup {CarrierOf(x)} ELSE @]
      BY <1>2 DEF D!Index, CarrierOf
    <2>2. /\ q.step = "index" /\ q.resolved = p.resolved /\ q.diagnostics = p.diagnostics
          /\ q.pending = below \o Tail(p.pending)
          /\ q.components = IF x.subject THEN p.components ELSE p.components + 1
          /\ q.index = IF named THEN p.index \cup {CarrierOf(x)} ELSE p.index
      BY <2>1 DEF CdxFields
    <2>3. IsFiniteSet(q.index)
      <3>1. IsFiniteSet(p.index)
        BY DEF Traced
      <3> HIDE DEF q, x
      <3> QED BY <2>2, <3>1, FS_AddElement
    <2>4. ASSUME ~D!HasErrors(p.diagnostics)
          PROVE  IsSequence(q.pending) /\ \E seen : Seen(q, document, seen)
      <3>1. IsSequence(p.pending)
        BY <2>4 DEF Traced
      <3>2. PICK seen : Seen(p, document, seen)
        BY <2>4 DEF Traced
      <3>3. /\ IsSequence(Tail(p.pending)) /\ x \in D!Range(p.pending)
            /\ D!Range(p.pending) = D!Range(Tail(p.pending)) \cup {x}
        BY <3>1, ListsJoined
      <3>4. x \in Whole(document)
        BY <3>2, <3>3 DEF Seen
      <3>5. IsSequence(below) /\ D!Range(below) = Below(x)
        <4>1. IsSequence(x.component.components)
          BY <3>4 DEF CdxNested
        <4> QED BY <4>1, PushedAre DEF Below, Met
      <3> HIDE DEF q, x, below
      <3>6. IsSequence(q.pending) /\ D!Range(q.pending) = Below(x) \cup D!Range(Tail(p.pending))
        BY <2>2, <3>3, <3>5, ListsJoined
      <3>7. Below(x) \subseteq Whole(document)
        BY <3>4, WholeCloses
      <3>8. CarriersOf(seen \cup {x}) = IF named THEN CarriersOf(seen) \cup {CarrierOf(x)} ELSE CarriersOf(seen)
        <4> HIDE DEF CarrierOf
        <4> QED BY DEF CarriersOf
      <3> DEFINE more == seen \cup {x}
      <3>9. seen \cup D!Range(p.pending) \subseteq more \cup D!Range(q.pending)
        BY <3>3, <3>6
      <3>10. /\ more \subseteq Whole(document) /\ D!Range(q.pending) \subseteq Whole(document)
             /\ Starts(document) \subseteq more \cup D!Range(q.pending)
        BY <3>2, <3>3, <3>4, <3>6, <3>7, <3>9 DEF Seen
      <3>11. ASSUME NEW y \in more PROVE Below(y) \subseteq more \cup D!Range(q.pending)
        <4>1. CASE y \in seen
          <5>1. Below(y) \subseteq seen \cup D!Range(p.pending)
            BY <3>2, <4>1 DEF Seen
          <5> QED BY <3>9, <5>1
        <4>2. CASE y = x
          BY <3>6, <4>2
        <4> QED BY <4>1, <4>2
      <3>12. q.index = CarriersOf(more)
        BY <2>2, <3>2, <3>8 DEF Seen
      <3>13. /\ \A y \in more : y.component.sound
             /\ q.components \in Nat /\ (q.components = 0 <=> \A y \in more : y.subject)
        <4>1. /\ p.components \in Nat /\ (p.components = 0 <=> \A y \in seen : y.subject)
              /\ \A y \in seen : y.component.sound
          BY <3>2 DEF Seen
        <4> QED BY <1>2, <2>2, <4>1 DEF x
      <3> HIDE DEF more
      <3>14. Seen(q, document, more)
        BY <3>10, <3>11, <3>12, <3>13 DEF Seen
      <3> QED BY <3>6, <3>14
    <2>5. ~q.resolved
      BY <2>2 DEF Traced
    <2> HIDE DEF q
    <2>6. Traced(q, document)
      BY <2>2, <2>3, <2>4, <2>5 DEF Traced
    <2> QED BY <2>6 DEF q
  <1> QED BY <1>1, <1>2

\* A record is read only when every component is in the index.
LEMMA ScopeTraced ==
  ASSUME NEW document, CdxNested(document), NEW p, DOMAIN p = CdxFields, Traced(p, document),
         p.step = "index", p.pending = <<>>
  PROVE  Traced(D!ReadScope(p, document), document)
  <1> DEFINE q == D!ReadScope(p, document)
  <1>1. /\ q.index = p.index /\ q.resolved = p.resolved
        /\ \/ q.step \in {"done", "rejected"}
           \/ ~D!HasErrors(p.diagnostics) /\ q.step \in {"bound", "fold"}
    BY ScopeReads
  <1> HIDE DEF q
  <1>2. ASSUME ~D!HasErrors(p.diagnostics) PROVE p.index = CarriersOf(Whole(document))
    <2>1. PICK seen : Seen(p, document, seen)
      BY <1>2 DEF Traced
    <2>2. D!Range(p.pending) = {}
      BY DEF D!Range
    <2>3. Whole(document) \subseteq seen
      BY <2>1, <2>2, WholeReached DEF Seen
    <2>4. Whole(document) = seen
      BY <2>1, <2>3 DEF Seen
    <2> QED BY <2>1, <2>4 DEF Seen
  <1>3. IsFiniteSet(p.index) /\ ~p.resolved
    BY DEF Traced
  <1>4. Traced(q, document)
    BY <1>1, <1>2, <1>3 DEF Traced
  <1> QED BY <1>4 DEF q

\* What the index of all has under a reference is of who bears it.
LEMMA RefIsOf ==
  ASSUME NEW document, NEW ref, NEW c \in CarriersOf(Whole(document)), c.ref = <<ref>>
  PROVE  \/ \E b \in D!Bearers(document, ref) : c = D!Carrier(b, D!PackageKey(b))
         \/ \E s \in D!Range(document.subject) : s.ref = <<ref>> /\ c = D!Carrier(s, D!Subject)
  <1>1. PICK x \in Whole(document) : c = CarrierOf(x)
    BY DEF CarriersOf
  <1>2. x.component.ref = <<ref>>
    BY <1>1 DEF CarrierOf, D!Carrier
  <1>3. CASE x \in Subjects(document)
    <2>1. x.subject /\ x.component \in D!Range(document.subject)
      BY <1>3 DEF Subjects
    <2>2. c = D!Carrier(x.component, D!Subject)
      BY <1>1, <2>1 DEF CarrierOf
    <2> QED BY <1>2, <2>1, <2>2
  <1>4. CASE x \in Met(D!Listed(document))
    <2>1. ~x.subject /\ x.component \in D!Listed(document)
      BY <1>4 DEF Met
    <2>2. c = D!Carrier(x.component, D!PackageKey(x.component))
      BY <1>1, <2>1 DEF CarrierOf
    <2>3. x.component \in D!Bearers(document, ref)
      BY <1>2, <2>1 DEF D!Bearers
    <2> QED BY <2>2, <2>3
  <1> QED BY <1>3, <1>4 DEF Whole

\* Whoever bears a reference is in the index of all, and no one else under it.
LEMMA RefsBorne ==
  ASSUME NEW document, NEW ref
  PROVE  /\ \A b \in D!Bearers(document, ref) :
              D!Carrier(b, D!PackageKey(b)) \in CarriersOf(Whole(document))
         /\ \A s \in D!Range(document.subject) :
              s.ref = <<ref>> => D!Carrier(s, D!Subject) \in CarriersOf(Whole(document))
         /\ (\E c \in CarriersOf(Whole(document)) : c.ref = <<ref>>) <=> D!Borne(document, ref)
  <1> DEFINE all == CarriersOf(Whole(document))
  <1>1. <<ref>> # <<>>
    OBVIOUS
  <1>2. \A c, target : D!Carrier(c, target).ref = c.ref
    BY DEF D!Carrier
  <1>3. ASSUME NEW b \in D!Bearers(document, ref) PROVE D!Carrier(b, D!PackageKey(b)) \in all
    <2> DEFINE x == [component |-> b, subject |-> FALSE]
    <2>1. b \in D!Listed(document) /\ b.ref = <<ref>>
      BY DEF D!Bearers
    <2>2. x \in Whole(document) /\ x.component = b /\ ~x.subject
      BY <2>1 DEF Whole, Met
    <2> HIDE DEF x
    <2>3. CarrierOf(x) = D!Carrier(b, D!PackageKey(b))
      BY <2>2 DEF CarrierOf
    <2>4. CarrierOf(x) \in all
      BY <1>1, <2>1, <2>2 DEF CarriersOf
    <2> QED BY <2>3, <2>4
  <1>4. ASSUME NEW s \in D!Range(document.subject), s.ref = <<ref>> PROVE D!Carrier(s, D!Subject) \in all
    <2> DEFINE x == [component |-> s, subject |-> TRUE]
    <2>1. x \in Whole(document) /\ x.component = s /\ x.subject
      BY DEF Whole, Subjects
    <2> HIDE DEF x
    <2>2. CarrierOf(x) = D!Carrier(s, D!Subject)
      BY <2>1 DEF CarrierOf
    <2>3. CarrierOf(x) \in all
      BY <1>1, <1>4, <2>1 DEF CarriersOf
    <2> QED BY <2>2, <2>3
  <1>5. \A c \in all : c.ref = <<ref>> =>
          \/ D!Bearers(document, ref) # {}
          \/ \E s \in D!Range(document.subject) : s.ref = <<ref>>
    BY RefIsOf
  <1> HIDE DEF all
  <1>6. ASSUME NEW c \in all, c.ref = <<ref>> PROVE D!Borne(document, ref)
    BY <1>5, <1>6 DEF D!Borne
  <1>7. ASSUME D!Borne(document, ref) PROVE \E c \in all : c.ref = <<ref>>
    <2>1. CASE D!Bearers(document, ref) # {}
      <3>1. PICK b \in D!Bearers(document, ref) : TRUE
        BY <2>1
      <3>2. b.ref = <<ref>>
        BY DEF D!Bearers
      <3> QED BY <1>2, <1>3, <3>2
    <2>2. CASE D!Bearers(document, ref) = {}
      <3>1. PICK s \in D!Range(document.subject) : s.ref = <<ref>>
        BY <1>7, <2>2 DEF D!Borne
      <3> QED BY <1>2, <1>4, <3>1
    <2> QED BY <2>1, <2>2
  <1> QED BY <1>3, <1>4, <1>6, <1>7 DEF all

\* Of a finite set of no more than one element, two are one.
LEMMA AllOne ==
  ASSUME NEW some, IsFiniteSet(some), ~(Cardinality(some) > 1), NEW a \in some, NEW b \in some
  PROVE  a = b
  <1> SUFFICES ASSUME a # b PROVE FALSE
    OBVIOUS
  <1>1. IsFiniteSet({a}) /\ Cardinality({a}) = 1
    BY FS_Singleton
  <1>2. IsFiniteSet({a} \cup {b}) /\ Cardinality({a} \cup {b}) = 2
    BY <1>1, FS_AddElement
  <1>3. Cardinality({a} \cup {b}) <= Cardinality(some)
    <2>1. {a} \cup {b} \in SUBSET some
      OBVIOUS
    <2> QED BY <2>1, FS_Subset
  <1>4. Cardinality(some) \in Nat
    BY FS_CardinalityType
  <1> QED BY <1>2, <1>3, <1>4

\* A record counts only for an entry for which a match ran.
LEMMA CountsMatch ==
  ASSUME NEW document, NEW p, IsFiniteSet(p.index), p.index = CarriersOf(Whole(document)),
         NEW v, NEW entry, D!None \notin entry.unaffected,
         D!Counts(v, entry, D!Resolve(D!Carriers(p, document, entry.ref)))
  PROVE  D!MatchRan(document, v, entry)
  <1> DEFINE ref == D!Meant(document, entry.ref)
             carriers == D!Carriers(p, document, entry.ref)
             targets == {c.target : c \in carriers}
             bearers == D!Bearers(document, ref)
  <1>1. D!Target(p, document, entry.ref) = ref
    <2>1. (\E c \in p.index : c.ref = <<entry.ref>>) <=> D!Borne(document, entry.ref)
      BY RefsBorne
    <2> QED BY <2>1 DEF D!Target, D!Meant
  <1>2. carriers = {c \in p.index : c.ref = <<ref>>}
    BY <1>1 DEF D!Carriers
  <1>3. ~D!Conflict(carriers) /\ D!Resolve(carriers) = carriers /\ carriers # {}
    BY DEF D!Counts, D!Resolve
  <1>4. /\ D!Subject \notin targets
        /\ D!Unjudged(v) /\ ~D!Contradicted(entry, carriers)
    BY <1>3 DEF D!Counts
  <1>5. IsFiniteSet(targets)
    <2>1. IsFiniteSet(carriers)
      <3>1. carriers \in SUBSET p.index
        BY <1>2
      <3> QED BY <3>1, FS_Subset
    <2> DEFINE f == [c \in carriers |-> c.target]
    <2>2. f \in Surjection(carriers, targets)
      BY DEF Surjection
    <2> HIDE DEF carriers, targets, f
    <2> QED BY <2>1, <2>2, FS_Surjection
  <1>6. ~(Cardinality(targets) > 1)
    BY <1>3, CountedAlike DEF D!Conflict
  <1> HIDE DEF ref
  <1>7. \A b \in bearers : D!Carrier(b, D!PackageKey(b)) \in carriers
    <2>1. \A b \in bearers : D!Carrier(b, D!PackageKey(b)) \in p.index /\ b.ref = <<ref>>
      BY RefsBorne DEF D!Bearers
    <2> QED BY <1>2, <2>1 DEF D!Carrier
  <1>8. ASSUME NEW s \in D!Range(document.subject), s.ref = <<ref>> PROVE FALSE
    <2> DEFINE c == D!Carrier(s, D!Subject)
    <2>1. c \in p.index
      BY <1>8, RefsBorne
    <2>2. c.ref = <<ref>> /\ c.target = D!Subject
      BY <1>8 DEF D!Carrier
    <2> HIDE DEF c
    <2>3. c \in carriers
      BY <1>2, <2>1, <2>2
    <2> HIDE DEF carriers
    <2> QED BY <1>4, <2>2, <2>3
  <1>9. bearers # {}
    <2>1. PICK c \in carriers : TRUE
      BY <1>3
    <2>2. c \in CarriersOf(Whole(document)) /\ c.ref = <<ref>>
      BY <1>2
    <2>3. \/ \E b \in bearers : c = D!Carrier(b, D!PackageKey(b))
          \/ \E s \in D!Range(document.subject) : s.ref = <<ref>> /\ c = D!Carrier(s, D!Subject)
      BY <2>2, RefIsOf
    <2> QED BY <1>8, <2>3
  <1>10. ASSUME NEW c \in bearers, NEW d \in bearers
         PROVE  D!PackageKey(c) = D!PackageKey(d) /\ c.version \notin entry.unaffected
    <2> DEFINE one == D!Carrier(c, D!PackageKey(c))
               two == D!Carrier(d, D!PackageKey(d))
    <2>1. one \in carriers /\ two \in carriers
      BY <1>7
    <2>2. one.target = D!PackageKey(c) /\ two.target = D!PackageKey(d) /\ one.version = c.version
      BY DEF D!Carrier
    <2> HIDE DEF one, two, carriers
    <2>3. one.target \in targets /\ two.target \in targets
      BY <2>1
    <2> HIDE DEF targets
    <2>4. one.target = two.target
      BY <1>5, <1>6, <2>3, AllOne
    <2>5. one.version \notin entry.unaffected
      BY <1>4, <2>1 DEF D!Contradicted
    <2> QED BY <2>2, <2>4, <2>5
  <1>11. v.state \in D!MatchStates \/ (v.state = D!None /\ ~v.judged)
    BY <1>4 DEF D!Unjudged
  <1> HIDE DEF bearers, carriers, targets
  <1>12. /\ bearers # {} /\ \A s \in D!Range(document.subject) : s.ref # <<ref>>
         /\ \A c, d \in bearers : D!PackageKey(c) = D!PackageKey(d) /\ c.version \notin entry.unaffected
    BY <1>8, <1>9, <1>10
  <1> QED BY <1>11, <1>12 DEF D!MatchRan, ref, bearers

\* An entry leaves the index, and counts only when a match ran for it.
LEMMA AffectTraced ==
  ASSUME NEW document, NEW p, DOMAIN p = CdxFields, p.step = "fold",
         IsFiniteSet(p.index), p.index = CarriersOf(Whole(document)),
         NEW v, NEW entry
  PROVE  LET q == D!Affect(p, document, v, entry) IN
         /\ q.index = p.index
         /\ q.resolved /\ D!None \notin entry.unaffected => p.resolved \/ D!MatchRan(document, v, entry)
  <1> DEFINE carriers == D!Carriers(p, document, entry.ref)
             named == D!Resolve(carriers)
             target == IF named = {} THEN D!RefKey(entry.ref) ELSE (CHOOSE c \in named : TRUE).target
             resource == IF target = D!Subject THEN p.scope ELSE <<"package", p.scope[1], p.lineage, target>>
             located == D!Added(p, D!When(D!Conflict(carriers), D!Warning("bom_ref_conflict"))
                                   \cup D!When(named = {}, D!Warning("affects_unresolved"))
                                   \cup D!When(D!Weak(target), D!Warning("package_identity_weak")))
             faulty == D!Added(located, {D!Error("identity_input_invalid")})
             noted == D!Added(located, D!When(D!Contradicted(entry, named), D!Warning("affects_version_unaffected")))
             ran == D!Counts(v, entry, named)
             counted == [noted EXCEPT !.resolved = @ \/ ran]
             candidate == D!CdxCandidate(v, <<p.at, p.entry>>, resource, IF target = D!Subject THEN {} ELSE named)
             Holds(q) == DOMAIN q = CdxFields /\ q.index = p.index /\ q.resolved = p.resolved
  <1>1. D!Affect(p, document, v, entry) = faulty \/ D!Affect(p, document, v, entry) = D!Put(counted, candidate)
    BY Zenon DEF D!Affect
  <1>2. ran /\ D!None \notin entry.unaffected => D!MatchRan(document, v, entry)
    BY CountsMatch
  <1>3. ASSUME NEW q, Holds(q), NEW more PROVE Holds(D!Added(q, more))
    BY <1>3 DEF D!Added, CdxFields
  <1>4. Holds(p)
    OBVIOUS
  <1> HIDE DEF ran, candidate
  <1>5. Holds(located)
    <2> HIDE DEF Holds
    <2> QED BY <1>3, <1>4
  <1> HIDE DEF located
  <1>6. Holds(faulty) /\ Holds(noted)
    <2> HIDE DEF Holds
    <2> QED BY <1>3, <1>5
  <1> HIDE DEF faulty, noted
  <1>7. DOMAIN counted = CdxFields /\ counted.index = p.index /\ (counted.resolved => p.resolved \/ ran)
    BY <1>6 DEF CdxFields
  <1> HIDE DEF counted
  <1>8. LET q == D!Put(counted, candidate) IN q.index = p.index /\ (q.resolved => p.resolved \/ ran)
    BY <1>7 DEF D!Put, CdxFields
  <1> QED BY <1>1, <1>2, <1>6, <1>8

\* A step of the records that leaves the index leaves the walk traced.
LEMMA RecordsTraced ==
  ASSUME NEW document, NEW p, Traced(p, document), p.step = "fold",
         NEW r, r.step \in {"fold", "bound"}, r.index = p.index,
         (~D!HasErrors(r.diagnostics) /\ r.resolved) => Evident(document)
  PROVE  Traced(r, document)
  BY DEF Traced

\* One entry of a record.
LEMMA EntryTraced ==
  ASSUME NEW document, CdxListed(document), CdxNested(document),
         NEW p, CdxKept(p, document), Traced(p, document), p.step = "fold",
         p.at \in DOMAIN document.vulnerabilities, p.entry # 0
  PROVE  Traced(D!Entry(p, document), document)
  <1> DEFINE v == document.vulnerabilities[p.at]
             entry == v.affects[p.entry]
             q == D!Affect(p, document, v, entry)
             last == p.entry = Len(v.affects)
             r == D!Entry(p, document)
  <1>1. r = IF last THEN D!NextRecord(q) ELSE [q EXCEPT !.entry = @ + 1]
    BY DEF D!Entry
  <1>2. DOMAIN p = CdxFields /\ IsFiniteSet(p.index) /\ p.index = CarriersOf(Whole(document))
    BY DEF CdxKept, Traced
  <1>3. /\ DOMAIN q = CdxFields /\ q.step \in {"fold", "bound"} /\ p.diagnostics \subseteq q.diagnostics
    <2> HIDE DEF v, entry
    <2> QED BY <1>2, AffectAdds
  <1>4. ASSUME ~D!HasErrors(p.diagnostics)
        PROVE  v \in D!Range(document.vulnerabilities) /\ entry \in D!Range(v.affects)
    <2>1. Tallied(p, document)
      BY <1>4 DEF CdxKept
    <2>2. p.entry \in 1 .. Len(v.affects)
      BY <2>1 DEF Tallied
    <2>3. v \in Range(document.vulnerabilities)
      BY DEF Range
    <2>4. DOMAIN v.affects = 1 .. Len(v.affects)
      BY <2>3 DEF CdxListed, IsSequence
    <2> HIDE DEF v
    <2> QED BY <2>2, <2>3, <2>4 DEF Range, D!Range
  <1> HIDE DEF entry, v
  <1>5. ASSUME ~D!HasErrors(p.diagnostics) PROVE q.resolved => Evident(document)
    <2>1. D!None \notin entry.unaffected
      BY <1>4, <1>5 DEF CdxNested
    <2>2. q.resolved => p.resolved \/ D!MatchRan(document, v, entry)
      BY <1>2, <2>1, AffectTraced
    <2>3. p.resolved => Evident(document)
      BY <1>5 DEF Traced
    <2> HIDE DEF q
    <2> QED BY <1>4, <1>5, <2>2, <2>3 DEF Evident
  <1>6. q.index = p.index
    <2> HIDE DEF entry, v
    <2> QED BY <1>2, AffectTraced
  <1> HIDE DEF q, last
  <1>7. /\ r.index = q.index /\ r.step = q.step /\ r.resolved = q.resolved
        /\ r.diagnostics = q.diagnostics
    BY <1>1, <1>3 DEF D!NextRecord, CdxFields
  <1> HIDE DEF r
  <1>8. ~D!HasErrors(r.diagnostics) => ~D!HasErrors(p.diagnostics)
    BY <1>3, <1>7, ErrorsStay
  <1>9. Traced(r, document)
    BY <1>3, <1>5, <1>6, <1>7, <1>8, RecordsTraced
  <1> QED BY <1>9 DEF r

\* One record, before its entries.
LEMMA RecordTraced ==
  ASSUME NEW document, NEW p, DOMAIN p = CdxFields, Traced(p, document), p.step = "fold"
  PROVE  Traced(D!Record(p, document), document)
  <1> DEFINE v == document.vulnerabilities[p.at]
             q == D!Added(p, D!AnalysisCodes(v) \cup D!When(v.unfixed, D!Warning("response_will_not_fix")))
             faulty == D!Added(p, D!RecordErrors(v))
             missing == D!Added(q, {D!Warning("affects_missing")})
             c == D!CdxCandidate(v, <<p.at, 0>>, p.scope, {})
             put == D!Put(missing, c)
             r == D!Record(p, document)
             Holds(s) == /\ DOMAIN s = CdxFields /\ s.index = p.index /\ s.resolved = p.resolved
                         /\ p.diagnostics \subseteq s.diagnostics
             Going(s) == Holds(s) /\ s.step \in {"fold", "bound"}
  <1>1. r = IF D!RecordErrors(v) # {} THEN D!NextRecord(faulty)
            ELSE IF v.affects = <<>> THEN D!NextRecord(put) ELSE [q EXCEPT !.entry = 1]
    BY DEF D!Record
  <1>2. ASSUME NEW s, Holds(s), s.step = "fold", NEW more
        PROVE  Holds(D!Added(s, more)) /\ D!Added(s, more).step = "fold"
    BY <1>2 DEF D!Added, CdxFields
  <1>3. Holds(p) /\ p.step = "fold"
    OBVIOUS
  <1>4. Holds(q) /\ q.step = "fold" /\ Holds(faulty) /\ faulty.step = "fold"
    <2> HIDE DEF Holds
    <2> QED BY <1>2, <1>3
  <1> HIDE DEF q, faulty
  <1>5. Holds(missing) /\ missing.step = "fold"
    <2> HIDE DEF Holds
    <2> QED BY <1>2, <1>4
  <1> HIDE DEF missing, c
  <1>6. Going(put)
    BY <1>5 DEF D!Put, CdxFields
  <1> HIDE DEF put
  <1>7. Going(r)
    <2>1. ASSUME NEW s, Going(s) PROVE Going(D!NextRecord(s)) /\ Going([s EXCEPT !.entry = 1])
      BY <2>1 DEF D!NextRecord, CdxFields
    <2>2. Going(q) /\ Going(faulty)
      BY <1>4
    <2> HIDE DEF Going, r
    <2> QED BY <1>1, <1>6, <2>1, <2>2
  <1> HIDE DEF r
  <1>8. ~D!HasErrors(r.diagnostics) => ~D!HasErrors(p.diagnostics)
    BY <1>7, ErrorsStay
  <1>9. (~D!HasErrors(p.diagnostics) /\ p.resolved) => Evident(document)
    BY DEF Traced
  <1>10. Traced(r, document)
    BY <1>7, <1>8, <1>9, RecordsTraced
  <1> QED BY <1>10 DEF r

\* A walk that ends on its subject leaves it no finding of its identity.
LEMMA CloseTraced ==
  ASSUME NEW document, NEW p, DOMAIN p = CdxFields, Traced(p, document), p.step = "fold"
  PROVE  Traced(D!Close(p), document)
  <1> DEFINE q == D!Close(p)
             taken == \E c \in p.folds : c.key = D!ScopeKey(p)
  <1>1. /\ q.index = p.index /\ q.resolved = p.resolved /\ q.folds = p.folds /\ q.scope = p.scope
        /\ q.diagnostics = p.diagnostics
        /\ q.step \in {"done", "superseded", "bound", "scoped"}
        /\ q.step = "scoped" => ~taken
    <2> HIDE DEF taken
    <2>1. q = [p EXCEPT !.step = IF D!HasErrors(p.diagnostics) THEN "done"
                     ELSE IF taken THEN "superseded"
                     ELSE IF D!Cardinality({c.key : c \in p.folds}) + 1 > MaxObservations THEN "bound"
                     ELSE "scoped"]
      BY DEF D!Close, taken
    <2> QED BY <2>1 DEF CdxFields
  <1> HIDE DEF q
  <1>2. D!ScopeKey(q) = D!ScopeKey(p)
    BY <1>1 DEF D!ScopeKey
  <1>3. Traced(q, document)
    BY <1>1, <1>2 DEF Traced
  <1> QED BY <1>3 DEF q

\* A step of the walk leaves it traced.
LEMMA CdxStepTraced ==
  ASSUME NEW document, CdxListed(document), CdxNested(document),
         NEW p, CdxKept(p, document), Traced(p, document), D!Walking(p)
  PROVE  Traced(D!Stepped(p, document), document)
  <1>1. p.step \in {"index", "fold"} /\ DOMAIN p = CdxFields
    BY DEF D!Walking, CdxKept
  <1>2. CASE p.step = "index" /\ p.pending # <<>>
    BY <1>1, <1>2, IndexTraced DEF D!Stepped
  <1>3. CASE p.step = "index" /\ p.pending = <<>>
    BY <1>1, <1>3, ScopeTraced DEF D!Stepped
  <1>4. CASE p.step = "fold" /\ p.at \in DOMAIN document.vulnerabilities
    <2>1. D!Stepped(p, document) = IF p.entry = 0 THEN D!Record(p, document) ELSE D!Entry(p, document)
      BY <1>4 DEF D!Stepped
    <2> QED BY <1>1, <1>4, <2>1, RecordTraced, EntryTraced
  <1>5. CASE p.step = "fold" /\ p.at \notin DOMAIN document.vulnerabilities
    BY <1>1, <1>5, CloseTraced DEF D!Stepped
  <1> QED BY <1>1, <1>2, <1>3, <1>4, <1>5

\* A PASS of a document is an entry of a record for which a match ran, and no
\* other observation has its identity.
LEMMA EvidenceFound ==
  ASSUME CdxKept(parse, doc), Traced(parse, doc)
  PROVE  D!MatchIsEvidence
  <1> SUFFICES ASSUME D!Imports
               PROVE  /\ \A o, q \in D!Observed : o.key = q.key => o = q
                      /\ \A o \in D!Observed : o.disposition = "PASS" =>
                           o.key = D!ScopeKey(parse) /\ Evident(doc)
    BY DEF D!MatchIsEvidence, Evident
  <1> DEFINE Those(key) == {c \in parse.folds : c.key = key}
             Fold(key) == D!AssembleFold(key, Those(key))
             keys == {c.key : c \in parse.folds}
             scope == D!ScopeObservation(parse)
  <1>1. D!Folded(parse) = {Fold(key) : key \in keys}
    BY DEF D!Folded
  <1>2. \A key : Fold(key).key = key /\ Fold(key).disposition = "OPEN"
    <2> HIDE DEF Those
    <2> QED BY FoldIs
  <1> HIDE DEF Fold
  <1>3. scope.key = D!ScopeKey(parse) /\ (scope.disposition = "PASS" => parse.resolved)
    BY DEF D!ScopeObservation
  <1> HIDE DEF scope
  <1>4. D!Observed = {Fold(key) : key \in keys} \cup (IF parse.step = "scoped" THEN {scope} ELSE {})
    BY <1>1, ObservedAre DEF scope
  <1>5. parse.step = "scoped" => scope.key \notin keys
    BY <1>3 DEF Traced
  <1>6. parse.resolved => Evident(doc)
    BY DEF Traced, CdxKept, D!Imports
  <1> HIDE DEF keys
  <1>7. ASSUME NEW o \in D!Observed, NEW q \in D!Observed, o.key = q.key PROVE o = q
    BY <1>2, <1>4, <1>5, <1>7
  <1>8. ASSUME NEW o \in D!Observed, o.disposition = "PASS"
        PROVE  o.key = D!ScopeKey(parse) /\ Evident(doc)
    <2>1. o = scope
      BY <1>2, <1>4, <1>8
    <2> QED BY <1>3, <1>6, <1>8, <2>1
  <1> QED BY <1>7, <1>8

-----------------------------------------------------------------------------
(* What a bill shows is of the bill, whatever the order of the walk over it. *)

\* The components of a document a reference leads to, and what it is a row of.
Everything(document) == [index |-> CarriersOf(Whole(document))]
Leads(document, ref) == D!Resolve(D!Carriers(Everything(document), document, ref))
RowOf(document, ref) ==
  LET named == Leads(document, ref) IN
  IF named = {} THEN D!RefKey(ref) ELSE (CHOOSE c \in named : TRUE).target

\* One statement of a document: a record on its subject, or one of its entries.
Statement(document, i, k) ==
  LET v == document.vulnerabilities[i]
      scope == ScopeOf(document)
      ref == v.affects[k].ref
      row == RowOf(document, ref)
      onSubject == row = D!Subject
  IN IF v.affects = <<>> THEN D!CdxCandidate(v, <<i, k>>, scope.resource, {})
     ELSE D!CdxCandidate(v, <<i, k>>,
            IF onSubject THEN scope.resource ELSE <<"package", scope.resource[1], scope.lineage, row>>,
            IF onSubject THEN {} ELSE Leads(document, ref))

\* A statement for which a match ran.
MatchAt(document, i, k) ==
  LET v == document.vulnerabilities[i] IN
  v.affects # <<>> /\ D!MatchRan(document, v, v.affects[k])

\* Once the subject is read and while no error is found, a candidate is a
\* statement of the document, and a match ran exactly when it ran for one of them.
\* At the end the index was of finitely many.
Exact(p, document) ==
  /\ (p.step \in {"fold", "superseded", "scoped"} /\ ~D!HasErrors(p.diagnostics)) =>
       /\ p.scope = ScopeOf(document).resource /\ p.lineage = ScopeOf(document).lineage
       /\ \A c \in p.folds : c = Statement(document, c.place[1], c.place[2])
       /\ p.resolved <=> \E c \in p.folds : MatchAt(document, c.place[1], c.place[2])
  /\ p.step = "superseded" => \E c \in p.folds : c.key = D!ScopeKey(p)
  /\ p.step \in {"superseded", "scoped"} => IsFiniteSet(CarriersOf(Whole(document)))

\* A record counts exactly for an entry for which a match ran.
LEMMA CountsExactly ==
  ASSUME NEW document, IsFiniteSet(CarriersOf(Whole(document))),
         NEW v, NEW entry, D!None \notin entry.unaffected
  PROVE  D!Counts(v, entry, Leads(document, entry.ref)) <=> D!MatchRan(document, v, entry)
  <1> DEFINE p == Everything(document)
             ref == D!Meant(document, entry.ref)
             carriers == D!Carriers(p, document, entry.ref)
             bearers == D!Bearers(document, ref)
  <1>1. p.index = CarriersOf(Whole(document))
    BY DEF Everything
  <1>2. D!Counts(v, entry, Leads(document, entry.ref)) => D!MatchRan(document, v, entry)
    BY <1>1, CountsMatch DEF Leads
  <1> SUFFICES ASSUME D!MatchRan(document, v, entry) PROVE D!Counts(v, entry, Leads(document, entry.ref))
    BY <1>2
  <1>3. /\ v.state \in D!MatchStates \/ (v.state = D!None /\ ~v.judged)
        /\ bearers # {} /\ \A s \in D!Range(document.subject) : s.ref # <<ref>>
        /\ \A c, d \in bearers : D!PackageKey(c) = D!PackageKey(d) /\ c.version \notin entry.unaffected
    BY DEF D!MatchRan
  <1>4. D!Target(p, document, entry.ref) = ref
    <2>1. (\E c \in p.index : c.ref = <<entry.ref>>) <=> D!Borne(document, entry.ref)
      BY <1>1, RefsBorne
    <2> HIDE DEF p
    <2> QED BY <2>1 DEF D!Target, D!Meant
  <1> HIDE DEF p
  <1>5. carriers = {c \in p.index : c.ref = <<ref>>}
    BY <1>4 DEF D!Carriers
  <1> HIDE DEF ref
  <1>6. carriers # {}
    <2>1. PICK b \in bearers : TRUE
      BY <1>3
    <2>2. D!Carrier(b, D!PackageKey(b)) \in p.index /\ b.ref = <<ref>>
      BY <1>1, RefsBorne DEF D!Bearers
    <2>3. D!Carrier(b, D!PackageKey(b)).ref = <<ref>>
      BY <2>2 DEF D!Carrier
    <2> QED BY <1>5, <2>2, <2>3
  <1>7. ASSUME NEW c \in carriers PROVE \E b \in bearers : c = D!Carrier(b, D!PackageKey(b))
    <2>1. c \in CarriersOf(Whole(document)) /\ c.ref = <<ref>>
      BY <1>1, <1>5
    <2>2. \/ \E b \in bearers : c = D!Carrier(b, D!PackageKey(b))
          \/ \E s \in D!Range(document.subject) : s.ref = <<ref>> /\ c = D!Carrier(s, D!Subject)
      BY <2>1, RefIsOf
    <2> QED BY <1>3, <2>2
  <1>8. \A b : D!Carrier(b, D!PackageKey(b)).target = D!PackageKey(b) /\ D!Carrier(b, D!PackageKey(b)).version = b.version
    BY DEF D!Carrier
  <1> HIDE DEF bearers, carriers
  <1>9. PICK one \in carriers : TRUE
    BY <1>6
  <1>10. \A c \in carriers : c.target = one.target /\ c.version \notin entry.unaffected
    BY <1>3, <1>7, <1>8, <1>9
  <1>11. one.target # D!Subject
    <2>1. \A b : D!PackageKey(b) # D!Subject
      <3> TAKE b
      <3>1. D!PackageKey(b)[1] \in {"pkg", "component"}
        BY DEF D!PackageKey, D!PurlKey
      <3>2. D!Subject[1] = "subject"
        BY DEF D!Subject
      <3> QED BY <3>1, <3>2
    <2> QED BY <1>7, <1>8, <1>9, <2>1
  <1>12. ~D!Conflict(carriers)
    <2>1. {c.target : c \in carriers} = {one.target}
      BY <1>9, <1>10
    <2>2. Cardinality({one.target}) = 1
      BY FS_Singleton
    <2> QED BY <2>1, <2>2, CountedAlike DEF D!Conflict
  <1>13. Leads(document, entry.ref) = carriers
    BY <1>12 DEF Leads, D!Resolve, carriers, p
  <1>14. D!Unjudged(v)
    <2>1. D!None \notin D!MatchStates
      BY DEF D!MatchStates, D!None
    <2> QED BY <1>3, <2>1 DEF D!Unjudged
  <1>15. D!Subject \notin {c.target : c \in carriers} /\ ~D!Contradicted(entry, carriers)
    BY <1>10, <1>11 DEF D!Contradicted
  <1> QED BY <1>6, <1>13, <1>14, <1>15 DEF D!Counts

\* An entry that adds no error adds its statement.
LEMMA AffectExact ==
  ASSUME NEW document, NEW p, DOMAIN p = CdxFields, p.step = "fold",
         p.index = CarriersOf(Whole(document)), IsFiniteSet(p.index),
         p.scope = ScopeOf(document).resource, p.lineage = ScopeOf(document).lineage,
         p.at \in DOMAIN document.vulnerabilities,
         document.vulnerabilities[p.at].affects # <<>>,
         D!None \notin document.vulnerabilities[p.at].affects[p.entry].unaffected
  PROVE  LET v == document.vulnerabilities[p.at]
             q == D!Affect(p, document, v, v.affects[p.entry])
         IN /\ q.scope = p.scope /\ q.lineage = p.lineage
            /\ \/ q.step = "bound" \/ D!HasErrors(q.diagnostics)
               \/ /\ q.folds = p.folds \cup {Statement(document, p.at, p.entry)}
                  /\ q.resolved <=> p.resolved \/ MatchAt(document, p.at, p.entry)
  <1> DEFINE v == document.vulnerabilities[p.at]
             entry == v.affects[p.entry]
             carriers == D!Carriers(p, document, entry.ref)
             named == D!Resolve(carriers)
             target == IF named = {} THEN D!RefKey(entry.ref) ELSE (CHOOSE c \in named : TRUE).target
             resource == IF target = D!Subject THEN p.scope ELSE <<"package", p.scope[1], p.lineage, target>>
             located == D!Added(p, D!When(D!Conflict(carriers), D!Warning("bom_ref_conflict"))
                                   \cup D!When(named = {}, D!Warning("affects_unresolved"))
                                   \cup D!When(D!Weak(target), D!Warning("package_identity_weak")))
             faulty == D!Added(located, {D!Error("identity_input_invalid")})
             noted == D!Added(located, D!When(D!Contradicted(entry, named), D!Warning("affects_version_unaffected")))
             ran == D!Counts(v, entry, named)
             counted == [noted EXCEPT !.resolved = @ \/ ran]
             instances == IF target = D!Subject THEN {} ELSE named
             candidate == D!CdxCandidate(v, <<p.at, p.entry>>, resource, instances)
             Holds(q) == /\ DOMAIN q = CdxFields /\ q.scope = p.scope /\ q.lineage = p.lineage
                         /\ q.folds = p.folds /\ q.resolved = p.resolved
  <1>1. D!Affect(p, document, v, entry) = faulty \/ D!Affect(p, document, v, entry) = D!Put(counted, candidate)
    BY Zenon DEF D!Affect
  <1>2. carriers = D!Carriers(Everything(document), document, entry.ref)
    <2>1. Everything(document).index = p.index
      BY DEF Everything
    <2> HIDE DEF entry
    <2> QED BY <2>1 DEF D!Carriers, D!Target
  <1>3. named = Leads(document, entry.ref) /\ target = RowOf(document, entry.ref)
    BY <1>2 DEF Leads, RowOf
  <1>4. ran <=> MatchAt(document, p.at, p.entry)
    <2>1. D!Counts(v, entry, Leads(document, entry.ref)) <=> D!MatchRan(document, v, entry)
      BY CountsExactly
    <2> QED BY Zenon, <1>3, <2>1 DEF MatchAt
  <1>5. candidate = Statement(document, p.at, p.entry)
    <2> HIDE DEF named, target
    <2> QED BY <1>3 DEF Statement
  <1>6. ASSUME NEW q, Holds(q), NEW more
        PROVE  Holds(D!Added(q, more)) /\ D!Added(q, more).diagnostics = q.diagnostics \cup more
    BY <1>6 DEF D!Added, CdxFields
  <1>7. Holds(p)
    BY Zenon
  <1> HIDE DEF ran, candidate
  <1>8. Holds(located)
    <2> HIDE DEF Holds
    <2> QED BY Zenon, <1>6, <1>7
  <1> HIDE DEF located
  <1>9. Holds(faulty) /\ D!HasErrors(faulty.diagnostics)
    <2>1. Holds(faulty) /\ faulty.diagnostics = located.diagnostics \cup {D!Error("identity_input_invalid")}
      <3> HIDE DEF Holds
      <3> QED BY <1>6, <1>8
    <2> QED BY <2>1, ErrorsAre DEF D!Error
  <1>10. Holds(noted)
    <2> HIDE DEF Holds
    <2> QED BY <1>6, <1>8
  <1> HIDE DEF faulty, noted
  <1>11. /\ DOMAIN counted = CdxFields /\ counted.scope = p.scope /\ counted.lineage = p.lineage
         /\ counted.folds = p.folds /\ (counted.resolved <=> p.resolved \/ ran)
    BY <1>10 DEF CdxFields
  <1> HIDE DEF counted
  <1>12. LET q == D!Put(counted, candidate) IN
         /\ q.scope = p.scope /\ q.lineage = p.lineage
         /\ q.step = "bound" \/ (q.folds = p.folds \cup {candidate} /\ (q.resolved <=> p.resolved \/ ran))
    BY <1>11 DEF D!Put, CdxFields
  <1> HIDE DEF v, entry
  <1> QED BY <1>1, <1>4, <1>5, <1>9, <1>12 DEF v, entry

\* What a step of the records adds.
LEMMA OneMoreExact ==
  ASSUME NEW document, NEW p, Exact(p, document), p.step = "fold", ~D!HasErrors(p.diagnostics),
         NEW q, q.step = "fold", q.scope = p.scope, q.lineage = p.lineage,
         NEW k, q.folds = p.folds \cup {Statement(document, p.at, k)},
         q.resolved <=> p.resolved \/ MatchAt(document, p.at, k)
  PROVE  Exact(q, document)
  <1> DEFINE c == Statement(document, p.at, k)
  <1>1. c.place = <<p.at, k>>
    BY DEF Statement, D!CdxCandidate
  <1>2. c.place[1] = p.at /\ c.place[2] = k
    BY <1>1
  <1> HIDE DEF c
  <1>3. q.folds = p.folds \cup {c}
    BY DEF c
  <1>4. c = Statement(document, c.place[1], c.place[2])
    BY <1>2 DEF c
  <1>5. (\E d \in q.folds : MatchAt(document, d.place[1], d.place[2])) <=>
          (\E d \in p.folds : MatchAt(document, d.place[1], d.place[2])) \/ MatchAt(document, p.at, k)
    BY <1>2, <1>3
  <1> QED BY <1>3, <1>4, <1>5 DEF Exact

LEMMA EntryExact ==
  ASSUME NEW document, CdxListed(document), CdxNested(document),
         NEW p, CdxKept(p, document), Traced(p, document), Exact(p, document), p.step = "fold",
         p.at \in DOMAIN document.vulnerabilities, p.entry # 0
  PROVE  Exact(D!Entry(p, document), document)
  <1> DEFINE v == document.vulnerabilities[p.at]
             entry == v.affects[p.entry]
             q == D!Affect(p, document, v, entry)
             last == p.entry = Len(v.affects)
             r == D!Entry(p, document)
  <1>1. r = IF last THEN D!NextRecord(q) ELSE [q EXCEPT !.entry = @ + 1]
    BY DEF D!Entry
  <1>2. DOMAIN p = CdxFields /\ IsFiniteSet(p.index) /\ p.index = CarriersOf(Whole(document))
    BY DEF CdxKept, Traced
  <1>3. /\ DOMAIN q = CdxFields /\ q.step \in {"fold", "bound"} /\ p.diagnostics \subseteq q.diagnostics
    <2> HIDE DEF v, entry
    <2> QED BY <1>2, AffectAdds
  <1> HIDE DEF q, last
  <1>4. /\ r.step = q.step /\ r.resolved = q.resolved /\ r.diagnostics = q.diagnostics
        /\ r.folds = q.folds /\ r.scope = q.scope /\ r.lineage = q.lineage
    BY <1>1, <1>3 DEF D!NextRecord, CdxFields
  <1> HIDE DEF r
  <1>5. CASE r.step = "bound" \/ D!HasErrors(r.diagnostics)
    <2>1. Exact(r, document)
      BY <1>3, <1>4, <1>5 DEF Exact
    <2> QED BY <2>1 DEF r
  <1>6. CASE r.step = "fold" /\ ~D!HasErrors(r.diagnostics)
    <2>1. ~D!HasErrors(p.diagnostics)
      BY <1>3, <1>4, <1>6, ErrorsStay
    <2>2. v \in D!Range(document.vulnerabilities) /\ entry \in D!Range(v.affects) /\ v.affects # <<>>
      <3>1. Tallied(p, document)
        BY <2>1 DEF CdxKept
      <3>2. p.entry \in 1 .. Len(v.affects)
        BY <3>1 DEF Tallied
      <3>3. v \in Range(document.vulnerabilities)
        BY DEF Range
      <3>4. DOMAIN v.affects = 1 .. Len(v.affects)
        BY <3>3 DEF CdxListed, IsSequence
      <3> HIDE DEF v
      <3> QED BY <3>2, <3>3, <3>4 DEF Range, D!Range
    <2>3. D!None \notin entry.unaffected
      BY <2>2 DEF CdxNested
    <2>4. p.scope = ScopeOf(document).resource /\ p.lineage = ScopeOf(document).lineage
      BY Zenon, <2>1 DEF Exact
    <2>5. /\ q.scope = p.scope /\ q.lineage = p.lineage
          /\ q.folds = p.folds \cup {Statement(document, p.at, p.entry)}
          /\ q.resolved <=> p.resolved \/ MatchAt(document, p.at, p.entry)
      BY Zenon, <1>2, <1>4, <1>6, <2>2, <2>3, <2>4, AffectExact DEF q
    <2>6. Exact(r, document)
      BY <1>4, <1>6, <2>1, <2>5, OneMoreExact
    <2> QED BY <2>6 DEF r
  <1> QED BY <1>3, <1>4, <1>5, <1>6

LEMMA RecordExact ==
  ASSUME NEW document, NEW p, DOMAIN p = CdxFields, Exact(p, document), p.step = "fold"
  PROVE  Exact(D!Record(p, document), document)
  <1> DEFINE v == document.vulnerabilities[p.at]
             q == D!Added(p, D!AnalysisCodes(v) \cup D!When(v.unfixed, D!Warning("response_will_not_fix")))
             faulty == D!Added(p, D!RecordErrors(v))
             missing == D!Added(q, {D!Warning("affects_missing")})
             c == D!CdxCandidate(v, <<p.at, 0>>, p.scope, {})
             put == D!Put(missing, c)
             r == D!Record(p, document)
             Goes(s) == /\ DOMAIN s = CdxFields /\ s.resolved = p.resolved /\ s.step = "fold"
                         /\ s.scope = p.scope /\ s.lineage = p.lineage /\ p.diagnostics \subseteq s.diagnostics
             Holds(s) == Goes(s) /\ s.folds = p.folds
  <1>1. r = IF D!RecordErrors(v) # {} THEN D!NextRecord(faulty)
            ELSE IF v.affects = <<>> THEN D!NextRecord(put) ELSE [q EXCEPT !.entry = 1]
    BY DEF D!Record
  <1>2. ASSUME NEW s, Holds(s), NEW more
        PROVE  Holds(D!Added(s, more)) /\ D!Added(s, more).diagnostics = s.diagnostics \cup more
    BY <1>2 DEF D!Added, CdxFields
  <1>3. Holds(p)
    OBVIOUS
  <1>4. Holds(q) /\ Holds(faulty) /\ faulty.diagnostics = p.diagnostics \cup D!RecordErrors(v)
    <2> HIDE DEF Holds
    <2> QED BY <1>2, <1>3
  <1>5. D!RecordErrors(v) # {} => D!HasErrors(faulty.diagnostics)
    <2> HIDE DEF v, faulty
    <2> QED BY <1>4, RecordErrorsAre, ErrorsAre
  <1> HIDE DEF q, faulty
  <1>6. Holds(missing)
    <2> HIDE DEF Holds
    <2> QED BY <1>2, <1>4
  <1> HIDE DEF missing
  <1>7. CASE D!RecordErrors(v) # {}
    <2>1. r = D!NextRecord(faulty)
      BY <1>1, <1>7
    <2>2. D!HasErrors(r.diagnostics) /\ r.step = "fold"
      BY <1>4, <1>5, <1>7, <2>1 DEF D!NextRecord, CdxFields
    <2> HIDE DEF r
    <2>3. Exact(r, document)
      BY <2>2 DEF Exact
    <2> QED BY <2>3 DEF r
  <1>8. CASE D!RecordErrors(v) = {} /\ v.affects = <<>>
    <2>1. r = D!NextRecord(put)
      BY <1>1, <1>8
    <2> HIDE DEF c
    <2>2. put.step = "bound" \/ (Goes(put) /\ put.folds = p.folds \cup {c})
      BY <1>6 DEF D!Put, CdxFields
    <2>3. DOMAIN put = CdxFields
      BY <1>6 DEF D!Put, CdxFields
    <2> HIDE DEF put
    <2>4. r.step = "bound" \/ (Goes(r) /\ r.folds = p.folds \cup {c})
      BY <2>1, <2>2, <2>3 DEF D!NextRecord, CdxFields
    <2> HIDE DEF r
    <2>5. Exact(r, document)
      <3>1. CASE r.step = "bound" \/ D!HasErrors(r.diagnostics)
        BY <2>4, <3>1 DEF Exact
      <3>2. CASE Goes(r) /\ r.folds = p.folds \cup {c} /\ ~D!HasErrors(r.diagnostics)
        <4>1. ~D!HasErrors(p.diagnostics)
          BY <3>2, ErrorsStay
        <4>2. c = Statement(document, p.at, 0)
          <5>1. p.scope = ScopeOf(document).resource
            BY <4>1 DEF Exact
          <5> QED BY <1>8, <5>1 DEF Statement, c
        <4>3. ~MatchAt(document, p.at, 0)
          BY <1>8 DEF MatchAt
        <4> HIDE DEF c
        <4> QED BY <3>2, <4>1, <4>2, <4>3, OneMoreExact
      <3> QED BY <2>4, <3>1, <3>2
    <2> QED BY <2>5 DEF r
  <1>9. CASE D!RecordErrors(v) = {} /\ v.affects # <<>>
    <2>1. r = [q EXCEPT !.entry = 1]
      BY <1>1, <1>9
    <2>2. Holds(r)
      BY <1>4, <2>1 DEF CdxFields
    <2> HIDE DEF r
    <2>3. ~D!HasErrors(r.diagnostics) => ~D!HasErrors(p.diagnostics)
      BY <2>2, ErrorsStay
    <2>4. Exact(r, document)
      BY <2>2, <2>3 DEF Exact
    <2> QED BY <2>4 DEF r
  <1> QED BY <1>7, <1>8, <1>9

LEMMA CdxStartExact ==
  ASSUME NEW document
  PROVE  Exact(D!CdxStart(document), document)
  BY DEF Exact, D!CdxStart

\* A step of the walk leaves its candidates the statements they are.
LEMMA CdxStepExact ==
  ASSUME NEW document, CdxListed(document), CdxNested(document),
         NEW p, CdxKept(p, document), Traced(p, document), Exact(p, document), D!Walking(p)
  PROVE  Exact(D!Stepped(p, document), document)
  <1>1. p.step \in {"index", "fold"} /\ DOMAIN p = CdxFields
    BY DEF D!Walking, CdxKept
  <1>2. CASE p.step = "index" /\ p.pending # <<>>
    <2> DEFINE q == D!Index(p, document)
               rest == [p EXCEPT !.pending = Tail(@)]
    <2>1. D!Stepped(p, document) = q
      BY <1>2 DEF D!Stepped
    <2>2. DOMAIN rest = CdxFields /\ rest.step = "index"
      BY <1>1, <1>2 DEF CdxFields
    <2> HIDE DEF rest
    <2>3. D!Faulted(rest, document, "invalid_component").step \in {"index", "rejected"}
      BY <2>2 DEF D!Faulted, D!Added, CdxFields
    <2>4. q.step \in {"index", "rejected"}
      <3>1. CASE ~D!Head(p.pending).component.sound
        <4>1. q = D!Faulted(rest, document, "invalid_component")
          BY <3>1 DEF D!Index, rest
        <4> QED BY <2>3, <4>1
      <3>2. CASE D!Head(p.pending).component.sound
        BY <1>1, <1>2, <3>2 DEF D!Index, CdxFields
      <3> QED BY <3>1, <3>2
    <2> HIDE DEF q
    <2>5. Exact(q, document)
      BY <2>4 DEF Exact
    <2> QED BY <2>1, <2>5
  <1>3. CASE p.step = "index" /\ p.pending = <<>>
    <2> DEFINE q == D!ReadScope(p, document)
    <2>1. D!Stepped(p, document) = q
      BY <1>3 DEF D!Stepped
    <2>2. /\ q.folds = p.folds /\ q.resolved = p.resolved
          /\ \/ q.step \in {"done", "rejected"}
             \/ /\ q.step \in {"bound", "fold"}
                /\ q.scope = ScopeOf(document).resource /\ q.lineage = ScopeOf(document).lineage
      BY <1>1, ScopeReads
    <2>3. p.folds = {} /\ ~p.resolved
      BY <1>3 DEF CdxKept, Traced
    <2> HIDE DEF q
    <2>4. Exact(q, document)
      BY <2>2, <2>3 DEF Exact
    <2> QED BY <2>1, <2>4
  <1>4. CASE p.step = "fold" /\ p.at \in DOMAIN document.vulnerabilities
    <2>1. D!Stepped(p, document) = IF p.entry = 0 THEN D!Record(p, document) ELSE D!Entry(p, document)
      BY <1>4 DEF D!Stepped
    <2> QED BY <1>1, <1>4, <2>1, RecordExact, EntryExact
  <1>5. CASE p.step = "fold" /\ p.at \notin DOMAIN document.vulnerabilities
    <2> DEFINE q == D!Close(p)
               taken == \E c \in p.folds : c.key = D!ScopeKey(p)
    <2>1. D!Stepped(p, document) = q
      BY <1>5 DEF D!Stepped
    <2>2. /\ q.resolved = p.resolved /\ q.folds = p.folds /\ q.scope = p.scope /\ q.lineage = p.lineage
          /\ q.diagnostics = p.diagnostics
          /\ q.step \in {"done", "superseded", "bound", "scoped"}
          /\ q.step = "superseded" => taken
      <3> HIDE DEF taken
      <3>1. q = [p EXCEPT !.step = IF D!HasErrors(p.diagnostics) THEN "done"
                       ELSE IF taken THEN "superseded"
                       ELSE IF D!Cardinality({c.key : c \in p.folds}) + 1 > MaxObservations THEN "bound"
                       ELSE "scoped"]
        BY DEF D!Close, taken
      <3> QED BY <1>1, <3>1 DEF CdxFields
    <2> HIDE DEF q
    <2>3. D!ScopeKey(q) = D!ScopeKey(p)
      BY <2>2 DEF D!ScopeKey
    <2>4. IsFiniteSet(CarriersOf(Whole(document)))
      BY <1>5 DEF Traced
    <2>5. Exact(q, document)
      BY <1>5, <2>2, <2>3, <2>4 DEF Exact
    <2> QED BY <2>1, <2>5
  <1> QED BY <1>1, <1>2, <1>3, <1>4, <1>5

\* What a bill has to show, whatever the order of the walk over it.
Places(document) ==
  UNION {{<<i, k>> : k \in Entries(document.vulnerabilities[i])} : i \in DOMAIN document.vulnerabilities}
Stated(document) == {Statement(document, place[1], place[2]) : place \in Places(document)}
ScopeRow(document) ==
  D!ScopeObservation([scope |-> ScopeOf(document).resource, resolved |-> Evident(document)])
Shown(document) ==
  LET stated == Stated(document)
      scope == ScopeRow(document)
  IN {D!AssembleFold(key, {c \in stated : c.key = key}) : key \in {c.key : c \in stated}}
     \cup {o \in {scope} : scope.key \notin {c.key : c \in stated}}

\* A match ran for an entry, at the place of one.
LEMMA EvidentAt ==
  ASSUME NEW document, CdxListed(document)
  PROVE  Evident(document) <=> \E place \in Places(document) : MatchAt(document, place[1], place[2])
  <1> DEFINE records == document.vulnerabilities
  <1>1. ASSUME NEW i \in DOMAIN records
        PROVE  /\ records[i] \in D!Range(records) /\ IsSequence(records[i].affects)
               /\ DOMAIN records[i].affects = 1 .. Len(records[i].affects)
    BY <1>1 DEF CdxListed, IsSequence, Range, D!Range
  <1>2. ASSUME Evident(document) PROVE \E place \in Places(document) : MatchAt(document, place[1], place[2])
    <2>1. PICK v \in D!Range(records) : \E entry \in D!Range(v.affects) : D!MatchRan(document, v, entry)
      BY <1>2 DEF Evident
    <2>0. PICK entry \in D!Range(v.affects) : D!MatchRan(document, v, entry)
      BY <2>1
    <2>2. PICK i \in DOMAIN records : v = records[i]
      BY DEF D!Range
    <2>3. PICK k \in DOMAIN v.affects : entry = v.affects[k]
      BY DEF D!Range
    <2>4. v.affects # <<>> /\ k \in Entries(v)
      BY <1>1, <2>2, <2>3 DEF Entries
    <2>5. <<i, k>> \in Places(document) /\ MatchAt(document, i, k)
      BY <2>0, <2>2, <2>3, <2>4 DEF Places, MatchAt
    <2> QED BY <2>5
  <1>3. ASSUME NEW place \in Places(document), MatchAt(document, place[1], place[2]) PROVE Evident(document)
    <2>0. PICK i \in DOMAIN records : \E k \in Entries(records[i]) : place = <<i, k>>
      BY DEF Places
    <2>1. PICK k \in Entries(records[i]) : place = <<i, k>>
      BY <2>0
    <2>2. records[i].affects # <<>> /\ D!MatchRan(document, records[i], records[i].affects[k])
      BY <1>3, <2>1 DEF MatchAt
    <2>3. k \in DOMAIN records[i].affects
      BY <1>1, <2>2 DEF Entries
    <2>4. records[i].affects[k] \in D!Range(records[i].affects)
      BY <2>3 DEF D!Range
    <2> QED BY <1>1, <2>2, <2>4 DEF Evident
  <1> QED BY <1>2, <1>3

\* A walk that came to its end has every statement of its document.
LEMMA AllStated ==
  ASSUME NEW document, CdxListed(document), NEW p, Tallied(p, document),
         p.at \notin DOMAIN document.vulnerabilities, Exact(p, document),
         p.step \in {"fold", "superseded", "scoped"}, ~D!HasErrors(p.diagnostics)
  PROVE  /\ p.folds = Stated(document) /\ p.scope = ScopeOf(document).resource
         /\ p.resolved <=> Evident(document)
  <1>1. /\ DOMAIN document.vulnerabilities = 1 .. Len(document.vulnerabilities)
        /\ Len(document.vulnerabilities) \in Nat
    BY DEF CdxListed, IsSequence
  <1>2. ASSUME NEW i, NEW k
        PROVE  Spoken(p, document, i, k) <=> <<i, k>> \in Places(document)
    <2>1. i \in DOMAIN document.vulnerabilities => i < p.at
      BY <1>1 DEF Tallied
    <2>2. <<i, k>> \in Places(document) <=>
            i \in DOMAIN document.vulnerabilities /\ k \in Entries(document.vulnerabilities[i])
      BY DEF Places
    <2> QED BY <2>1, <2>2 DEF Spoken
  <1>3. /\ p.scope = ScopeOf(document).resource
        /\ \A c \in p.folds : c = Statement(document, c.place[1], c.place[2])
        /\ p.resolved <=> \E c \in p.folds : MatchAt(document, c.place[1], c.place[2])
    BY DEF Exact
  <1>4. ASSUME NEW c \in p.folds PROVE c.place \in Places(document)
    <2>1. PICK i, k : Spoken(p, document, i, k) /\ c.place = <<i, k>>
      BY DEF Tallied, Says, D!CdxCandidate
    <2> QED BY <1>2, <2>1
  <1>5. ASSUME NEW place \in Places(document) PROVE \E c \in p.folds : c.place = place
    <2>1. PICK i, k : place = <<i, k>>
      BY DEF Places
    <2> QED BY <1>2, <2>1 DEF Tallied
  <1>6. p.folds = Stated(document)
    <2>1. p.folds \subseteq Stated(document)
      BY <1>3, <1>4 DEF Stated
    <2>2. ASSUME NEW place \in Places(document) PROVE Statement(document, place[1], place[2]) \in p.folds
      BY <1>3, <1>5
    <2> QED BY <2>1, <2>2 DEF Stated
  <1>7. p.resolved <=> Evident(document)
    BY <1>3, <1>4, <1>5, EvidentAt
  <1> QED BY <1>3, <1>6, <1>7

\* A bill that came to its end shows what it has to show.
LEMMA ShowsItself ==
  ASSUME NEW p, NEW document, CdxListed(document), CdxKept(p, document), Traced(p, document), Exact(p, document),
         p.step \in {"superseded", "scoped"}
  PROVE  D!CdxOutput(p, document).observations = Shown(document)
  <1> DEFINE stated == Stated(document)
             scope == D!ScopeObservation(p)
  <1>1. p.step \in {"superseded", "scoped"} /\ ~D!HasErrors(p.diagnostics)
    BY DEF CdxKept
  <1>2. p.folds = stated /\ p.scope = ScopeOf(document).resource /\ (p.resolved <=> Evident(document))
    BY <1>1, AllStated DEF CdxKept
  <1>3. scope = ScopeRow(document)
    BY <1>2 DEF D!ScopeObservation, D!ScopeKey, ScopeRow
  <1>4. scope.key = D!ScopeKey(p)
    BY DEF D!ScopeObservation
  <1> HIDE DEF scope, stated
  <1>5. (p.step = "scoped") <=> scope.key \notin {c.key : c \in stated}
    BY <1>1, <1>2, <1>4 DEF Traced, Exact
  <1>6. D!Folded(p) = {D!AssembleFold(key, {c \in stated : c.key = key}) : key \in {c.key : c \in stated}}
    BY <1>2 DEF D!Folded
  <1>7. (IF p.step = "scoped" THEN {scope} ELSE {}) = {o \in {scope} : scope.key \notin {c.key : c \in stated}}
    BY <1>5
  <1>8. D!CdxOutput(p, document).observations = D!Folded(p) \cup (IF p.step = "scoped" THEN {scope} ELSE {})
    BY OutputIs DEF scope
  <1> QED BY <1>3, <1>6, <1>7, <1>8 DEF Shown, stated

LEMMA ShowsAll ==
  ASSUME CdxListed(doc), CdxKept(parse, doc), Traced(parse, doc), Exact(parse, doc), D!Imports
  PROVE  D!Observed = Shown(doc)
  BY ShowsItself DEF D!Observed, D!Imports

-----------------------------------------------------------------------------
(* Bills that list related components, at every depth.                       *)

\* Every element of one set is related to one of the other.
Paired(R, some, others) ==
  /\ \A x \in some : \E y \in others : <<x, y>> \in R
  /\ \A y \in others : \E x \in some : <<x, y>> \in R

\* Two bills list related components, at every depth.
Trees(R, document, other) ==
  /\ \A x, y : <<x, y>> \in R => Paired(R, D!Range(x.components), D!Range(y.components))
  /\ Paired(R, D!Range(document.components), D!Range(other.components))
  /\ DOMAIN document.subject = DOMAIN other.subject
  /\ \A i \in DOMAIN document.subject : <<document.subject[i], other.subject[i]>> \in R

LEMMA ChildrenPair ==
  ASSUME NEW R, NEW some, NEW others, Paired(R, some, others),
         \A x, y : <<x, y>> \in R => Paired(R, D!Range(x.components), D!Range(y.components))
  PROVE  Paired(R, D!Children(some), D!Children(others))
  <1>1. ASSUME NEW c \in D!Children(some) PROVE \E d \in D!Children(others) : <<c, d>> \in R
    <2>1. PICK x \in some : c \in D!Range(x.components)
      BY DEF D!Children
    <2>2. PICK y \in others : <<x, y>> \in R
      BY DEF Paired
    <2>3. PICK d \in D!Range(y.components) : <<c, d>> \in R
      BY <2>1, <2>2 DEF Paired
    <2>4. d \in D!Children(others)
      BY DEF D!Children
    <2> QED BY <2>3, <2>4
  <1>2. ASSUME NEW d \in D!Children(others) PROVE \E c \in D!Children(some) : <<c, d>> \in R
    <2>1. PICK y \in others : d \in D!Range(y.components)
      BY DEF D!Children
    <2>2. PICK x \in some : <<x, y>> \in R
      BY DEF Paired
    <2>3. PICK c \in D!Range(x.components) : <<c, d>> \in R
      BY <2>1, <2>2 DEF Paired
    <2>4. c \in D!Children(some)
      BY DEF D!Children
    <2> QED BY <2>3, <2>4
  <1> QED BY <1>1, <1>2 DEF Paired

\* Bills whose lists are related list related components at every level.
LEMMA LevelsPair ==
  ASSUME NEW R, NEW document, NEW other, Trees(R, document, other), NEW n \in Nat
  PROVE  Paired(R, D!Levels(document)[n], D!Levels(other)[n])
  <1> DEFINE Pairs(m) == Paired(R, D!Levels(document)[m], D!Levels(other)[m])
             bad == {m \in Nat : ~Pairs(m)}
  <1>1. SUFFICES ASSUME bad # {} PROVE FALSE
    OBVIOUS
  <1>2. PICK m \in bad : \A k \in bad : m <= k
    <2>1. bad \in SUBSET Nat
      OBVIOUS
    <2> HIDE DEF bad
    <2> QED BY <1>1, <2>1, LeastOfNats
  <1>3. m \in Nat /\ ~Pairs(m)
    BY <1>2
  <1>4. \A x, y : <<x, y>> \in R => Paired(R, D!Range(x.components), D!Range(y.components))
    BY DEF Trees
  <1>5. CASE m = 0
    <2>1. Paired(R, D!Range(document.subject), D!Range(other.subject))
      BY DEF Trees, Paired, D!Range
    <2>2. Paired(R, D!Children(D!Range(document.subject)), D!Children(D!Range(other.subject)))
      BY <1>4, <2>1, ChildrenPair
    <2>3. Paired(R, D!Range(document.components), D!Range(other.components))
      BY DEF Trees
    <2>4. Paired(R, D!Tops(document), D!Tops(other))
      BY <2>2, <2>3 DEF Paired, D!Tops
    <2> QED BY <1>3, <1>5, <2>4, LevelsGoOn
  <1>6. CASE m # 0
    <2>1. m - 1 \in Nat /\ m - 1 \notin bad /\ m - 1 + 1 = m
      <3>1. m - 1 \in Nat /\ ~(m <= m - 1) /\ m - 1 + 1 = m
        BY <1>3, <1>6
      <3> HIDE DEF bad
      <3> QED BY <1>2, <3>1
    <2>2. Pairs(m - 1)
      BY <2>1
    <2>3. Paired(R, D!Children(D!Levels(document)[m - 1]), D!Children(D!Levels(other)[m - 1]))
      BY <1>4, <2>2, ChildrenPair
    <2>4. /\ D!Levels(document)[m] = D!Children(D!Levels(document)[m - 1])
          /\ D!Levels(other)[m] = D!Children(D!Levels(other)[m - 1])
      BY <2>1, LevelsGoOn
    <2> QED BY <1>3, <2>3, <2>4
  <1> QED BY <1>5, <1>6

LEMMA ListedPair ==
  ASSUME NEW R, NEW document, NEW other, Trees(R, document, other)
  PROVE  /\ Paired(R, D!Listed(document), D!Listed(other))
         /\ Paired(R, D!Range(document.subject), D!Range(other.subject))
  <1>1. \A n \in 0 .. MaxDepth : n \in Nat
    BY DepthAssumption
  <1>2. \A n \in 0 .. MaxDepth : Paired(R, D!Levels(document)[n], D!Levels(other)[n])
    BY <1>1, LevelsPair
  <1>3. Paired(R, D!Listed(document), D!Listed(other))
    BY <1>2 DEF Paired, D!Listed
  <1>4. Paired(R, D!Range(document.subject), D!Range(other.subject))
    BY DEF Trees, Paired, D!Range
  <1> QED BY <1>3, <1>4

LEMMA WholePair ==
  ASSUME NEW R, NEW document, NEW other, Trees(R, document, other)
  PROVE  /\ \A x \in Whole(document) : \E y \in Whole(other) :
              x.subject = y.subject /\ <<x.component, y.component>> \in R
         /\ \A y \in Whole(other) : \E x \in Whole(document) :
              x.subject = y.subject /\ <<x.component, y.component>> \in R
  <1> DEFINE Twins(x, y) == x.subject = y.subject /\ <<x.component, y.component>> \in R
  <1>1. /\ Paired(R, D!Listed(document), D!Listed(other))
        /\ Paired(R, D!Range(document.subject), D!Range(other.subject))
    BY ListedPair
  <1>2. ASSUME NEW x \in Whole(document) PROVE \E y \in Whole(other) : Twins(x, y)
    <2>1. CASE x \in Subjects(document)
      <3>1. PICK s \in D!Range(document.subject) : x = [component |-> s, subject |-> TRUE]
        BY <2>1 DEF Subjects
      <3>2. PICK t \in D!Range(other.subject) : <<s, t>> \in R
        BY <1>1 DEF Paired
      <3>3. [component |-> t, subject |-> TRUE] \in Whole(other)
        BY DEF Whole, Subjects
      <3> QED BY <3>1, <3>2, <3>3
    <2>2. CASE x \in Met(D!Listed(document))
      <3>1. PICK s \in D!Listed(document) : x = [component |-> s, subject |-> FALSE]
        BY <2>2 DEF Met
      <3>2. PICK t \in D!Listed(other) : <<s, t>> \in R
        BY <1>1 DEF Paired
      <3>3. [component |-> t, subject |-> FALSE] \in Whole(other)
        BY DEF Whole, Met
      <3> QED BY <3>1, <3>2, <3>3
    <2> QED BY <2>1, <2>2 DEF Whole
  <1>3. ASSUME NEW y \in Whole(other) PROVE \E x \in Whole(document) : Twins(x, y)
    <2>1. CASE y \in Subjects(other)
      <3>1. PICK t \in D!Range(other.subject) : y = [component |-> t, subject |-> TRUE]
        BY <2>1 DEF Subjects
      <3>2. PICK s \in D!Range(document.subject) : <<s, t>> \in R
        BY <1>1 DEF Paired
      <3>3. [component |-> s, subject |-> TRUE] \in Whole(document)
        BY DEF Whole, Subjects
      <3> QED BY <3>1, <3>2, <3>3
    <2>2. CASE y \in Met(D!Listed(other))
      <3>1. PICK t \in D!Listed(other) : y = [component |-> t, subject |-> FALSE]
        BY <2>2 DEF Met
      <3>2. PICK s \in D!Listed(document) : <<s, t>> \in R
        BY <1>1 DEF Paired
      <3>3. [component |-> s, subject |-> FALSE] \in Whole(document)
        BY DEF Whole, Met
      <3> QED BY <3>1, <3>2, <3>3
    <2> QED BY <2>1, <2>2 DEF Whole
  <1> QED BY <1>2, <1>3

\* For every carrier in the one index there is one of that reference and that
\* package in the other.
LEMMA CarriersPair ==
  ASSUME NEW R, NEW document, NEW other, Trees(R, document, other),
         \A x, y : <<x, y>> \in R => x.ref = y.ref /\ D!PackageKey(x) = D!PackageKey(y)
  PROVE  /\ \A c \in CarriersOf(Whole(document)) : \E d \in CarriersOf(Whole(other)) :
              c.ref = d.ref /\ c.target = d.target
         /\ \A d \in CarriersOf(Whole(other)) : \E c \in CarriersOf(Whole(document)) :
              c.ref = d.ref /\ c.target = d.target
  <1> DEFINE Twins(x, y) == x.subject = y.subject /\ <<x.component, y.component>> \in R
  <1>1. /\ \A x \in Whole(document) : \E y \in Whole(other) : Twins(x, y)
        /\ \A y \in Whole(other) : \E x \in Whole(document) : Twins(x, y)
    BY WholePair
  <1>2. ASSUME NEW x, NEW y, Twins(x, y)
        PROVE  /\ x.component.ref = y.component.ref
               /\ CarrierOf(x).ref = CarrierOf(y).ref /\ CarrierOf(x).target = CarrierOf(y).target
    <2>1. /\ x.subject = y.subject /\ x.component.ref = y.component.ref
          /\ D!PackageKey(x.component) = D!PackageKey(y.component)
      BY <1>2
    <2>2. \A c, target : D!Carrier(c, target).ref = c.ref /\ D!Carrier(c, target).target = target
      BY DEF D!Carrier
    <2> QED BY <2>1, <2>2 DEF CarrierOf
  <1> HIDE DEF Twins
  <1>3. ASSUME NEW c \in CarriersOf(Whole(document))
        PROVE  \E d \in CarriersOf(Whole(other)) : c.ref = d.ref /\ c.target = d.target
    <2>1. PICK x \in Whole(document) : x.component.ref # <<>> /\ c = CarrierOf(x)
      BY DEF CarriersOf
    <2>2. PICK y \in Whole(other) : Twins(x, y)
      BY <1>1
    <2>3. CarrierOf(y) \in CarriersOf(Whole(other))
      BY <1>2, <2>1, <2>2 DEF CarriersOf
    <2> QED BY <1>2, <2>1, <2>2, <2>3
  <1>4. ASSUME NEW d \in CarriersOf(Whole(other))
        PROVE  \E c \in CarriersOf(Whole(document)) : c.ref = d.ref /\ c.target = d.target
    <2>1. PICK y \in Whole(other) : y.component.ref # <<>> /\ d = CarrierOf(y)
      BY DEF CarriersOf
    <2>2. PICK x \in Whole(document) : Twins(x, y)
      BY <1>1
    <2>3. CarrierOf(x) \in CarriersOf(Whole(document))
      BY <1>2, <2>1, <2>2 DEF CarriersOf
    <2> QED BY <1>2, <2>1, <2>2, <2>3
  <1> QED BY <1>3, <1>4

-----------------------------------------------------------------------------
(* Which packages a reference leads to is of the references and the keys.    *)

\* Components that carry one reference and are of one package.
Akin(x, y) == x.ref = y.ref /\ D!PackageKey(x) = D!PackageKey(y)

\* Bills that read a reference to themselves alike, and whose components are
\* related to some of theirs.
Related(R, document, other) ==
  /\ document.serial = other.serial /\ document.version = other.version
  /\ Trees(R, document, other)
  /\ \A x, y : <<x, y>> \in R => Akin(x, y)

LEMMA BornePair ==
  ASSUME NEW R, NEW document, NEW other, Related(R, document, other), NEW ref
  PROVE  /\ Paired(R, D!Bearers(document, ref), D!Bearers(other, ref))
         /\ D!Borne(document, ref) <=> D!Borne(other, ref)
         /\ D!Meant(document, ref) = D!Meant(other, ref)
         /\ (\A s \in D!Range(document.subject) : s.ref # <<ref>>)
              <=> \A s \in D!Range(other.subject) : s.ref # <<ref>>
  <1>1. /\ Paired(R, D!Listed(document), D!Listed(other))
        /\ Paired(R, D!Range(document.subject), D!Range(other.subject))
        /\ \A x, y : <<x, y>> \in R => x.ref = y.ref
    BY ListedPair DEF Related, Akin
  <1>2. Paired(R, D!Bearers(document, ref), D!Bearers(other, ref))
    BY <1>1 DEF Paired, D!Bearers
  <1>3. (\A s \in D!Range(document.subject) : s.ref # <<ref>>)
              <=> \A s \in D!Range(other.subject) : s.ref # <<ref>>
    BY <1>1 DEF Paired
  <1>4. (D!Bearers(document, ref) # {}) <=> (D!Bearers(other, ref) # {})
    BY <1>2 DEF Paired
  <1>5. D!Borne(document, ref) <=> D!Borne(other, ref)
    BY <1>3, <1>4 DEF D!Borne
  <1>6. D!LocalFragment(document, ref) = D!LocalFragment(other, ref)
    BY DEF Related, D!LocalFragment, D!BomVersion
  <1>7. D!Meant(document, ref) = D!Meant(other, ref)
    BY <1>5, <1>6 DEF D!Meant
  <1> QED BY <1>2, <1>3, <1>5, <1>7

\* A reference leads to one package in both, or to none.
LEMMA RowsPair ==
  ASSUME NEW R, NEW document, NEW other, Related(R, document, other), NEW ref,
         IsFiniteSet(CarriersOf(Whole(document)))
  PROVE  RowOf(document, ref) = RowOf(other, ref)
  <1> DEFINE p == Everything(document)
             q == Everything(other)
             target == D!Target(p, document, ref)
             some == D!Carriers(p, document, ref)
             others == D!Carriers(q, other, ref)
  <1>1. p.index = CarriersOf(Whole(document)) /\ q.index = CarriersOf(Whole(other))
    BY DEF Everything
  <1>2. target = D!Meant(document, ref) /\ D!Target(q, other, ref) = D!Meant(other, ref)
    <2>1. /\ (\E c \in p.index : c.ref = <<ref>>) <=> D!Borne(document, ref)
          /\ (\E c \in q.index : c.ref = <<ref>>) <=> D!Borne(other, ref)
      BY <1>1, RefsBorne
    <2> HIDE DEF p, q
    <2> QED BY <2>1 DEF D!Target, D!Meant
  <1>3. D!Target(q, other, ref) = target
    BY <1>2, BornePair
  <1>4. /\ \A c \in p.index : \E d \in q.index : c.ref = d.ref /\ c.target = d.target
        /\ \A d \in q.index : \E c \in p.index : c.ref = d.ref /\ c.target = d.target
    BY <1>1, CarriersPair DEF Related, Akin
  <1> HIDE DEF p, q
  <1>5. some = {c \in p.index : c.ref = <<target>>} /\ others = {d \in q.index : d.ref = <<target>>}
    BY <1>3 DEF D!Carriers
  <1> HIDE DEF target
  <1>6. {c.target : c \in some} = {d.target : d \in others} /\ (some = {} <=> others = {})
    BY <1>4, <1>5
  <1>7. D!Conflict(some) <=> D!Conflict(others)
    <2> HIDE DEF some, others
    <2> QED BY <1>6 DEF D!Conflict
  <1>8. Leads(document, ref) = D!Resolve(some) /\ Leads(other, ref) = D!Resolve(others)
    BY DEF Leads, p, q
  <1>9. IsFiniteSet({c.target : c \in some})
    <2>1. IsFiniteSet(some)
      BY <1>1, <1>5, FS_Subset
    <2> DEFINE targets == {c.target : c \in some}
               f == [c \in some |-> c.target]
    <2>2. f \in Surjection(some, targets)
      BY DEF Surjection
    <2> HIDE DEF some, targets, f
    <2>3. IsFiniteSet(targets)
      BY <2>1, <2>2, FS_Surjection
    <2> QED BY <2>3 DEF targets
  <1> HIDE DEF some, others
  <1>10. CASE D!Conflict(some) \/ some = {}
    <2>1. Leads(document, ref) = {} /\ Leads(other, ref) = {}
      BY <1>6, <1>7, <1>8, <1>10 DEF D!Resolve
    <2> QED BY <2>1 DEF RowOf
  <1>11. CASE ~D!Conflict(some) /\ some # {}
    <2> DEFINE targets == {c.target : c \in some}
    <2>1. Leads(document, ref) = some /\ Leads(other, ref) = others /\ others # {}
      BY <1>6, <1>7, <1>8, <1>11 DEF D!Resolve
    <2>2. IsFiniteSet(targets) /\ ~(Cardinality(targets) > 1)
      BY <1>9, <1>11, CountedAlike DEF D!Conflict
    <2>3. (CHOOSE c \in some : TRUE).target \in targets
      BY <1>11
    <2>4. (CHOOSE d \in others : TRUE).target \in {d.target : d \in others}
      BY <2>1
    <2>5. {d.target : d \in others} = targets
      BY <1>6
    <2> HIDE DEF targets
    <2>6. (CHOOSE c \in some : TRUE).target = (CHOOSE d \in others : TRUE).target
      BY <2>2, <2>3, <2>4, <2>5, AllOne
    <2> QED BY <1>11, <2>1, <2>6 DEF RowOf
  <1> QED BY <1>10, <1>11

-----------------------------------------------------------------------------
(* An upgrade moves no finding off its package.                              *)

\* The qualifiers of a purl, but for those the key of no type keeps.
Telling(purl) ==
  {q \in purl.qualifiers : D!AsciiFold(q.key) \notin D!StrippedQualifiers \ {"repository_url"}}

\* A component and an upgrade of it.
Upgrade(x, y) ==
  /\ x.sound = y.sound /\ x.ref = y.ref /\ x.type = y.type /\ x.group = y.group /\ x.name = y.name
  /\ D!Parses(x.purl) <=> D!Parses(y.purl)
  /\ x.purl.type = y.purl.type /\ x.purl.namespace = y.purl.namespace
  /\ x.purl.name = y.purl.name /\ x.purl.subpath = y.purl.subpath
  /\ Telling(x.purl) = Telling(y.purl)

LEMMA QualifiersTell ==
  ASSUME NEW type, NEW some, NEW others, Telling(some) = Telling(others)
  PROVE  D!Qualifiers(type, some) \subseteq D!Qualifiers(type, others)
  <1>1. D!StrippedQualifiers \ {"repository_url"} \subseteq D!Stripped(type)
    <2>1. CASE type = "oci"
      BY <2>1 DEF D!Stripped
    <2>2. CASE type = "docker"
      BY <2>2 DEF D!Stripped
    <2>3. CASE type \notin {"oci", "docker"}
      BY <2>3 DEF D!Stripped
    <2> QED BY <2>1, <2>2, <2>3
  <1> SUFFICES ASSUME NEW q \in D!Qualifiers(type, some) PROVE q \in D!Qualifiers(type, others)
    OBVIOUS
  <1>2. PICK r \in some.qualifiers : /\ r.value # D!None /\ q = [key |-> D!AsciiFold(r.key), value |-> r.value]
                                     /\ q.key \notin D!Stripped(type)
                                     /\ <<type, q.key, q.value>> \notin D!DefaultQualifiers
    BY DEF D!Qualifiers
  <1>3. r \in Telling(some)
    BY <1>1, <1>2 DEF Telling
  <1>4. r \in others.qualifiers
    BY <1>3 DEF Telling
  <1> QED BY <1>2, <1>4 DEF D!Qualifiers

LEMMA UpgradeAkin ==
  ASSUME NEW x, NEW y, Upgrade(x, y)
  PROVE  Akin(x, y)
  <1>1. \A type : D!Qualifiers(type, x.purl) = D!Qualifiers(type, y.purl)
    BY QualifiersTell DEF Upgrade
  <1>2. D!PurlKey(x.purl) = D!PurlKey(y.purl)
    BY <1>1 DEF Upgrade, D!PurlKey
  <1>3. D!PackageKey(x) = D!PackageKey(y)
    BY <1>2 DEF Upgrade, D!PackageKey
  <1> QED BY <1>3 DEF Upgrade, Akin

\* A bill and a bill of the same findings on an upgrade of what it lists, of the
\* same tools and of the same image, if of any.
Upgraded(document, other) ==
  /\ other.vulnerabilities = document.vulnerabilities /\ other.tools = document.tools
  /\ other.serial = document.serial /\ other.version = document.version
  /\ IsSequence(document.subject) /\ IsSequence(other.subject)
  /\ \E R : Trees(R, document, other) /\ \A x, y : <<x, y>> \in R => Upgrade(x, y)
  /\ \A s \in D!Range(document.subject) : D!IsContainer(s) /\ s.name # D!None

LEMMA UpgradeScoped ==
  ASSUME NEW document, NEW other, Upgraded(document, other)
  PROVE  /\ ScopeOf(document).lineage = ScopeOf(other).lineage
         /\ ScopeOf(document).resource[1] = ScopeOf(other).resource[1]
         /\ ScopeOf(document).refused = ScopeOf(other).refused
  <1> DEFINE s == document.subject[1]
             t == other.subject[1]
  <1>1. ToolOf(document) = ToolOf(other)
    BY DEF Upgraded, ToolOf, D!Tools
  <1>2. PICK R : Trees(R, document, other) /\ \A x, y : <<x, y>> \in R => Upgrade(x, y)
    BY DEF Upgraded
  <1>3. IsSequence(document.subject) /\ IsSequence(other.subject) /\ DOMAIN document.subject = DOMAIN other.subject
    BY <1>2 DEF Upgraded, Trees
  <1>4. /\ document.subject = <<>> \/ 1 \in DOMAIN document.subject
        /\ document.subject = <<>> <=> other.subject = <<>>
    BY <1>3 DEF IsSequence
  <1>5. CASE document.subject = <<>>
    <2>1. other.subject = <<>>
      BY <1>4, <1>5
    <2> QED BY <1>1, <1>5, <2>1 DEF ScopeOf, D!Scope
  <1>6. CASE 1 \in DOMAIN document.subject
    <2>1. document.subject # <<>> /\ other.subject # <<>>
      BY <1>4, <1>6
    <2>2. D!IsContainer(s) /\ s.name # D!None
      BY <1>6 DEF Upgraded, D!Range
    <2>3. Upgrade(s, t)
      BY <1>2, <1>6 DEF Trees
    <2>4. t.name = s.name /\ D!IsContainer(t)
      BY <2>2, <2>3 DEF Upgrade, D!IsContainer
    <2>5. D!IsNamed(s) /\ D!IsNamed(t)
      BY <2>2, <2>4 DEF D!IsNamed
    <2>6. D!SubjectLineage(s) = <<s.name>> /\ D!SubjectLineage(t) = <<s.name>>
      BY <2>2, <2>4 DEF D!SubjectLineage
    <2> HIDE DEF s, t
    <2>7. /\ ScopeOf(document).lineage = <<s.name>> /\ ScopeOf(document).resource = <<"image", D!ImageId(s)>>
          /\ ScopeOf(document).refused = (s.name \in Refused)
      BY <2>1, <2>2, <2>5, <2>6 DEF ScopeOf, D!Scope, s
    <2>8. /\ ScopeOf(other).lineage = <<s.name>> /\ ScopeOf(other).resource = <<"image", D!ImageId(t)>>
          /\ ScopeOf(other).refused = (s.name \in Refused)
      BY <2>1, <2>4, <2>5, <2>6 DEF ScopeOf, D!Scope, t
    <2> QED BY <2>7, <2>8
  <1> QED BY <1>4, <1>5, <1>6

\* The findings on packages.
RowKeys(observations) ==
  {o.key : o \in {q \in observations : q.key.resource[1] = "package"}}

LEMMA RowsShown ==
  ASSUME NEW document
  PROVE  RowKeys(Shown(document)) =
           {Statement(document, place[1], place[2]).key :
              place \in {q \in Places(document) :
                           Statement(document, q[1], q[2]).key.resource[1] = "package"}}
  <1> DEFINE stated == Stated(document)
             Fold(key) == D!AssembleFold(key, {c \in stated : c.key = key})
             scope == ScopeRow(document)
  <1>1. \A key : Fold(key).key = key
    BY DEF D!AssembleFold
  <1>2. scope.key.resource[1] # "package"
    <2>1. scope.key.resource = ScopeOf(document).resource
      BY DEF ScopeRow, D!ScopeObservation, D!ScopeKey
    <2>2. ScopeOf(document).resource[1] \in {"scan", "image"}
      BY DEF ScopeOf, D!Scope
    <2> QED BY <2>1, <2>2
  <1> HIDE DEF Fold, scope
  <1>3. Shown(document) = {Fold(key) : key \in {c.key : c \in stated}}
                          \cup {o \in {scope} : scope.key \notin {c.key : c \in stated}}
    BY DEF Shown, Fold, scope
  <1>4. RowKeys(Shown(document)) = {key \in {c.key : c \in stated} : key.resource[1] = "package"}
    <2> HIDE DEF stated
    <2>1. ASSUME NEW key \in RowKeys(Shown(document)) PROVE key \in {c.key : c \in stated} /\ key.resource[1] = "package"
      <3>1. PICK o \in Shown(document) : o.key = key /\ key.resource[1] = "package"
        BY DEF RowKeys
      <3> QED BY <1>1, <1>2, <1>3, <3>1
    <2>2. ASSUME NEW key \in {c.key : c \in stated}, key.resource[1] = "package" PROVE key \in RowKeys(Shown(document))
      <3>1. Fold(key) \in Shown(document) /\ Fold(key).key = key
        BY <1>1, <1>3
      <3> QED BY <2>2, <3>1 DEF RowKeys
    <2> QED BY <2>1, <2>2
  <1>5. {c.key : c \in stated} = {Statement(document, place[1], place[2]).key : place \in Places(document)}
    BY DEF Stated
  <1> HIDE DEF stated
  <1> QED BY <1>4, <1>5

LEMMA UpgradeShows ==
  ASSUME NEW document, NEW other, Upgraded(document, other), IsFiniteSet(CarriersOf(Whole(document)))
  PROVE  RowKeys(Shown(document)) = RowKeys(Shown(other))
  <1> DEFINE Key(d, place) == Statement(d, place[1], place[2]).key
  <1>1. PICK R : Trees(R, document, other) /\ \A x, y : <<x, y>> \in R => Upgrade(x, y)
    BY DEF Upgraded
  <1>2. Related(R, document, other)
    BY <1>1, UpgradeAkin DEF Upgraded, Related
  <1>3. \A ref : RowOf(document, ref) = RowOf(other, ref)
    BY <1>2, RowsPair
  <1>4. Places(document) = Places(other) /\ document.vulnerabilities = other.vulnerabilities
    BY DEF Upgraded, Places
  <1>5. ASSUME NEW place
        PROVE  \/ Key(document, place) = Key(other, place)
               \/ Key(document, place).resource[1] # "package" /\ Key(other, place).resource[1] # "package"
    <2> DEFINE v == document.vulnerabilities[place[1]]
               ref == v.affects[place[2]].ref
               row == RowOf(document, ref)
               onSubject == v.affects = <<>> \/ row = D!Subject
    <2>1. ASSUME NEW d, d \in {document, other}
          PROVE  /\ Key(d, place).record = v.id
                 /\ onSubject => Key(d, place).resource = ScopeOf(d).resource
                 /\ ~onSubject => Key(d, place).resource
                                    = <<"package", ScopeOf(d).resource[1], ScopeOf(d).lineage, row>>
                 /\ DOMAIN Key(d, place) = {"record", "resource"}
                 /\ Key(d, place) = [record |-> Key(d, place).record, resource |-> Key(d, place).resource]
      <3>1. d.vulnerabilities = document.vulnerabilities /\ RowOf(d, ref) = row
        BY <1>3, <1>4, <2>1
      <3> HIDE DEF row, ref
      <3> QED BY <3>1 DEF Statement, D!CdxCandidate, ref
    <2>2. /\ ScopeOf(document).lineage = ScopeOf(other).lineage
          /\ ScopeOf(document).resource[1] = ScopeOf(other).resource[1]
      BY UpgradeScoped
    <2>3. \A d : ScopeOf(d).resource[1] # "package"
      <3>1. \A d : ScopeOf(d).resource[1] \in {"scan", "image"}
        BY DEF ScopeOf, D!Scope
      <3> QED BY <3>1
    <2> HIDE DEF Key, row, onSubject, v
    <2> QED BY <2>1, <2>2, <2>3
  <1> HIDE DEF Key
  <1>6. {Key(document, place) : place \in {q \in Places(document) : Key(document, q).resource[1] = "package"}}
          = {Key(other, place) : place \in {q \in Places(other) : Key(other, q).resource[1] = "package"}}
    BY <1>4, <1>5
  <1> QED BY <1>6, RowsShown DEF Key

-----------------------------------------------------------------------------
(* The order of a bill's lists is lost.                                      *)

\* A component, and that component with what it holds in another order.
Recast(x, y) ==
  /\ x.sound = y.sound /\ x.ref = y.ref /\ x.version = y.version /\ x.purl = y.purl
  /\ x.type = y.type /\ x.group = y.group /\ x.name = y.name

\* Components apart only in what they hold have the key of one another.
LEMMA RecastAkin ==
  ASSUME NEW x, NEW y, Recast(x, y)
  PROVE  Akin(x, y) /\ x.version = y.version
  <1>1. /\ x.ref = y.ref /\ x.version = y.version /\ x.purl = y.purl
        /\ x.type = y.type /\ x.group = y.group /\ x.name = y.name
    BY DEF Recast
  <1>2. D!PackageKey(x) = D!PackageKey(y)
    BY <1>1 DEF D!PackageKey
  <1> QED BY <1>1, <1>2 DEF Akin

\* A record at one place, and that record at another, its entries in another order.
Reread(v, k, w, l) ==
  /\ v.sound = w.sound /\ v.id = w.id /\ v.text = w.text /\ v.ratings = w.ratings
  /\ v.state = w.state /\ v.judged = w.judged
  /\ v.affects = <<>> <=> w.affects = <<>>
  /\ v.affects # <<>> => v.affects[k] = w.affects[l]

\* A bill, and that bill with its components, at every depth, its records and
\* their entries in another order.
Shuffled(document, other) ==
  /\ other.tools = document.tools /\ other.serial = document.serial /\ other.version = document.version
  /\ IsSequence(document.subject) /\ IsSequence(other.subject)
  /\ \E R : Trees(R, document, other) /\ \A x, y : <<x, y>> \in R => Recast(x, y)
  /\ \A i \in DOMAIN document.subject :
       document.subject[i].tag = other.subject[i].tag /\ document.subject[i].digest = other.subject[i].digest
  /\ \E f \in Bijection(Places(document), Places(other)) : \A place \in Places(document) :
       Reread(document.vulnerabilities[place[1]], place[2], other.vulnerabilities[f[place][1]], f[place][2])

LEMMA ShuffleScoped ==
  ASSUME NEW document, NEW other, Shuffled(document, other)
  PROVE  ScopeOf(document) = ScopeOf(other)
  <1> DEFINE s == document.subject[1]
             t == other.subject[1]
             tool == ToolOf(document)
  <1>1. ToolOf(other) = tool
    BY DEF Shuffled, ToolOf, D!Tools
  <1>2. PICK R : Trees(R, document, other) /\ \A x, y : <<x, y>> \in R => Recast(x, y)
    BY DEF Shuffled
  <1>3. IsSequence(document.subject) /\ IsSequence(other.subject) /\ DOMAIN document.subject = DOMAIN other.subject
    BY <1>2 DEF Shuffled, Trees
  <1>4. /\ document.subject = <<>> \/ 1 \in DOMAIN document.subject
        /\ document.subject = <<>> <=> other.subject = <<>>
    BY <1>3 DEF IsSequence
  <1> HIDE DEF tool
  <1>5. CASE document.subject = <<>>
    <2>1. other.subject = <<>>
      BY <1>4, <1>5
    <2>2. D!Scope(document, tool) = D!Scope(other, tool)
      BY <1>5, <2>1 DEF D!Scope
    <2> QED BY <1>1, <2>2 DEF ScopeOf, tool
  <1>6. CASE 1 \in DOMAIN document.subject
    <2>1. document.subject # <<>> /\ other.subject # <<>>
      BY <1>4, <1>6
    <2>2. s.tag = t.tag /\ s.digest = t.digest
      BY <1>6 DEF Shuffled
    <2>3. Recast(s, t)
      BY <1>2, <1>6 DEF Trees
    <2>4. /\ D!IsContainer(s) <=> D!IsContainer(t)
          /\ D!IsNamed(s) <=> D!IsNamed(t)
      BY <2>2, <2>3 DEF Recast, D!IsContainer, D!IsNamed
    <2>5. D!SubjectLineage(s) = D!SubjectLineage(t)
      BY <2>2, <2>3, <2>4 DEF Recast, D!SubjectLineage
    <2>6. D!ImageId(s) = D!ImageId(t)
      BY <2>2, <2>3 DEF Recast, D!ImageId
    <2>7. s.name = t.name /\ s.group = t.group
      BY <2>3 DEF Recast
    <2> HIDE DEF s, t
    <2>8. D!Scope(document, tool) = D!Scope(other, tool)
      BY <2>1, <2>2, <2>4, <2>5, <2>6, <2>7 DEF D!Scope, s, t
    <2> QED BY <1>1, <2>8 DEF ScopeOf, tool
  <1> QED BY <1>4, <1>5, <1>6

LEMMA ShuffleCarries ==
  ASSUME NEW R, NEW document, NEW other, Trees(R, document, other),
         \A x, y : <<x, y>> \in R => Recast(x, y)
  PROVE  CarriersOf(Whole(document)) = CarriersOf(Whole(other))
  <1> DEFINE Twins(x, y) == x.subject = y.subject /\ <<x.component, y.component>> \in R
  <1>1. /\ \A x \in Whole(document) : \E y \in Whole(other) : Twins(x, y)
        /\ \A y \in Whole(other) : \E x \in Whole(document) : Twins(x, y)
    BY WholePair
  <1>2. ASSUME NEW x, NEW y, Twins(x, y)
        PROVE  x.component.ref = y.component.ref /\ CarrierOf(x) = CarrierOf(y)
    <2>1. x.subject = y.subject /\ Recast(x.component, y.component)
      BY <1>2
    <2>2. D!PackageKey(x.component) = D!PackageKey(y.component)
      BY <2>1 DEF Recast, D!PackageKey
    <2>3. \A target : D!Carrier(x.component, target) = D!Carrier(y.component, target)
      BY <2>1 DEF Recast, D!Carrier
    <2> QED BY <2>1, <2>2, <2>3 DEF CarrierOf, Recast
  <1> HIDE DEF Twins
  <1>3. ASSUME NEW x \in Whole(document), x.component.ref # <<>>
        PROVE  \E y \in Whole(other) : y.component.ref # <<>> /\ CarrierOf(x) = CarrierOf(y)
    BY <1>1, <1>2, <1>3
  <1>4. ASSUME NEW y \in Whole(other), y.component.ref # <<>>
        PROVE  \E x \in Whole(document) : x.component.ref # <<>> /\ CarrierOf(x) = CarrierOf(y)
    BY <1>1, <1>2, <1>4
  <1> QED BY <1>3, <1>4 DEF CarriersOf

\* A statement keeps what it says when it moves.
Like(c, d) ==
  /\ c.key = d.key /\ c.text = d.text /\ c.severity = d.severity /\ c.source = d.source
  /\ c.states = d.states /\ c.instances = d.instances

LEMMA ShuffleStates ==
  ASSUME NEW document, NEW other, Shuffled(document, other), NEW i, NEW k, NEW j, NEW l,
         Reread(document.vulnerabilities[i], k, other.vulnerabilities[j], l)
  PROVE  /\ Like(Statement(document, i, k), Statement(other, j, l))
         /\ MatchAt(document, i, k) <=> MatchAt(other, j, l)
  <1> DEFINE v == document.vulnerabilities[i]
             w == other.vulnerabilities[j]
             entry == v.affects[k]
             ref == entry.ref
  <1>1. PICK R : Trees(R, document, other) /\ \A x, y : <<x, y>> \in R => Recast(x, y)
    BY DEF Shuffled
  <1>2. /\ v.id = w.id /\ v.text = w.text /\ v.ratings = w.ratings
        /\ v.state = w.state /\ v.judged = w.judged
        /\ v.affects = <<>> <=> w.affects = <<>>
        /\ v.affects # <<>> => w.affects[l] = entry
    BY DEF Reread
  <1>3. Everything(document) = Everything(other)
    BY <1>1, ShuffleCarries DEF Everything
  <1>4. \A r : D!LocalFragment(document, r) = D!LocalFragment(other, r)
    BY DEF Shuffled, D!LocalFragment, D!BomVersion
  <1>5. \A r : Leads(document, r) = Leads(other, r)
    <2> TAKE r
    <2> DEFINE p == Everything(document)
    <2>1. Everything(other) = p
      BY <1>3
    <2> HIDE DEF p
    <2>2. D!LocalFragment(document, r) = D!LocalFragment(other, r)
      BY <1>4
    <2>3. D!Target(p, document, r) = D!Target(p, other, r)
      BY <2>2 DEF D!Target
    <2>4. D!Carriers(p, document, r) = D!Carriers(p, other, r)
      BY <2>3 DEF D!Carriers
    <2> QED BY <2>1, <2>4, Zenon DEF Leads, p
  <1>6. \A r : RowOf(document, r) = RowOf(other, r)
    <2> TAKE r
    <2>1. Leads(document, r) = Leads(other, r)
      BY <1>5
    <2> DEFINE Row(named) == IF named = {} THEN D!RefKey(r) ELSE (CHOOSE c \in named : TRUE).target
    <2>2. RowOf(document, r) = Row(Leads(document, r)) /\ RowOf(other, r) = Row(Leads(other, r))
      BY DEF RowOf
    <2> HIDE DEF Row
    <2> QED BY <2>1, <2>2
  <1>7. ScopeOf(document) = ScopeOf(other)
    BY ShuffleScoped
  <1>8. Like(Statement(document, i, k), Statement(other, j, l))
    <2> DEFINE row == RowOf(document, ref)
               led == Leads(document, ref)
               scope == ScopeOf(document)
               Makes(x, place, resource, instances) == D!CdxCandidate(x, place, resource, instances)
    <2>1. \A p, q, resource, instances : Like(Makes(v, p, resource, instances), Makes(w, q, resource, instances))
      <3> HIDE DEF v, w
      <3> QED BY <1>2 DEF Like, D!CdxCandidate
    <2> HIDE DEF Makes
    <2>2. CASE v.affects = <<>>
      <3>1. /\ Statement(document, i, k) = Makes(v, <<i, k>>, scope.resource, {})
            /\ Statement(other, j, l) = Makes(w, <<j, l>>, scope.resource, {})
        BY <1>2, <1>7, <2>2 DEF Statement, Makes
      <3> QED BY <2>1, <3>1
    <2>3. CASE v.affects # <<>>
      <3> DEFINE resource == IF row = D!Subject THEN scope.resource
                             ELSE <<"package", scope.resource[1], scope.lineage, row>>
                 instances == IF row = D!Subject THEN {} ELSE led
      <3>1. Statement(document, i, k) = Makes(v, <<i, k>>, resource, instances)
        BY <2>3 DEF Statement, Makes
      <3>2. Statement(other, j, l) = Makes(w, <<j, l>>, resource, instances)
        <4>1. w.affects # <<>> /\ w.affects[l].ref = ref
          BY <1>2, <2>3
        <4>2. RowOf(other, ref) = row /\ Leads(other, ref) = led /\ ScopeOf(other) = scope
          BY <1>5, <1>6, <1>7
        <4> HIDE DEF row, led, scope, ref
        <4> QED BY <4>1, <4>2 DEF Statement, Makes
      <3> HIDE DEF resource, instances
      <3> QED BY <2>1, <3>1, <3>2
    <2> QED BY <2>2, <2>3
  <1>9. Related(R, document, other)
    <2>1. \A x, y : <<x, y>> \in R => Akin(x, y)
      BY <1>1, RecastAkin
    <2> QED BY <1>1, <2>1 DEF Related, Shuffled
  <1>10. D!MatchRan(document, v, entry) <=> D!MatchRan(other, w, entry)
    <2> DEFINE named == D!Meant(document, ref)
               some == D!Bearers(document, named)
               others == D!Bearers(other, named)
    <2>1. /\ D!Meant(other, ref) = named
          /\ Paired(R, some, others)
          /\ (\A s \in D!Range(document.subject) : s.ref # <<named>>)
              <=> \A s \in D!Range(other.subject) : s.ref # <<named>>
      <3>1. D!Meant(other, ref) = named
        BY <1>9, BornePair
      <3> HIDE DEF named
      <3>2. /\ Paired(R, some, others)
            /\ (\A s \in D!Range(document.subject) : s.ref # <<named>>)
                <=> \A s \in D!Range(other.subject) : s.ref # <<named>>
        BY <1>9, BornePair
      <3> QED BY <3>1, <3>2
    <2>2. \A x, y : <<x, y>> \in R => x.version = y.version /\ D!PackageKey(x) = D!PackageKey(y)
      BY <1>1, RecastAkin DEF Akin
    <2>3. (some # {}) <=> (others # {})
      BY <2>1 DEF Paired
    <2> DEFINE One(those) ==
                 \A c, d \in those : D!PackageKey(c) = D!PackageKey(d) /\ c.version \notin entry.unaffected
    <2>4. One(some) <=> One(others)
      <3> HIDE DEF some, others
      <3>1. ASSUME One(some) PROVE One(others)
        <4> SUFFICES ASSUME NEW c \in others, NEW d \in others
                     PROVE  D!PackageKey(c) = D!PackageKey(d) /\ c.version \notin entry.unaffected
          OBVIOUS
        <4>1. PICK x \in some : <<x, c>> \in R
          BY <2>1 DEF Paired
        <4>2. PICK y \in some : <<y, d>> \in R
          BY <2>1 DEF Paired
        <4> QED BY <2>2, <3>1, <4>1, <4>2
      <3>2. ASSUME One(others) PROVE One(some)
        <4> SUFFICES ASSUME NEW c \in some, NEW d \in some
                     PROVE  D!PackageKey(c) = D!PackageKey(d) /\ c.version \notin entry.unaffected
          OBVIOUS
        <4>1. PICK x \in others : <<c, x>> \in R
          BY <2>1 DEF Paired
        <4>2. PICK y \in others : <<d, y>> \in R
          BY <2>1 DEF Paired
        <4> QED BY <2>2, <3>2, <4>1, <4>2
      <3> QED BY <3>1, <3>2
    <2>5. (v.state \in D!MatchStates \/ (v.state = D!None /\ ~v.judged))
            <=> (w.state \in D!MatchStates \/ (w.state = D!None /\ ~w.judged))
      BY <1>2
    <2> HIDE DEF some, others, named, v, w, entry
    <2>6. D!MatchRan(document, v, entry) <=>
            /\ v.state \in D!MatchStates \/ (v.state = D!None /\ ~v.judged)
            /\ some # {} /\ \A s \in D!Range(document.subject) : s.ref # <<named>>
            /\ \A c, d \in some : D!PackageKey(c) = D!PackageKey(d) /\ c.version \notin entry.unaffected
      BY DEF D!MatchRan, some, named
    <2>7. D!MatchRan(other, w, entry) <=>
            /\ w.state \in D!MatchStates \/ (w.state = D!None /\ ~w.judged)
            /\ others # {} /\ \A s \in D!Range(other.subject) : s.ref # <<named>>
            /\ \A c, d \in others : D!PackageKey(c) = D!PackageKey(d) /\ c.version \notin entry.unaffected
      BY <2>1 DEF D!MatchRan, others
    <2> QED BY <2>1, <2>3, <2>4, <2>5, <2>6, <2>7
  <1>11. MatchAt(document, i, k) <=> MatchAt(other, j, l)
    <2>1. MatchAt(document, i, k) <=> v.affects # <<>> /\ D!MatchRan(document, v, entry)
      BY DEF MatchAt
    <2>2. MatchAt(other, j, l) <=> w.affects # <<>> /\ D!MatchRan(other, w, w.affects[l])
      BY DEF MatchAt
    <2> HIDE DEF v, w, entry
    <2> QED BY <1>2, <1>10, <2>1, <2>2
  <1> QED BY <1>8, <1>11

\* Two folds of as many candidates that say the same are one observation.
LEMMA FoldAlike ==
  ASSUME NEW key, NEW some, NEW others, NEW t \in Bijection(some, others), IsFiniteSet(some), some # {},
         \A c \in some : Like(c, t[c]) /\ c.text \in Nat
  PROVE  D!AssembleFold(key, some) = D!AssembleFold(key, others)
  <1> DEFINE severity == D!Worst({c.severity : c \in some})
             texts == {c.text : c \in some}
             Sources(those) == {c.source : c \in {d \in those : d.severity = severity}} \ {0}
  <1>1. /\ t \in [some -> others] /\ \A d \in others : \E c \in some : t[c] = d
    BY DEF Bijection, Surjection, Injection
  <1>2. \A c \in some : t[c] \in others /\ Like(c, t[c])
    BY <1>1
  <1>3. \A d \in others : \E c \in some : Like(c, d)
    BY <1>1, <1>2
  <1>4. /\ {c.severity : c \in some} = {d.severity : d \in others}
        /\ Sources(some) = Sources(others)
        /\ UNION {c.states : c \in some} = UNION {d.states : d \in others}
        /\ UNION {c.instances : c \in some} = UNION {d.instances : d \in others}
        /\ texts = {d.text : d \in others}
    <2> HIDE DEF severity
    <2>1. \A c \in some : \E d \in others : Like(c, d)
      BY <1>2
    <2>2. Sources(some) = Sources(others)
      BY <1>3, <2>1 DEF Like
    <2>3. {c.severity : c \in some} = {d.severity : d \in others} /\ texts = {d.text : d \in others}
      BY <1>3, <2>1 DEF Like
    <2>4. {c.states : c \in some} = {d.states : d \in others}
      BY <1>3, <2>1 DEF Like
    <2>5. {c.instances : c \in some} = {d.instances : d \in others}
      BY <1>3, <2>1 DEF Like
    <2> QED BY <2>2, <2>3, <2>4, <2>5
  <1>5. D!Cardinality(some) = D!Cardinality(others)
    <2>1. Cardinality(some) = Cardinality(others)
      BY FS_Bijection DEF ExistsBijection
    <2> QED BY <2>1, CountedAlike
  <1>6. D!Order(some).text = D!Order(others).text
    <2>1. texts \in SUBSET Nat /\ texts # {}
      OBVIOUS
    <2>2. PICK n \in texts : \A m \in texts : n <= m
      <3> HIDE DEF texts
      <3> QED BY <2>1, LeastOfNats
    <2>3. ASSUME NEW those, {c.text : c \in those} = texts PROVE D!Order(those).text = n
      <3>1. PICK c \in those : c.text = n
        BY <2>2, <2>3
      <3>2. \A d \in those : d.text \in texts
        BY <2>3
      <3>3. \A d \in those : c.text <= d.text
        BY <2>2, <3>1, <3>2
      <3>4. D!Order(those) \in those /\ \A d \in those : D!Order(those).text <= d.text
        BY <3>3 DEF D!Order
      <3>5. D!Order(those).text <= n /\ D!Order(those).text \in texts
        BY <3>1, <3>2, <3>4
      <3>6. n <= D!Order(those).text /\ n \in Nat /\ D!Order(those).text \in Nat
        BY <2>1, <2>2, <3>5
      <3> QED BY <3>5, <3>6
    <2> HIDE DEF texts
    <2>4. {c.text : c \in some} = texts /\ {d.text : d \in others} = texts
      BY <1>4 DEF texts
    <2> QED BY <2>3, <2>4
  <1>7. D!Worst({d.severity : d \in others}) = severity
    BY <1>4
  <1> HIDE DEF severity, texts
  <1> QED BY <1>4, <1>5, <1>6, <1>7, Zenon DEF D!AssembleFold, severity

\* A bill shows what it shows with its lists in another order.
LEMMA ShuffleShows ==
  ASSUME NEW document, NEW other, Shuffled(document, other), CdxListed(document), CdxListed(other),
         IsFiniteSet(Stated(document)), \A v \in D!Range(document.vulnerabilities) : v.text \in Nat
  PROVE  Shown(document) = Shown(other)
  <1> DEFINE At(d, place) == Statement(d, place[1], place[2])
             stated == Stated(document)
             others == Stated(other)
             Fold(key) == D!AssembleFold(key, {c \in stated : c.key = key})
             Other(key) == D!AssembleFold(key, {c \in others : c.key = key})
  <1>1. PICK f \in Bijection(Places(document), Places(other)) : \A place \in Places(document) :
          Reread(document.vulnerabilities[place[1]], place[2], other.vulnerabilities[f[place][1]], f[place][2])
    BY DEF Shuffled
  <1>2. /\ f \in [Places(document) -> Places(other)]
        /\ \A q \in Places(other) : \E p \in Places(document) : f[p] = q
        /\ \A p, q \in Places(document) : f[p] = f[q] => p = q
    BY DEF Bijection, Surjection, Injection, IsInjective
  <1>3. \A place \in Places(document) :
          /\ Like(At(document, place), At(other, f[place]))
          /\ MatchAt(document, place[1], place[2]) <=> MatchAt(other, f[place][1], f[place][2])
    BY <1>1, ShuffleStates
  <1>4. stated = {At(document, place) : place \in Places(document)}
        /\ others = {At(other, place) : place \in Places(other)}
    BY DEF Stated
  <1>5. /\ \A place \in Places(document) : At(document, place).place = place
        /\ \A place \in Places(other) : At(other, place).place = place
    <2>1. \A d, i, k : At(d, <<i, k>>).place = <<i, k>>
      BY DEF Statement, D!CdxCandidate
    <2>2. \A d : \A place \in Places(d) : \E i, k : place = <<i, k>>
      BY DEF Places
    <2> HIDE DEF At
    <2> QED BY <2>1, <2>2
  <1>6. \A place \in Places(document) : At(document, place).text \in Nat
    <2> SUFFICES ASSUME NEW place \in Places(document) PROVE At(document, place).text \in Nat
      OBVIOUS
    <2>1. document.vulnerabilities[place[1]] \in D!Range(document.vulnerabilities)
      BY DEF Places, D!Range
    <2>2. At(document, place).text = document.vulnerabilities[place[1]].text
      BY DEF Statement, D!CdxCandidate
    <2> QED BY <2>1, <2>2
  <1> HIDE DEF At, stated, others
  <1> DEFINE twin == [c \in stated |-> At(other, f[c.place])]
  <1>7. ASSUME NEW c \in stated
        PROVE  /\ c.place \in Places(document) /\ c = At(document, c.place)
               /\ twin[c] \in others /\ Like(c, twin[c]) /\ twin[c].place = f[c.place] /\ c.text \in Nat
    <2>1. PICK place \in Places(document) : c = At(document, place)
      BY <1>4
    <2>2. c.place = place
      BY <1>5, <2>1
    <2>3. f[place] \in Places(other) /\ twin[c] = At(other, f[place])
      BY <1>2, <2>2
    <2> HIDE DEF twin
    <2> QED BY <1>3, <1>4, <1>5, <1>6, <2>1, <2>2, <2>3
  <1>8. ASSUME NEW d \in others PROVE \E c \in stated : twin[c] = d
    <2>1. PICK q \in Places(other) : d = At(other, q)
      BY <1>4
    <2>2. PICK p \in Places(document) : f[p] = q
      BY <1>2
    <2>3. At(document, p) \in stated /\ At(document, p).place = p
      BY <1>4, <1>5
    <2> QED BY <2>1, <2>2, <2>3
  <1> HIDE DEF twin
  <1>9. ASSUME NEW c \in stated, NEW d \in stated, twin[c] = twin[d] PROVE c = d
    <2>1. f[c.place] = f[d.place]
      BY <1>7, <1>9
    <2>2. c.place = d.place
      BY <1>2, <1>7, <2>1
    <2> QED BY <1>7, <2>2
  <1>10. {c.key : c \in stated} = {d.key : d \in others}
    BY <1>7, <1>8 DEF Like
  <1>11. ASSUME NEW key \in {c.key : c \in stated} PROVE Fold(key) = Other(key)
    <2> DEFINE some == {c \in stated : c.key = key}
               copies == {c \in others : c.key = key}
               t == [c \in some |-> twin[c]]
    <2>1. t \in [some -> copies]
      BY <1>7 DEF Like
    <2>2. \A c, d \in some : t[c] = t[d] => c = d
      BY <1>9
    <2>3. \A d \in copies : \E c \in some : t[c] = d
      <3> SUFFICES ASSUME NEW d \in copies PROVE \E c \in some : t[c] = d
        OBVIOUS
      <3>1. PICK c \in stated : twin[c] = d
        BY <1>8
      <3>2. c \in some
        BY <1>7, <3>1 DEF Like
      <3> QED BY <3>1, <3>2
    <2>4. IsFiniteSet(some) /\ some # {}
      BY FS_Subset DEF stated
    <2>5. \A c \in some : Like(c, t[c]) /\ c.text \in Nat
      BY <1>7
    <2> HIDE DEF some, copies, t
    <2>6. t \in Bijection(some, copies)
      BY <2>1, <2>2, <2>3 DEF Bijection, Surjection, Injection, IsInjective
    <2>7. D!AssembleFold(key, some) = D!AssembleFold(key, copies)
      BY <2>4, <2>5, <2>6, FoldAlike
    <2> QED BY <2>7 DEF some, copies
  <1>12. ScopeRow(document) = ScopeRow(other)
    <2>1. ScopeOf(document) = ScopeOf(other)
      BY ShuffleScoped
    <2>2. Evident(document) <=> Evident(other)
      BY <1>2, <1>3, EvidentAt
    <2> QED BY <2>1, <2>2 DEF ScopeRow, D!ScopeObservation, D!ScopeKey
  <1> HIDE DEF Fold, Other
  <1> DEFINE keys == {c.key : c \in stated}
             scope == ScopeRow(document)
  <1>13. Shown(document) = {Fold(key) : key \in keys} \cup {o \in {scope} : scope.key \notin keys}
    BY DEF Shown, Fold, stated
  <1>14. Shown(other) = {Other(key) : key \in {d.key : d \in others}}
                        \cup {o \in {ScopeRow(other)} : ScopeRow(other).key \notin {d.key : d \in others}}
    BY DEF Shown, Other, others
  <1>15. Shown(other) = {Other(key) : key \in keys} \cup {o \in {scope} : scope.key \notin keys}
    BY <1>10, <1>12, <1>14
  <1> HIDE DEF scope
  <1> QED BY <1>11, <1>13, <1>15

-----------------------------------------------------------------------------
(* What stops a walk over a bill is of the bill.                              *)

\* A walk that shows nothing: refused, or with an error.
Stalled(p) == p.step \in {"rejected", "bound", "done"} \/ D!HasErrors(p.diagnostics)

\* What stops the walk between the components and the records.
Gated(document) ==
  \/ D!Matched(document) /\ \A x \in Whole(document) : x.subject
  \/ D!Matched(document) /\ D!Tools(document) = {}
  \/ ToolOf(document) \cap Refused # {}
  \/ ScopeOf(document).refused
  \/ D!OverBound(document)

\* A record that is itself an error.
Faulty(v) == D!RecordErrors(v) # {} \/ D!HasErrors(D!AnalysisCodes(v))

\* A row that can be recorded.
Nameable(row) == row = D!Subject \/ ~D!TooLong(row)

\* More identities than an artifact may have.
Over(folds) == D!Cardinality({c.key : c \in folds}) > MaxObservations

\* The walk stays at its record, or has come to the next one.
Onwards(p, q) == q.at = p.at \/ (q.at = p.at + 1 /\ q.entry = 0)

\* The walk over the components is stopped by one that cannot be read.
LEMMA IndexStalls ==
  ASSUME NEW document, NEW p, DOMAIN p = CdxFields, p.step = "index", ~Stalled(p)
  PROVE  LET q == D!Index(p, document) IN
         /\ Stalled(q) <=> ~Head(p.pending).component.sound
         /\ q.step \in {"index", "rejected"}
  <1> DEFINE q == D!Index(p, document)
             x == Head(p.pending)
             rest == [p EXCEPT !.pending = Tail(@)]
  <1>1. CASE ~x.component.sound
    <2>1. q = D!Faulted(rest, document, "invalid_component")
      BY <1>1 DEF D!Index
    <2>2. DOMAIN rest = CdxFields /\ rest.step = "index"
      BY DEF CdxFields
    <2> HIDE DEF rest, x
    <2>3. Stalled(q) /\ q.step \in {"index", "rejected"}
      <3>1. CASE D!Matched(document)
        <4>1. q = D!Added(rest, {D!Error("invalid_component")})
          BY <2>1, <3>1 DEF D!Faulted
        <4>2. D!Error("invalid_component") \in q.diagnostics /\ q.step = "index"
          BY <2>2, <4>1 DEF D!Added, CdxFields
        <4>3. D!Error("invalid_component").level = "ERROR"
          BY DEF D!Error
        <4> HIDE DEF q
        <4> QED BY <4>2, <4>3, ErrorsAre DEF Stalled
      <3>2. CASE ~D!Matched(document)
        <4>1. q = [rest EXCEPT !.step = "rejected"]
          BY <2>1, <3>2 DEF D!Faulted
        <4>2. q.step = "rejected"
          BY <2>2, <4>1 DEF CdxFields
        <4> HIDE DEF q
        <4> QED BY <4>2 DEF Stalled
      <3> QED BY <3>1, <3>2
    <2> QED BY <1>1, <2>3 DEF x
  <1>2. CASE x.component.sound
    <2>1. q.step = "index" /\ q.diagnostics = p.diagnostics
      BY <1>2 DEF D!Index, CdxFields
    <2> HIDE DEF q
    <2>2. ~Stalled(q)
      BY <2>1 DEF Stalled
    <2> QED BY <1>2, <2>1, <2>2 DEF q
  <1> QED BY <1>1, <1>2

\* Between the components and the records it is stopped by what the bill says of itself.
LEMMA ScopeStalls ==
  ASSUME NEW document, NEW p, DOMAIN p = CdxFields, ~D!HasErrors(p.diagnostics),
         D!Matched(document) => (p.components = 0 <=> \A x \in Whole(document) : x.subject)
  PROVE  LET q == D!ReadScope(p, document) IN
         /\ Stalled(q) <=> Gated(document)
         /\ ~Stalled(q) => q.step = "fold"
  <1> DEFINE named == D!Tools(document) # {}
             tool == IF named THEN D!Tools(document) ELSE {"cyclonedx"}
             scope == D!Scope(document, tool)
             first == D!When(~named, D!Warning("tool_identity_fallback"))
                      \cup D!When(D!Cardinality(tool) > 1, D!Warning("tool_identity_ambiguous"))
             known == D!Added(p, first)
             noted == D!When(scope.resource = <<"scan", <<tool>>>>, D!Warning("subject_identity_fallback"))
                      \cup D!When(document.version = D!Unusable, D!Warning("bom_version_invalid"))
                      \cup D!When(document.timestamp = D!Unusable, D!Warning("source_timestamp_invalid"))
                      \cup D!When(~D!Usable(document.timestamp), D!Warning("source_timestamp_missing"))
             both == D!Added(known, noted)
             read == [both EXCEPT !.step = IF D!OverBound(document) THEN "bound" ELSE "fold",
                                  !.tool = tool, !.scope = scope.resource, !.lineage = scope.lineage]
             blank == D!Added(p, {D!Error("invalid_bom")})
             bare == D!Matched(document) /\ p.components = 0
             unnamed == D!Matched(document) /\ ~named
             q == D!ReadScope(p, document)
  <1>1. q = IF bare THEN [p EXCEPT !.step = "rejected"]
            ELSE IF unnamed THEN [blank EXCEPT !.step = "done"]
            ELSE IF tool \cap Refused # {}
            THEN D!Faulted([p EXCEPT !.step = "done"], document, "identity_input_invalid")
            ELSE IF scope.refused
            THEN D!Faulted([known EXCEPT !.step = "done"], document, "identity_input_invalid")
            ELSE read
    BY Zenon DEF D!ReadScope
  <1>2. tool = ToolOf(document) /\ scope = ScopeOf(document)
    BY Zenon DEF ScopeOf, ToolOf
  <1>3. Gated(document) <=> bare \/ unnamed \/ tool \cap Refused # {} \/ scope.refused \/ D!OverBound(document)
    <2> HIDE DEF tool, scope
    <2> QED BY <1>2 DEF Gated
  <1>4. \A x \in first \cup noted : x.level # "ERROR"
    BY DEF D!When, D!Warning
  <1> HIDE DEF first, noted, scope, tool, bare, unnamed, named
  <1>5. ASSUME NEW r, DOMAIN r = CdxFields, NEW more
        PROVE  DOMAIN D!Added(r, more) = CdxFields /\ D!Added(r, more).diagnostics = r.diagnostics \cup more
    BY <1>5 DEF D!Added, CdxFields
  <1>6. DOMAIN known = CdxFields /\ known.diagnostics = p.diagnostics \cup first
    BY <1>5
  <1>7. DOMAIN blank = CdxFields
    BY <1>5
  <1> HIDE DEF known, blank
  <1>8. DOMAIN both = CdxFields /\ both.diagnostics = p.diagnostics \cup first \cup noted
    BY <1>5, <1>6
  <1> HIDE DEF both
  <1>9. /\ read.step = IF D!OverBound(document) THEN "bound" ELSE "fold"
        /\ read.diagnostics = p.diagnostics \cup (first \cup noted)
    BY <1>8 DEF CdxFields
  <1>10. ~D!HasErrors(read.diagnostics)
    <2> HIDE DEF read
    <2> QED BY <1>4, <1>9, WarningsAdded
  <1> HIDE DEF read
  <1>11. /\ Stalled(read) <=> D!OverBound(document)
         /\ ~Stalled(read) => read.step = "fold"
    BY <1>9, <1>10 DEF Stalled
  <1>12. ASSUME NEW r, DOMAIN r = CdxFields
         PROVE  Stalled(D!Faulted([r EXCEPT !.step = "done"], document, "identity_input_invalid"))
    <2> DEFINE done == [r EXCEPT !.step = "done"]
               f == D!Faulted(done, document, "identity_input_invalid")
    <2>1. DOMAIN done = CdxFields /\ done.step = "done"
      BY <1>12 DEF CdxFields
    <2> HIDE DEF done
    <2>2. f.step \in {"done", "rejected"}
      BY <2>1 DEF D!Faulted, D!Added, CdxFields
    <2> HIDE DEF f
    <2>3. Stalled(f)
      BY <2>2 DEF Stalled
    <2> QED BY <2>3 DEF f, done
  <1>13. Stalled([p EXCEPT !.step = "rejected"]) /\ Stalled([blank EXCEPT !.step = "done"])
    BY <1>7 DEF Stalled, CdxFields
  <1>14. /\ Stalled(D!Faulted([p EXCEPT !.step = "done"], document, "identity_input_invalid"))
         /\ Stalled(D!Faulted([known EXCEPT !.step = "done"], document, "identity_input_invalid"))
    BY <1>6, <1>12
  <1> HIDE DEF q
  <1>15. Stalled(q) <=> bare \/ unnamed \/ tool \cap Refused # {} \/ scope.refused \/ D!OverBound(document)
    BY <1>1, <1>11, <1>13, <1>14, Zenon
  <1>16. ~Stalled(q) => q.step = "fold"
    BY <1>1, <1>11, <1>13, <1>14, Zenon
  <1> QED BY <1>3, <1>15, <1>16 DEF q

\* What the folds have with one more, past the cap or not.
LEMMA PutStalls ==
  ASSUME NEW p, DOMAIN p = CdxFields, p.step = "fold", ~D!HasErrors(p.diagnostics), NEW c
  PROVE  LET q == D!Put(p, c) IN
         /\ DOMAIN q = CdxFields /\ q.at = p.at
         /\ Stalled(q) <=> Over(p.folds \cup {c})
         /\ ~Stalled(q) => q.step = "fold" /\ q.folds = p.folds \cup {c}
  <1> DEFINE q == D!Put(p, c)
             folds == p.folds \cup {c}
  <1>1. q = IF Over(folds) THEN [p EXCEPT !.step = "bound"] ELSE [p EXCEPT !.folds = folds]
    BY DEF D!Put, Over
  <1> HIDE DEF folds
  <1>2. CASE Over(folds)
    <2>1. DOMAIN q = CdxFields /\ q.step = "bound" /\ q.at = p.at
      BY <1>1, <1>2 DEF CdxFields
    <2> HIDE DEF q
    <2>2. Stalled(q)
      BY <2>1 DEF Stalled
    <2> QED BY <1>2, <2>1, <2>2 DEF q, folds
  <1>3. CASE ~Over(folds)
    <2>1. /\ DOMAIN q = CdxFields /\ q.step = "fold" /\ q.diagnostics = p.diagnostics
          /\ q.at = p.at /\ q.folds = folds
      BY <1>1, <1>3 DEF CdxFields
    <2> HIDE DEF q
    <2>2. ~Stalled(q)
      BY <2>1 DEF Stalled
    <2> QED BY <1>3, <2>1, <2>2 DEF q, folds
  <1> QED BY <1>2, <1>3

\* An entry stops it when its row cannot be recorded, or is one too many.
LEMMA EntryStalls ==
  ASSUME NEW document, NEW p, DOMAIN p = CdxFields, p.step = "fold", ~Stalled(p),
         p.index = CarriersOf(Whole(document)),
         p.scope = ScopeOf(document).resource, p.lineage = ScopeOf(document).lineage,
         p.at \in DOMAIN document.vulnerabilities,
         document.vulnerabilities[p.at].affects # <<>>
  PROVE  LET row == RowOf(document, document.vulnerabilities[p.at].affects[p.entry].ref)
             q == D!Entry(p, document)
         IN /\ Stalled(q) <=> ~Nameable(row) \/ Over(p.folds \cup {Statement(document, p.at, p.entry)})
            /\ ~Stalled(q) => /\ q.step = "fold" /\ Onwards(p, q)
                              /\ q.folds = p.folds \cup {Statement(document, p.at, p.entry)}
  <1> DEFINE v == document.vulnerabilities[p.at]
             entry == v.affects[p.entry]
             carriers == D!Carriers(p, document, entry.ref)
             named == D!Resolve(carriers)
             target == IF named = {} THEN D!RefKey(entry.ref) ELSE (CHOOSE c \in named : TRUE).target
             resource == IF target = D!Subject THEN p.scope ELSE <<"package", p.scope[1], p.lineage, target>>
             weak == D!When(D!Conflict(carriers), D!Warning("bom_ref_conflict"))
                     \cup D!When(named = {}, D!Warning("affects_unresolved"))
                     \cup D!When(D!Weak(target), D!Warning("package_identity_weak"))
             denied == D!When(D!Contradicted(entry, named), D!Warning("affects_version_unaffected"))
             located == D!Added(p, weak)
             faulty == D!Added(located, {D!Error("identity_input_invalid")})
             noted == D!Added(located, denied)
             ran == D!Counts(v, entry, named)
             counted == [noted EXCEPT !.resolved = @ \/ ran]
             instances == IF target = D!Subject THEN {} ELSE named
             candidate == D!CdxCandidate(v, <<p.at, p.entry>>, resource, instances)
             a == D!Affect(p, document, v, entry)
             last == p.entry = Len(v.affects)
             q == D!Entry(p, document)
  <1>1. a = IF target # D!Subject /\ D!TooLong(target) THEN faulty ELSE D!Put(counted, candidate)
    BY Zenon DEF D!Affect
  <1>2. q = IF last THEN D!NextRecord(a) ELSE [a EXCEPT !.entry = @ + 1]
    BY DEF D!Entry
  <1>3. carriers = D!Carriers(Everything(document), document, entry.ref)
    <2>1. Everything(document).index = p.index
      BY DEF Everything
    <2> HIDE DEF entry
    <2> QED BY <2>1 DEF D!Carriers, D!Target
  <1>4. named = Leads(document, entry.ref) /\ target = RowOf(document, entry.ref)
    BY <1>3 DEF Leads, RowOf
  <1>5. candidate = Statement(document, p.at, p.entry)
    <2> HIDE DEF named, target
    <2> QED BY <1>4 DEF Statement
  <1> HIDE DEF candidate, target, ran
  <1>6. \A x \in weak \cup denied : x.level # "ERROR"
    <2> HIDE DEF carriers, named, entry
    <2> QED BY DEF D!When, D!Warning
  <1> HIDE DEF weak, denied
  <1>7. ASSUME NEW r, DOMAIN r = CdxFields, NEW more
        PROVE  LET s == D!Added(r, more) IN
               /\ DOMAIN s = CdxFields /\ s.diagnostics = r.diagnostics \cup more /\ s.step = r.step
               /\ s.folds = r.folds /\ s.at = r.at
    BY <1>7 DEF D!Added, CdxFields
  <1>8. /\ DOMAIN located = CdxFields /\ located.diagnostics = p.diagnostics \cup weak
        /\ located.step = "fold" /\ located.folds = p.folds /\ located.at = p.at
    BY <1>7
  <1> HIDE DEF located
  <1>9. DOMAIN faulty = CdxFields /\ D!HasErrors(faulty.diagnostics)
    <2>1. DOMAIN faulty = CdxFields /\ faulty.diagnostics = located.diagnostics \cup {D!Error("identity_input_invalid")}
      BY <1>7, <1>8
    <2> HIDE DEF faulty
    <2> QED BY <2>1, ErrorsAre DEF D!Error
  <1>10. /\ DOMAIN noted = CdxFields /\ noted.diagnostics = p.diagnostics \cup (weak \cup denied)
         /\ noted.step = "fold" /\ noted.folds = p.folds /\ noted.at = p.at
    BY <1>7, <1>8
  <1> HIDE DEF faulty, noted
  <1>11. /\ DOMAIN counted = CdxFields /\ counted.diagnostics = noted.diagnostics
         /\ counted.step = "fold" /\ counted.folds = p.folds /\ counted.at = p.at
    BY <1>10 DEF CdxFields
  <1>12. ~D!HasErrors(noted.diagnostics)
    BY <1>6, <1>10, WarningsAdded DEF Stalled
  <1> HIDE DEF counted
  <1> DEFINE put == D!Put(counted, candidate)
             refused == target # D!Subject /\ D!TooLong(target)
  <1>13. /\ DOMAIN put = CdxFields /\ put.at = p.at
         /\ Stalled(put) <=> Over(p.folds \cup {candidate})
         /\ ~Stalled(put) => put.step = "fold" /\ put.folds = p.folds \cup {candidate}
    BY <1>11, <1>12, PutStalls
  <1>20. a = IF refused THEN faulty ELSE put
    BY <1>1
  <1>21. refused <=> ~Nameable(target)
    BY DEF Nameable
  <1> HIDE DEF put, refused, a
  <1>14. DOMAIN a = CdxFields
    BY <1>9, <1>13, <1>20
  <1>15. Stalled(faulty)
    BY <1>9 DEF Stalled
  <1>16. /\ Stalled(a) <=> ~Nameable(target) \/ Over(p.folds \cup {candidate})
         /\ ~Stalled(a) => a.step = "fold" /\ a.at = p.at /\ a.folds = p.folds \cup {candidate}
    BY <1>13, <1>15, <1>20, <1>21
  <1> HIDE DEF last
  <1>17. /\ q.step = a.step /\ q.diagnostics = a.diagnostics /\ q.folds = a.folds
         /\ q.at = a.at \/ (q.at = a.at + 1 /\ q.entry = 0)
    BY <1>2, <1>14 DEF D!NextRecord, CdxFields
  <1> HIDE DEF q
  <1>18. Stalled(q) <=> Stalled(a)
    BY <1>17 DEF Stalled
  <1>19. target = RowOf(document, document.vulnerabilities[p.at].affects[p.entry].ref)
    BY <1>4
  <1> HIDE DEF v, entry
  <1> QED BY <1>5, <1>16, <1>17, <1>18, <1>19 DEF q, Onwards

\* A record stops it when it is itself an error, or is one too many.
LEMMA RecordStalls ==
  ASSUME NEW document, NEW p, DOMAIN p = CdxFields, p.step = "fold", ~Stalled(p),
         p.scope = ScopeOf(document).resource
  PROVE  LET v == document.vulnerabilities[p.at]
             q == D!Record(p, document)
         IN /\ Stalled(q) <=> \/ Faulty(v)
                              \/ v.affects = <<>> /\ Over(p.folds \cup {Statement(document, p.at, 0)})
            /\ ~Stalled(q) =>
                 /\ q.step = "fold" /\ Onwards(p, q)
                 /\ q.folds = IF v.affects = <<>> THEN p.folds \cup {Statement(document, p.at, 0)} ELSE p.folds
  <1> DEFINE v == document.vulnerabilities[p.at]
             codes == D!AnalysisCodes(v) \cup D!When(v.unfixed, D!Warning("response_will_not_fix"))
             noted == D!Added(p, codes)
             faulty == D!Added(p, D!RecordErrors(v))
             missing == D!Added(noted, {D!Warning("affects_missing")})
             c == D!CdxCandidate(v, <<p.at, 0>>, p.scope, {})
             put == D!Put(missing, c)
             q == D!Record(p, document)
  <1>1. q = IF D!RecordErrors(v) # {} THEN D!NextRecord(faulty)
            ELSE IF v.affects = <<>> THEN D!NextRecord(put) ELSE [noted EXCEPT !.entry = 1]
    BY DEF D!Record
  <1>2. \A x \in {D!Warning("affects_missing")} : x.level # "ERROR"
    BY DEF D!Warning
  <1>3. \A x \in D!When(v.unfixed, D!Warning("response_will_not_fix")) : x.level # "ERROR"
    BY DEF D!When, D!Warning
  <1>4. ~D!HasErrors(p.diagnostics)
    BY DEF Stalled
  <1>5. v.affects = <<>> => c = Statement(document, p.at, 0)
    BY DEF Statement
  <1>6. ASSUME NEW r, DOMAIN r = CdxFields, NEW more
        PROVE  LET s == D!Added(r, more) IN
               /\ DOMAIN s = CdxFields /\ s.diagnostics = r.diagnostics \cup more /\ s.step = r.step
               /\ s.folds = r.folds /\ s.at = r.at
    BY <1>6 DEF D!Added, CdxFields
  <1>7. /\ DOMAIN noted = CdxFields /\ noted.diagnostics = p.diagnostics \cup codes
        /\ noted.step = "fold" /\ noted.folds = p.folds /\ noted.at = p.at
    BY <1>6
  <1>8. DOMAIN faulty = CdxFields /\ faulty.diagnostics = p.diagnostics \cup D!RecordErrors(v)
    BY <1>6
  <1>9. D!HasErrors(codes) <=> D!HasErrors(D!AnalysisCodes(v))
    <2> HIDE DEF v
    <2> QED BY <1>3, ErrorsAre
  <1>10. D!RecordErrors(v) # {} => D!HasErrors(faulty.diagnostics)
    <2> HIDE DEF v, faulty
    <2> QED BY <1>8, RecordErrorsAre, ErrorsAre
  <1> HIDE DEF codes, c, noted, faulty
  <1>11. D!HasErrors(noted.diagnostics) <=> D!HasErrors(D!AnalysisCodes(v))
    <2> HIDE DEF v
    <2> QED BY <1>4, <1>7, <1>9, ErrorsAre
  <1>12. /\ DOMAIN missing = CdxFields /\ missing.diagnostics = noted.diagnostics \cup {D!Warning("affects_missing")}
         /\ missing.step = "fold" /\ missing.folds = p.folds /\ missing.at = p.at
    BY <1>6, <1>7
  <1> HIDE DEF missing
  <1>13. D!HasErrors(missing.diagnostics) <=> D!HasErrors(D!AnalysisCodes(v))
    <2> HIDE DEF v
    <2> QED BY <1>2, <1>11, <1>12, ErrorsAre
  <1>14. /\ DOMAIN put = CdxFields /\ p.diagnostics \subseteq put.diagnostics
         /\ missing.diagnostics = put.diagnostics
    <2> HIDE DEF c
    <2> QED BY <1>7, <1>12 DEF D!Put, CdxFields
  <1>15. ~D!HasErrors(missing.diagnostics) =>
           /\ Stalled(put) <=> Over(p.folds \cup {c})
           /\ ~Stalled(put) => put.step = "fold" /\ put.at = p.at /\ put.folds = p.folds \cup {c}
    BY <1>12, PutStalls
  <1> HIDE DEF put
  <1>16. ASSUME NEW r, DOMAIN r = CdxFields
         PROVE  LET s == D!NextRecord(r) IN
                /\ s.step = r.step /\ s.diagnostics = r.diagnostics /\ s.entry = 0
                /\ s.at = r.at + 1 /\ s.folds = r.folds
    BY <1>16 DEF D!NextRecord, CdxFields
  <1> HIDE DEF q
  <1>17. CASE D!RecordErrors(v) # {}
    <2>1. q = D!NextRecord(faulty)
      BY <1>1, <1>17
    <2>2. D!HasErrors(q.diagnostics)
      BY <1>8, <1>10, <1>16, <1>17, <2>1
    <2> QED BY <1>17, <2>2 DEF Stalled, Faulty, q
  <1>18. CASE D!RecordErrors(v) = {} /\ v.affects = <<>>
    <2>1. q = D!NextRecord(put)
      BY <1>1, <1>18
    <2>2. /\ q.step = put.step /\ q.diagnostics = put.diagnostics /\ q.entry = 0
          /\ q.at = put.at + 1 /\ q.folds = put.folds
      BY <1>14, <1>16, <2>1
    <2>3. Stalled(q) <=> Stalled(put)
      BY <2>2 DEF Stalled
    <2>4. D!HasErrors(D!AnalysisCodes(v)) => Stalled(put)
      BY <1>13, <1>14 DEF Stalled
    <2>5. Faulty(v) <=> D!HasErrors(D!AnalysisCodes(v))
      BY <1>18 DEF Faulty
    <2>6. c = Statement(document, p.at, 0) /\ v.affects = <<>>
      BY <1>5, <1>18
    <2> HIDE DEF v
    <2>7. /\ Stalled(q) <=> Faulty(v) \/ (v.affects = <<>> /\ Over(p.folds \cup {Statement(document, p.at, 0)}))
          /\ ~Stalled(q) => /\ q.step = "fold" /\ Onwards(p, q)
                            /\ q.folds = p.folds \cup {Statement(document, p.at, 0)}
      BY <1>13, <1>15, <2>2, <2>3, <2>4, <2>5, <2>6 DEF Onwards
    <2> QED BY <1>18, <2>7 DEF v, q
  <1>19. CASE D!RecordErrors(v) = {} /\ v.affects # <<>>
    <2>1. q = [noted EXCEPT !.entry = 1]
      BY <1>1, <1>19
    <2>2. q.step = "fold" /\ q.diagnostics = noted.diagnostics /\ q.at = p.at /\ q.folds = p.folds
      BY <1>7, <2>1 DEF CdxFields
    <2>3. Stalled(q) <=> D!HasErrors(D!AnalysisCodes(v))
      BY <1>11, <2>2 DEF Stalled
    <2>4. Faulty(v) <=> D!HasErrors(D!AnalysisCodes(v))
      BY <1>19 DEF Faulty
    <2> QED BY <1>19, <2>2, <2>3, <2>4 DEF q, Onwards
  <1> QED BY <1>17, <1>18, <1>19

\* At the end it is stopped when the bill's own row is one too many.
LEMMA CloseStalls ==
  ASSUME NEW p, DOMAIN p = CdxFields, ~D!HasErrors(p.diagnostics)
  PROVE  LET q == D!Close(p) IN
         /\ Stalled(q) <=> /\ \A c \in p.folds : c.key # D!ScopeKey(p)
                           /\ D!Cardinality({c.key : c \in p.folds}) + 1 > MaxObservations
         /\ ~Stalled(q) => q.step \in {"superseded", "scoped"}
         /\ q.at = p.at /\ q.folds = p.folds /\ q.diagnostics = p.diagnostics
  <1> DEFINE q == D!Close(p)
             taken == \E c \in p.folds : c.key = D!ScopeKey(p)
             full == D!Cardinality({c.key : c \in p.folds}) + 1 > MaxObservations
  <1>1. q = [p EXCEPT !.step = IF D!HasErrors(p.diagnostics) THEN "done"
                               ELSE IF taken THEN "superseded" ELSE IF full THEN "bound" ELSE "scoped"]
    BY DEF D!Close
  <1> HIDE DEF taken, full
  <1>2. /\ q.step = IF taken THEN "superseded" ELSE IF full THEN "bound" ELSE "scoped"
        /\ q.at = p.at /\ q.folds = p.folds /\ q.diagnostics = p.diagnostics
    BY <1>1 DEF CdxFields
  <1> HIDE DEF q
  <1>3. Stalled(q) <=> ~taken /\ full
    BY <1>2 DEF Stalled
  <1>4. ~Stalled(q) => q.step \in {"superseded", "scoped"}
    BY <1>2, <1>3
  <1> QED BY <1>2, <1>3, <1>4 DEF taken, full, q

-----------------------------------------------------------------------------
(* A walk that nothing has stopped has found what it passed to fit.          *)

\* What an error has stopped stays stopped.
LEMMA StallsStay ==
  ASSUME NEW document, NEW p, DOMAIN p = CdxFields, D!Walking(p), D!HasErrors(p.diagnostics)
  PROVE  Stalled(D!Stepped(p, document))
  <1> DEFINE Stays(q) == p.diagnostics \subseteq q.diagnostics \/ q.step = "rejected"
             v == document.vulnerabilities[p.at]
  <1>1. p.step \in {"index", "fold"}
    BY DEF D!Walking
  <1>2. \A q : Stays(q) => Stalled(q)
    BY ErrorsStay DEF Stalled
  <1>3. ASSUME NEW r, DOMAIN r = CdxFields, p.diagnostics \subseteq r.diagnostics, NEW more
        PROVE  LET s == D!Added(r, more) IN DOMAIN s = CdxFields /\ p.diagnostics \subseteq s.diagnostics
    BY <1>3 DEF D!Added, CdxFields
  <1>4. ASSUME NEW r, DOMAIN r = CdxFields, p.diagnostics \subseteq r.diagnostics, NEW c
        PROVE  LET s == D!Put(r, c) IN DOMAIN s = CdxFields /\ p.diagnostics \subseteq s.diagnostics
    BY <1>4 DEF D!Put, CdxFields
  <1>5. ASSUME NEW r, DOMAIN r = CdxFields, p.diagnostics \subseteq r.diagnostics
        PROVE  Stays(D!NextRecord(r))
    BY <1>5 DEF D!NextRecord, CdxFields
  <1>6. CASE p.step = "index" /\ p.pending # <<>>
    <2> DEFINE q == D!Index(p, document)
               rest == [p EXCEPT !.pending = Tail(@)]
    <2>1. D!Stepped(p, document) = q
      BY <1>6 DEF D!Stepped
    <2>2. CASE ~D!Head(p.pending).component.sound
      <3>1. q = D!Faulted(rest, document, "invalid_component")
        BY <2>2 DEF D!Index
      <3>2. DOMAIN rest = CdxFields /\ p.diagnostics \subseteq rest.diagnostics
        BY DEF CdxFields
      <3> HIDE DEF rest
      <3>3. Stays(q)
        BY <1>3, <3>1, <3>2 DEF D!Faulted, CdxFields
      <3> HIDE DEF q, Stays
      <3> QED BY <1>2, <2>1, <3>3
    <2>3. CASE D!Head(p.pending).component.sound
      <3>1. Stays(q)
        BY <2>3 DEF D!Index, CdxFields
      <3> HIDE DEF q, Stays
      <3> QED BY <1>2, <2>1, <3>1
    <2> QED BY <2>2, <2>3
  <1>7. CASE p.step = "index" /\ p.pending = <<>>
    <2>1. D!Stepped(p, document) = D!ReadScope(p, document)
      BY <1>7 DEF D!Stepped
    <2>2. D!ReadScope(p, document).step \in {"done", "rejected"}
      BY ScopeReads
    <2> QED BY <2>1, <2>2 DEF Stalled
  <1>8. CASE p.step = "fold" /\ p.at \in DOMAIN document.vulnerabilities /\ p.entry = 0
    <2> DEFINE codes == D!AnalysisCodes(v) \cup D!When(v.unfixed, D!Warning("response_will_not_fix"))
               noted == D!Added(p, codes)
               faulty == D!Added(p, D!RecordErrors(v))
               missing == D!Added(noted, {D!Warning("affects_missing")})
               put == D!Put(missing, D!CdxCandidate(v, <<p.at, 0>>, p.scope, {}))
               q == D!Record(p, document)
    <2>1. D!Stepped(p, document) = q
      BY <1>8 DEF D!Stepped
    <2>2. q = IF D!RecordErrors(v) # {} THEN D!NextRecord(faulty)
              ELSE IF v.affects = <<>> THEN D!NextRecord(put) ELSE [noted EXCEPT !.entry = 1]
      BY DEF D!Record
    <2> HIDE DEF v, codes
    <2>3. /\ DOMAIN noted = CdxFields /\ p.diagnostics \subseteq noted.diagnostics
          /\ DOMAIN faulty = CdxFields /\ p.diagnostics \subseteq faulty.diagnostics
      BY <1>3
    <2> HIDE DEF noted, faulty
    <2>4. DOMAIN missing = CdxFields /\ p.diagnostics \subseteq missing.diagnostics
      BY <1>3, <2>3
    <2> HIDE DEF missing
    <2>5. DOMAIN put = CdxFields /\ p.diagnostics \subseteq put.diagnostics
      BY <1>4, <2>4
    <2> HIDE DEF put
    <2>6. Stays([noted EXCEPT !.entry = 1])
      BY <2>3 DEF CdxFields
    <2>7. Stays(D!NextRecord(faulty)) /\ Stays(D!NextRecord(put))
      BY <1>5, <2>3, <2>5
    <2> HIDE DEF Stays, q
    <2> QED BY <1>2, <2>1, <2>2, <2>6, <2>7
  <1>9. CASE p.step = "fold" /\ p.at \in DOMAIN document.vulnerabilities /\ p.entry # 0
    <2> DEFINE a == D!Affect(p, document, v, v.affects[p.entry])
               q == D!Entry(p, document)
    <2>1. D!Stepped(p, document) = q
      BY <1>9 DEF D!Stepped
    <2>2. q = IF p.entry = Len(v.affects) THEN D!NextRecord(a) ELSE [a EXCEPT !.entry = @ + 1]
      BY DEF D!Entry
    <2>3. DOMAIN a = CdxFields /\ p.diagnostics \subseteq a.diagnostics
      BY <1>9, AffectAdds
    <2> HIDE DEF a
    <2>4. Stays(D!NextRecord(a)) /\ Stays([a EXCEPT !.entry = @ + 1])
      BY <1>5, <2>3 DEF CdxFields
    <2> HIDE DEF Stays, q
    <2> QED BY <1>2, <2>1, <2>2, <2>4
  <1>10. CASE p.step = "fold" /\ p.at \notin DOMAIN document.vulnerabilities
    <2>1. D!Stepped(p, document) = D!Close(p)
      BY <1>10 DEF D!Stepped
    <2>2. D!Close(p).step = "done"
      BY DEF D!Close, CdxFields
    <2> QED BY <2>1, <2>2 DEF Stalled
  <1> QED BY <1>1, <1>6, <1>7, <1>8, <1>9, <1>10

\* A bill the walk can read to its end: its components and its records can be read,
\* its tool, its subject and its packages can be named, and its identities fit.
Sound(document) ==
  /\ ~Gated(document) /\ \A x \in Whole(document) : x.component.sound
Recordable(document, i, k) ==
  LET v == document.vulnerabilities[i] IN
  v.affects # <<>> => Nameable(RowOf(document, v.affects[k].ref))
Full(folds) == D!Cardinality({c.key : c \in folds}) + 1 > MaxObservations
Fits(document) ==
  /\ document.shape = "ok" /\ ~document.faulted /\ Sound(document)
  /\ \A i \in DOMAIN document.vulnerabilities : ~Faulty(document.vulnerabilities[i])
  /\ \A place \in Places(document) : Recordable(document, place[1], place[2])
  /\ IsFiniteSet(Stated(document)) /\ ~Over(Stated(document))
  /\ (\A c \in Stated(document) : c.key # ScopeRow(document).key) => ~Full(Stated(document))

\* What a walk that nothing has stopped has found to fit.
Cleared(p, document) ==
  ~Stalled(p) =>
    /\ document.shape = "ok" /\ ~document.faulted
    /\ p.step \in {"index", "fold", "superseded", "scoped"}
    /\ p.step # "index" =>
         /\ Sound(document)
         /\ \A i \in DOMAIN document.vulnerabilities :
              (i < p.at \/ (i = p.at /\ p.entry # 0)) => ~Faulty(document.vulnerabilities[i])
         /\ \A c \in p.folds : Recordable(document, c.place[1], c.place[2])
         /\ ~Over(p.folds)
    /\ p.step = "scoped" => ~Full(p.folds)

\* A walk starts with nothing that stops it found.
LEMMA StartCleared ==
  ASSUME NEW document
  PROVE  Cleared(D!CdxStart(document), document)
  <1> DEFINE p == D!CdxStart(document)
  <1>1. /\ p.step = IF document.shape # "ok" \/ (document.faulted /\ ~D!Matched(document)) THEN "rejected" ELSE "index"
        /\ p.diagnostics = D!When(document.faulted, D!Error("invalid_bom"))
    BY DEF D!CdxStart
  <1> HIDE DEF p
  <1>2. document.faulted => D!HasErrors(p.diagnostics)
    BY <1>1, ErrorsAre DEF D!When, D!Error
  <1>3. Cleared(p, document)
    BY <1>1, <1>2 DEF Cleared, Stalled
  <1> QED BY <1>3 DEF p

\* Nothing is over the cap before the first candidate.
LEMMA NoneOver == ~Over({})
  <1>1. {c.key : c \in {}} = {}
    OBVIOUS
  <1>2. Cardinality({}) = 0
    BY FS_EmptySet
  <1>3. D!Cardinality({}) = 0
    BY <1>2, CountedAlike
  <1> QED BY <1>1, <1>3, CapAssumption DEF Over

\* Once every component is indexed, and none had an error, all of them were met.
LEMMA AllMet ==
  ASSUME NEW document, CdxNested(document), NEW p, Traced(p, document),
         p.step = "index", p.pending = <<>>, ~D!HasErrors(p.diagnostics)
  PROVE  /\ \A x \in Whole(document) : x.component.sound
         /\ p.components = 0 <=> \A x \in Whole(document) : x.subject
  <1>1. PICK seen : Seen(p, document, seen)
    BY DEF Traced
  <1>2. D!Range(p.pending) = {}
    BY DEF D!Range
  <1>3. Whole(document) \subseteq seen
    BY <1>1, <1>2, WholeReached DEF Seen
  <1>4. Whole(document) = seen
    BY <1>1, <1>3 DEF Seen
  <1> QED BY <1>1, <1>4 DEF Seen

\* A step that nothing stops has found what it passes to fit.
LEMMA StepCleared ==
  ASSUME NEW document, CdxListed(document), CdxNested(document),
         NEW p, CdxKept(p, document), Traced(p, document), Exact(p, document), D!Walking(p),
         Cleared(p, document)
  PROVE  Cleared(D!Stepped(p, document), document)
  <1> DEFINE records == document.vulnerabilities
             v == records[p.at]
  <1>1. p.step \in {"index", "fold"} /\ DOMAIN p = CdxFields
    BY DEF D!Walking, CdxKept
  <1>2. CASE D!HasErrors(p.diagnostics)
    BY <1>1, <1>2, StallsStay DEF Cleared
  <1>3. CASE ~D!HasErrors(p.diagnostics)
    <2>1. /\ ~Stalled(p) /\ document.shape = "ok" /\ ~document.faulted
      BY <1>1, <1>3 DEF Stalled, Cleared
    <2>2. CASE p.step = "index" /\ p.pending # <<>>
      <3>1. D!Stepped(p, document) = D!Index(p, document)
        BY <2>2 DEF D!Stepped
      <3>2. D!Index(p, document).step \in {"index", "rejected"}
        BY <1>1, <2>1, <2>2, IndexStalls
      <3> QED BY <2>1, <3>1, <3>2 DEF Cleared, Stalled
    <2>3. CASE p.step = "index" /\ p.pending = <<>>
      <3> DEFINE q == D!ReadScope(p, document)
      <3>1. D!Stepped(p, document) = q
        BY <2>3 DEF D!Stepped
      <3>2. /\ Stalled(q) <=> Gated(document)
            /\ ~Stalled(q) => q.step = "fold"
        BY <1>1, <1>3, <2>3, AllMet, ScopeStalls
      <3>3. q.at = 1 /\ q.entry = 0 /\ q.folds = {}
        BY <1>1, <2>3, ScopeReads DEF CdxKept
      <3>4. \A i \in DOMAIN records : ~(i < 1)
        BY EntriesAre
      <3> HIDE DEF q
      <3>5. Cleared(q, document)
        BY <1>3, <2>1, <2>3, <3>2, <3>3, <3>4, AllMet, NoneOver DEF Cleared, Sound
      <3> QED BY <3>1, <3>5
    <2>4. CASE p.step = "fold"
      <3>1. /\ Sound(document)
            /\ \A i \in DOMAIN records : (i < p.at \/ (i = p.at /\ p.entry # 0)) => ~Faulty(records[i])
            /\ \A c \in p.folds : Recordable(document, c.place[1], c.place[2])
            /\ ~Over(p.folds)
        BY <2>1, <2>4 DEF Cleared
      <3>2. /\ p.index = CarriersOf(Whole(document))
            /\ p.scope = ScopeOf(document).resource /\ p.lineage = ScopeOf(document).lineage
        BY <1>3, <2>4 DEF Traced, Exact
      <3>3. Tallied(p, document) /\ p.at \in Nat /\ \A i \in DOMAIN records : i \in Nat
        <4>1. Tallied(p, document)
          BY <1>3, <2>4 DEF CdxKept
        <4>2. DOMAIN records = 1 .. Len(records) /\ Len(records) \in Nat
          BY EntriesAre
        <4>3. p.at \in 1 .. Len(records) + 1
          BY <4>1 DEF Tallied
        <4> HIDE DEF records
        <4> QED BY <4>1, <4>2, <4>3
      <3>4. CASE p.at \in DOMAIN records /\ p.entry = 0
        <4> DEFINE q == D!Record(p, document)
                   c == Statement(document, p.at, 0)
        <4>1. D!Stepped(p, document) = q
          BY <2>4, <3>4 DEF D!Stepped
        <4>2. /\ Stalled(q) <=> Faulty(v) \/ (v.affects = <<>> /\ Over(p.folds \cup {c}))
              /\ ~Stalled(q) => /\ q.step = "fold" /\ Onwards(p, q)
                                /\ q.folds = IF v.affects = <<>> THEN p.folds \cup {c} ELSE p.folds
          BY <1>1, <2>1, <2>4, <3>2, RecordStalls
        <4>6. c.place = <<p.at, 0>>
          BY DEF Statement, D!CdxCandidate
        <4>3. v.affects = <<>> => Recordable(document, c.place[1], c.place[2])
          BY <4>6 DEF Recordable
        <4>4. ASSUME ~Stalled(q), NEW i \in DOMAIN records, i < q.at \/ (i = q.at /\ q.entry # 0)
              PROVE  ~Faulty(records[i])
          <5>1. i < p.at \/ i = p.at
            BY <3>3, <4>2, <4>4 DEF Onwards
          <5> QED BY <3>1, <4>2, <4>4, <5>1
        <4> HIDE DEF q, c
        <4>5. Cleared(q, document)
          BY <2>1, <3>1, <4>2, <4>3, <4>4 DEF Cleared
        <4> QED BY <4>1, <4>5
      <3>5. CASE p.at \in DOMAIN records /\ p.entry # 0
        <4> DEFINE q == D!Entry(p, document)
                   c == Statement(document, p.at, p.entry)
                   row == RowOf(document, v.affects[p.entry].ref)
        <4>1. D!Stepped(p, document) = q
          BY <2>4, <3>5 DEF D!Stepped
        <4>2. v.affects # <<>>
          BY <3>3, <3>5, EntriesAre DEF Tallied
        <4>3. /\ Stalled(q) <=> ~Nameable(row) \/ Over(p.folds \cup {c})
              /\ ~Stalled(q) => q.step = "fold" /\ Onwards(p, q) /\ q.folds = p.folds \cup {c}
          BY <1>1, <2>1, <2>4, <3>2, <3>5, <4>2, EntryStalls
        <4>4. c.place = <<p.at, p.entry>>
          BY DEF Statement, D!CdxCandidate
        <4>5. Nameable(row) => Recordable(document, c.place[1], c.place[2])
          BY <4>4 DEF Recordable
        <4>6. ASSUME ~Stalled(q), NEW i \in DOMAIN records, i < q.at \/ (i = q.at /\ q.entry # 0)
              PROVE  ~Faulty(records[i])
          <5>1. i < p.at \/ i = p.at
            BY <3>3, <4>3, <4>6 DEF Onwards
          <5> QED BY <3>1, <3>5, <5>1
        <4> HIDE DEF q, c, row
        <4>7. Cleared(q, document)
          BY <2>1, <3>1, <4>3, <4>5, <4>6 DEF Cleared
        <4> QED BY <4>1, <4>7
      <3>6. CASE p.at \notin DOMAIN records
        <4> DEFINE q == D!Close(p)
        <4>1. D!Stepped(p, document) = q
          BY <2>4, <3>6 DEF D!Stepped
        <4>2. /\ ~Stalled(q) => q.step \in {"superseded", "scoped"}
              /\ q.at = p.at /\ q.folds = p.folds
          BY <1>1, <1>3, CloseStalls
        <4>3. q.step = "scoped" => ~Full(p.folds)
          <5>1. q.step = IF \E c \in p.folds : c.key = D!ScopeKey(p) THEN "superseded"
                         ELSE IF Full(p.folds) THEN "bound" ELSE "scoped"
            BY <1>1, <1>3 DEF D!Close, CdxFields, Full
          <5> QED BY <5>1
        <4>4. \A i \in DOMAIN records : i < p.at
          BY <3>3, <3>6, EntriesAre DEF Tallied
        <4> HIDE DEF q
        <4>5. Cleared(q, document)
          BY <2>1, <3>1, <4>2, <4>3, <4>4 DEF Cleared
        <4> QED BY <4>1, <4>5
      <3> QED BY <3>4, <3>5, <3>6
    <2> QED BY <1>1, <2>2, <2>3, <2>4
  <1> QED BY <1>2, <1>3

\* A bill that imports is one that fits.
LEMMA ImportsFit ==
  ASSUME NEW document, CdxListed(document), NEW p, CdxKept(p, document), Exact(p, document),
         Cleared(p, document), p.step \in {"superseded", "scoped"}
  PROVE  Fits(document)
  <1> DEFINE stated == Stated(document)
  <1>1. /\ ~Stalled(p) /\ Tallied(p, document) /\ p.at \notin DOMAIN document.vulnerabilities
        /\ ~D!HasErrors(p.diagnostics)
    BY DEF CdxKept, Stalled
  <1>2. p.folds = stated /\ p.scope = ScopeOf(document).resource
    BY <1>1, AllStated
  <1>3. ScopeRow(document).key = D!ScopeKey(p)
    BY <1>2 DEF ScopeRow, D!ScopeObservation, D!ScopeKey
  <1>4. \A i \in DOMAIN document.vulnerabilities : i < p.at
    BY <1>1, EntriesAre DEF Tallied
  <1>5. \A place \in Places(document) : \E c \in stated : c.place[1] = place[1] /\ c.place[2] = place[2]
    <2>1. \A i, k : Statement(document, i, k).place = <<i, k>>
      BY DEF Statement, D!CdxCandidate
    <2>2. ASSUME NEW place \in Places(document)
          PROVE  \E c \in stated : c.place[1] = place[1] /\ c.place[2] = place[2]
      <3> DEFINE c == Statement(document, place[1], place[2])
      <3>1. c \in stated
        BY DEF Stated
      <3>2. c.place = <<place[1], place[2]>>
        BY <2>1
      <3> HIDE DEF c, stated
      <3> QED BY <3>1, <3>2
    <2> QED BY <2>2
  <1>6. p.step = "superseded" => \E c \in stated : c.key = ScopeRow(document).key
    BY <1>2, <1>3 DEF Exact
  <1>7. IsFiniteSet(stated)
    BY <1>1, <1>2 DEF Tallied
  <1> HIDE DEF stated
  <1>8. \A place \in Places(document) : Recordable(document, place[1], place[2])
    BY <1>1, <1>2, <1>5 DEF Cleared
  <1>9. /\ document.shape = "ok" /\ ~document.faulted /\ Sound(document)
        /\ \A i \in DOMAIN document.vulnerabilities : ~Faulty(document.vulnerabilities[i])
        /\ ~Over(stated) /\ (p.step = "scoped" => ~Full(stated))
    BY <1>1, <1>2, <1>4 DEF Cleared
  <1> QED BY <1>6, <1>7, <1>8, <1>9 DEF Fits, stated

-----------------------------------------------------------------------------
(* A bill that fits is walked to its end.                                    *)

\* Finitely many candidates have finitely many identities.
LEMMA KeysFinite ==
  ASSUME NEW some, IsFiniteSet(some)
  PROVE  IsFiniteSet({c.key : c \in some})
  <1> DEFINE keys == {c.key : c \in some}
             f == [c \in some |-> c.key]
  <1>1. f \in Surjection(some, keys)
    BY DEF Surjection
  <1> HIDE DEF keys, f
  <1>2. IsFiniteSet(keys)
    BY <1>1, FS_Surjection
  <1> QED BY <1>2 DEF keys

\* Some of the identities that fit, fit.
LEMMA FewerFit ==
  ASSUME NEW some, NEW all, IsFiniteSet(all), some \subseteq all, ~Over(all)
  PROVE  ~Over(some)
  <1> DEFINE keys(those) == {c.key : c \in those}
  <1>1. keys(some) \in SUBSET keys(all)
    OBVIOUS
  <1>2. IsFiniteSet(keys(all))
    BY KeysFinite
  <1>3. ~(D!Cardinality(keys(all)) > MaxObservations)
    BY DEF Over
  <1>4. Over(some) <=> D!Cardinality(keys(some)) > MaxObservations
    BY DEF Over
  <1> HIDE DEF keys
  <1>5. /\ IsFiniteSet(keys(some)) /\ Cardinality(keys(some)) <= Cardinality(keys(all))
        /\ Cardinality(keys(some)) \in Nat /\ Cardinality(keys(all)) \in Nat
    BY <1>1, <1>2, FS_Subset, FS_CardinalityType
  <1>6. ~(Cardinality(keys(some)) > MaxObservations)
    BY <1>3, <1>5, CountedAlike, CapAssumption
  <1> QED BY <1>4, <1>6, CountedAlike

\* What the walk has is of what the document states.
LEMMA FoldsStated ==
  ASSUME NEW document, NEW p, Tallied(p, document), Exact(p, document),
         p.step = "fold", ~D!HasErrors(p.diagnostics)
  PROVE  p.folds \subseteq Stated(document)
  <1> SUFFICES ASSUME NEW c \in p.folds PROVE c \in Stated(document)
    OBVIOUS
  <1>1. PICK i, k : Spoken(p, document, i, k) /\ c.place = <<i, k>>
    BY DEF Tallied, Says, D!CdxCandidate
  <1>2. <<i, k>> \in Places(document)
    BY <1>1 DEF Spoken, Places
  <1>3. c = Statement(document, c.place[1], c.place[2])
    BY DEF Exact
  <1>4. c.place \in Places(document)
    BY <1>1, <1>2
  <1> QED BY <1>3, <1>4 DEF Stated

\* The walk over a bill that fits is not stopped at its start, nor at a step.
LEMMA FitStarts ==
  ASSUME NEW document, Fits(document)
  PROVE  LET p == D!CdxStart(document) IN ~Stalled(p) /\ p.step = "index"
  <1> DEFINE p == D!CdxStart(document)
  <1>1. p.step = "index" /\ p.diagnostics = {}
    BY DEF Fits, D!CdxStart, D!When
  <1> HIDE DEF p
  <1>2. ~Stalled(p) /\ p.step = "index"
    BY <1>1, ErrorsAre DEF Stalled
  <1> QED BY <1>2 DEF p

\* Of a bill that fits, a step goes on or ends in observations.
LEMMA FitGoesOn ==
  ASSUME NEW document, CdxListed(document), CdxNested(document), Fits(document),
         NEW p, CdxKept(p, document), Traced(p, document), Exact(p, document), D!Walking(p), ~Stalled(p)
  PROVE  LET q == D!Stepped(p, document) IN
         ~Stalled(q) /\ q.step \in {"index", "fold", "superseded", "scoped"}
  <1> DEFINE records == document.vulnerabilities
             v == records[p.at]
  <1>1. p.step \in {"index", "fold"} /\ DOMAIN p = CdxFields /\ ~D!HasErrors(p.diagnostics)
    BY DEF D!Walking, CdxKept, Stalled
  <1>2. CASE p.step = "index" /\ p.pending # <<>>
    <2> DEFINE q == D!Index(p, document)
    <2>1. D!Stepped(p, document) = q
      BY <1>2 DEF D!Stepped
    <2>2. PICK seen : IsSequence(p.pending) /\ Seen(p, document, seen)
      BY <1>1, <1>2 DEF Traced
    <2>3. Head(p.pending) \in D!Range(p.pending)
      <3>1. 1 \in DOMAIN p.pending /\ Head(p.pending) = p.pending[1]
        BY <1>2, <2>2 DEF IsSequence
      <3> QED BY <3>1 DEF D!Range
    <2>4. Head(p.pending).component.sound
      BY <2>2, <2>3 DEF Seen, Fits, Sound
    <2>5. /\ Stalled(q) <=> ~Head(p.pending).component.sound
          /\ q.step \in {"index", "rejected"}
      BY <1>1, <1>2, IndexStalls
    <2> HIDE DEF q
    <2> QED BY <2>1, <2>4, <2>5 DEF Stalled
  <1>3. CASE p.step = "index" /\ p.pending = <<>>
    <2> DEFINE q == D!ReadScope(p, document)
    <2>1. D!Stepped(p, document) = q
      BY <1>3 DEF D!Stepped
    <2>2. /\ Stalled(q) <=> Gated(document)
          /\ ~Stalled(q) => q.step = "fold"
      BY <1>1, <1>3, AllMet, ScopeStalls
    <2> HIDE DEF q
    <2> QED BY <2>1, <2>2 DEF Fits, Sound
  <1>4. CASE p.step = "fold"
    <2>1. /\ p.index = CarriersOf(Whole(document))
          /\ p.scope = ScopeOf(document).resource /\ p.lineage = ScopeOf(document).lineage
      BY <1>1, <1>4 DEF Traced, Exact
    <2>2. Tallied(p, document)
      BY <1>1, <1>4 DEF CdxKept
    <2>3. p.folds \subseteq Stated(document)
      BY <1>1, <1>4, <2>2, FoldsStated
    <2>4. ASSUME NEW k, <<p.at, k>> \in Places(document) PROVE ~Over(p.folds \cup {Statement(document, p.at, k)})
      <3>1. Statement(document, p.at, k) \in Stated(document)
        BY <2>4 DEF Stated
      <3> QED BY <2>3, <3>1, FewerFit DEF Fits
    <2>5. CASE p.at \in DOMAIN records /\ p.entry = 0
      <3> DEFINE q == D!Record(p, document)
                 c == Statement(document, p.at, 0)
      <3>1. D!Stepped(p, document) = q
        BY <1>4, <2>5 DEF D!Stepped
      <3>2. /\ Stalled(q) <=> Faulty(v) \/ (v.affects = <<>> /\ Over(p.folds \cup {c}))
            /\ ~Stalled(q) => q.step = "fold"
        BY <1>1, <1>4, <2>1, RecordStalls
      <3>3. v.affects = <<>> => <<p.at, 0>> \in Places(document)
        BY <2>5 DEF Places, Entries
      <3>4. ~Faulty(v)
        BY <2>5 DEF Fits
      <3> HIDE DEF q, v
      <3> QED BY <2>4, <3>1, <3>2, <3>3, <3>4
    <2>6. CASE p.at \in DOMAIN records /\ p.entry # 0
      <3> DEFINE q == D!Entry(p, document)
                 c == Statement(document, p.at, p.entry)
                 row == RowOf(document, v.affects[p.entry].ref)
      <3>1. D!Stepped(p, document) = q
        BY <1>4, <2>6 DEF D!Stepped
      <3>2. v.affects # <<>> /\ p.entry \in Entries(v)
        BY <2>2, <2>6, EntriesAre DEF Tallied, Entries
      <3>3. /\ Stalled(q) <=> ~Nameable(row) \/ Over(p.folds \cup {c})
            /\ ~Stalled(q) => q.step = "fold"
        BY <1>1, <1>4, <2>1, <2>6, <3>2, EntryStalls
      <3>4. <<p.at, p.entry>> \in Places(document)
        BY <2>6, <3>2 DEF Places
      <3>5. Nameable(row)
        <4>1. Recordable(document, p.at, p.entry)
          BY <3>4 DEF Fits
        <4> QED BY <3>2, <4>1 DEF Recordable
      <3> HIDE DEF q, row
      <3> QED BY <2>4, <3>1, <3>3, <3>4, <3>5
    <2>7. CASE p.at \notin DOMAIN records
      <3> DEFINE q == D!Close(p)
      <3>1. D!Stepped(p, document) = q
        BY <1>4, <2>7 DEF D!Stepped
      <3>2. /\ Stalled(q) <=> (\A c \in p.folds : c.key # D!ScopeKey(p)) /\ Full(p.folds)
            /\ ~Stalled(q) => q.step \in {"superseded", "scoped"}
        BY <1>1, CloseStalls DEF Full
      <3>3. p.folds = Stated(document)
        BY <1>1, <1>4, <2>2, <2>7, AllStated
      <3>4. ScopeRow(document).key = D!ScopeKey(p)
        BY <2>1 DEF ScopeRow, D!ScopeObservation, D!ScopeKey
      <3> HIDE DEF q
      <3>5. (\A c \in p.folds : c.key # D!ScopeKey(p)) => ~Full(p.folds)
        BY <3>3, <3>4 DEF Fits
      <3> QED BY <3>1, <3>2, <3>5
    <2> QED BY <2>5, <2>6, <2>7
  <1> QED BY <1>1, <1>2, <1>3, <1>4

\* A walk is at its start, and goes on from where it was.
LEMMA WalksGoOn ==
  ASSUME NEW document
  PROVE  /\ D!Walks(document)[0] = D!CdxStart(document)
         /\ \A n \in Nat : D!Walks(document)[n + 1] = D!Onward(D!Walks(document)[n], document)
  <1> DEFINE Step(f) == [n \in Nat |-> IF n = 0 THEN D!CdxStart(document) ELSE D!Onward(f[n - 1], document)]
             L == D!Walks(document)
  <1>1. PICK F : F = Step(F)
    <2>1. /\ First("walk", document) = D!CdxStart(document)
          /\ \A x : After("walk", document, x) = D!Onward(x, document)
      BY DEF First, After
    <2> QED BY <2>1, RoundsAre
  <1>2. L = CHOOSE f : f = Step(f)
    BY Zenon DEF D!Walks
  <1>3. L = Step(L)
    <2> HIDE DEF Step
    <2> QED BY <1>1, <1>2, Zenon
  <1> HIDE DEF L
  <1>4. \A n \in Nat : L[n] = IF n = 0 THEN D!CdxStart(document) ELSE D!Onward(L[n - 1], document)
    BY <1>3
  <1>5. ASSUME NEW n \in Nat PROVE L[n + 1] = D!Onward(L[n], document)
    <2>1. n + 1 \in Nat /\ n + 1 # 0 /\ n + 1 - 1 = n
      OBVIOUS
    <2> QED BY <1>4, <2>1
  <1>6. L[0] = D!CdxStart(document)
    BY <1>4
  <1> QED BY <1>5, <1>6 DEF L

\* Every component listed is itself at first, and then itself turned once more.
LEMMA TurnsGoOn ==
  ASSUME NEW document
  PROVE  \A c \in D!Listed(document) :
           /\ D!Turns(document)[0][c] = c
           /\ \A n \in Nat : D!Turns(document)[n + 1][c] = D!Turn(D!Turns(document)[n], c)
  <1> DEFINE listed == D!Listed(document)
             Round(n, x) == [c \in listed |-> IF n = 0 THEN c ELSE D!Turn(x, c)]
             Step(f) == [n \in Nat |-> Round(n, f[n - 1])]
             L == D!Turns(document)
  <1>1. PICK F : F = Step(F)
    <2>1. /\ First("turns", document) = [c \in listed |-> c]
          /\ \A x : After("turns", document, x) = [c \in listed |-> D!Turn(x, c)]
      BY DEF First, After
    <2>2. ASSUME NEW x
          PROVE  /\ Round(0, x) = [c \in listed |-> c]
                 /\ \A n \in Nat : n # 0 => Round(n, x) = [c \in listed |-> D!Turn(x, c)]
      OBVIOUS
    <2>3. PICK F : F = [n \in Nat |-> IF n = 0 THEN [c \in listed |-> c] ELSE [c \in listed |-> D!Turn(F[n - 1], c)]]
      <3> HIDE DEF listed
      <3> QED BY <2>1, RoundsAre
    <2> HIDE DEF Round
    <2>4. ASSUME NEW n \in Nat PROVE F[n] = Round(n, F[n - 1])
      <3>1. F[n] = IF n = 0 THEN [c \in listed |-> c] ELSE [c \in listed |-> D!Turn(F[n - 1], c)]
        BY <2>3
      <3> QED BY <2>2, <3>1
    <2>5. F = [n \in Nat |-> F[n]]
      BY <2>3
    <2>6. F = [n \in Nat |-> Round(n, F[n - 1])]
      BY <2>4, <2>5
    <2> QED BY <2>6
  <1>2. L = CHOOSE f : f = Step(f)
    BY Zenon DEF D!Turns
  <1>3. L = Step(L)
    <2> HIDE DEF Step
    <2> QED BY <1>1, <1>2, Zenon
  <1> HIDE DEF L
  <1>4. \A n \in Nat : L[n] = Round(n, L[n - 1])
    <2> HIDE DEF Round
    <2> QED BY <1>3
  <1> SUFFICES ASSUME NEW c \in listed
               PROVE  L[0][c] = c /\ \A n \in Nat : L[n + 1][c] = D!Turn(L[n], c)
    BY DEF L
  <1>5. ASSUME NEW n \in Nat PROVE L[n + 1][c] = D!Turn(L[n], c)
    <2>1. n + 1 \in Nat /\ n + 1 # 0 /\ n + 1 - 1 = n
      OBVIOUS
    <2>2. L[n + 1] = Round(n + 1, L[n])
      BY <1>4, <2>1
    <2> QED BY <2>1, <2>2
  <1>6. L[0] = Round(0, L[0 - 1])
    BY <1>4
  <1>7. L[0][c] = c
    BY <1>6
  <1> QED BY <1>5, <1>7

\* And itself at first, and then itself raised once more.
LEMMA RaisesGoOn ==
  ASSUME NEW document
  PROVE  \A c \in D!Listed(document) :
           /\ D!Raises(document)[0][c] = c
           /\ \A n \in Nat : D!Raises(document)[n + 1][c] = D!Raise(D!Raises(document)[n], c)
  <1> DEFINE listed == D!Listed(document)
             Round(n, x) == [c \in listed |-> IF n = 0 THEN c ELSE D!Raise(x, c)]
             Step(f) == [n \in Nat |-> Round(n, f[n - 1])]
             L == D!Raises(document)
  <1>1. PICK F : F = Step(F)
    <2>1. /\ First("raises", document) = [c \in listed |-> c]
          /\ \A x : After("raises", document, x) = [c \in listed |-> D!Raise(x, c)]
      BY DEF First, After
    <2>2. ASSUME NEW x
          PROVE  /\ Round(0, x) = [c \in listed |-> c]
                 /\ \A n \in Nat : n # 0 => Round(n, x) = [c \in listed |-> D!Raise(x, c)]
      OBVIOUS
    <2>3. PICK F : F = [n \in Nat |-> IF n = 0 THEN [c \in listed |-> c] ELSE [c \in listed |-> D!Raise(F[n - 1], c)]]
      <3> HIDE DEF listed
      <3> QED BY <2>1, RoundsAre
    <2> HIDE DEF Round
    <2>4. ASSUME NEW n \in Nat PROVE F[n] = Round(n, F[n - 1])
      <3>1. F[n] = IF n = 0 THEN [c \in listed |-> c] ELSE [c \in listed |-> D!Raise(F[n - 1], c)]
        BY <2>3
      <3> QED BY <2>2, <3>1
    <2>5. F = [n \in Nat |-> F[n]]
      BY <2>3
    <2>6. F = [n \in Nat |-> Round(n, F[n - 1])]
      BY <2>4, <2>5
    <2> QED BY <2>6
  <1>2. L = CHOOSE f : f = Step(f)
    BY Zenon DEF D!Raises
  <1>3. L = Step(L)
    <2> HIDE DEF Step
    <2> QED BY <1>1, <1>2, Zenon
  <1> HIDE DEF L
  <1>4. \A n \in Nat : L[n] = Round(n, L[n - 1])
    <2> HIDE DEF Round
    <2> QED BY <1>3
  <1> SUFFICES ASSUME NEW c \in listed
               PROVE  L[0][c] = c /\ \A n \in Nat : L[n + 1][c] = D!Raise(L[n], c)
    BY DEF L
  <1>5. ASSUME NEW n \in Nat PROVE L[n + 1][c] = D!Raise(L[n], c)
    <2>1. n + 1 \in Nat /\ n + 1 # 0 /\ n + 1 - 1 = n
      OBVIOUS
    <2>2. L[n + 1] = Round(n + 1, L[n])
      BY <1>4, <2>1
    <2> QED BY <2>1, <2>2
  <1>6. L[0] = Round(0, L[0 - 1])
    BY <1>4
  <1>7. L[0][c] = c
    BY <1>6
  <1> QED BY <1>5, <1>7

\* Read again, a bill that fits shows what it has to show, once it is read to its end.
LEMMA RereadShows ==
  ASSUME NEW document, CdxListed(document), CdxNested(document), Fits(document),
         ~D!Walking(D!Again(document))
  PROVE  D!Reread(document) = Shown(document)
  <1> DEFINE Goes(p) == /\ CdxKept(p, document) /\ Traced(p, document) /\ Exact(p, document)
                        /\ ~Stalled(p) /\ p.step \in {"index", "fold", "superseded", "scoped"}
             bad == {n \in Nat : ~Goes(D!Walks(document)[n])}
  <1>1. bad = {}
    <2> SUFFICES ASSUME bad # {} PROVE FALSE
      OBVIOUS
    <2>1. PICK n \in bad : \A k \in bad : n <= k
      <3>1. bad \in SUBSET Nat
        OBVIOUS
      <3> HIDE DEF bad
      <3> QED BY <3>1, LeastOfNats
    <2>2. n \in Nat /\ ~Goes(D!Walks(document)[n])
      BY <2>1
    <2>3. CASE n = 0
      <3>1. Goes(D!CdxStart(document))
        BY CdxStartKeeps, CdxStartTraced, CdxStartExact, FitStarts
      <3> QED BY <2>2, <2>3, <3>1, WalksGoOn
    <2>4. CASE n # 0
      <3> DEFINE p == D!Walks(document)[n - 1]
      <3>1. n - 1 \in Nat /\ n - 1 \notin bad /\ n - 1 + 1 = n
        <4>1. n - 1 \in Nat /\ ~(n <= n - 1) /\ n - 1 + 1 = n
          BY <2>2, <2>4
        <4> HIDE DEF bad
        <4> QED BY <2>1, <4>1
      <3>2. Goes(p)
        BY <3>1
      <3>3. D!Walks(document)[n] = D!Onward(p, document)
        BY <3>1, WalksGoOn
      <3> HIDE DEF p
      <3>4. CASE D!Walking(p)
        <4>1. D!Walks(document)[n] = D!Stepped(p, document)
          BY <3>3, <3>4 DEF D!Onward
        <4>2. Goes(D!Stepped(p, document))
          BY <3>2, <3>4, CdxStepTells, CdxStepTraced, CdxStepExact, FitGoesOn
        <4> QED BY <2>2, <4>1, <4>2
      <3>5. CASE ~D!Walking(p)
        BY <2>2, <3>2, <3>3, <3>5 DEF D!Onward
      <3> QED BY <3>4, <3>5
    <2> QED BY <2>3, <2>4
  <1> DEFINE p == D!Again(document)
  <1>2. Goes(p)
    BY <1>1, StepsAssumption DEF D!Again
  <1> HIDE DEF p
  <1>3. p.step \in {"superseded", "scoped"}
    BY <1>2 DEF D!Walking, p
  <1>4. D!CdxOutput(p, document).observations = Shown(document)
    BY <1>2, <1>3, ShowsItself
  <1> QED BY <1>4 DEF D!Reread, p

-----------------------------------------------------------------------------
(* A bill fits in any order, and upgraded.                                   *)

\* Finitely many statements are at finitely many places, and the other way round.
LEMMA PlacesBounded ==
  ASSUME NEW document
  PROVE  IsFiniteSet(Stated(document)) <=> IsFiniteSet(Places(document))
  <1> DEFINE stated == Stated(document)
             places == Places(document)
             f == [place \in places |-> Statement(document, place[1], place[2])]
             g == [c \in stated |-> c.place]
  <1>1. \A place \in places : Statement(document, place[1], place[2]).place = place
    <2>1. \A i, k : Statement(document, i, k).place = <<i, k>>
      BY DEF Statement, D!CdxCandidate
    <2>2. \A place \in places : \E i, k : place = <<i, k>>
      BY DEF Places
    <2> HIDE DEF places
    <2> QED BY <2>1, <2>2
  <1>2. stated = {Statement(document, place[1], place[2]) : place \in places}
    BY DEF Stated
  <1> HIDE DEF stated, places
  <1>3. f \in Surjection(places, stated)
    BY <1>2 DEF Surjection
  <1>4. g \in Surjection(stated, places)
    <2>1. ASSUME NEW c \in stated PROVE g[c] \in places
      BY <1>1, <1>2
    <2>2. ASSUME NEW place \in places PROVE \E c \in stated : g[c] = place
      BY <1>1, <1>2
    <2> QED BY <2>1, <2>2 DEF Surjection
  <1> HIDE DEF f, g
  <1>5. IsFiniteSet(stated) <=> IsFiniteSet(places)
    BY <1>3, <1>4, FS_Surjection
  <1> QED BY <1>5 DEF stated, places

\* Identities that fit still do under other names, as long as no two had been one.
LEMMA KeysFit ==
  ASSUME NEW document, Fits(document), NEW other, IsFiniteSet(Stated(other)), NEW g,
         {c.key : c \in Stated(other)} = {g[key] : key \in {c.key : c \in Stated(document)}},
         g[ScopeRow(document).key] = ScopeRow(other).key
  PROVE  /\ ~Over(Stated(other))
         /\ (\A c \in Stated(other) : c.key # ScopeRow(other).key) => ~Full(Stated(other))
  <1> DEFINE keys == {c.key : c \in Stated(document)}
             others == {c.key : c \in Stated(other)}
             f == [key \in keys |-> g[key]]
             scope == ScopeRow(document).key
             moved == ScopeRow(other).key
  <1>1. /\ ~(D!Cardinality(keys) > MaxObservations)
        /\ scope \notin keys => ~(D!Cardinality(keys) + 1 > MaxObservations)
    BY DEF Fits, Over, Full
  <1>2. /\ Over(Stated(other)) <=> D!Cardinality(others) > MaxObservations
        /\ Full(Stated(other)) <=> D!Cardinality(others) + 1 > MaxObservations
        /\ (\A c \in Stated(other) : c.key # moved) => moved \notin others
    BY DEF Over, Full
  <1>3. IsFiniteSet(keys)
    BY KeysFinite DEF Fits
  <1> HIDE DEF keys, others, scope, moved
  <1>4. others = {g[key] : key \in keys} /\ g[scope] = moved
    BY DEF keys, others, scope, moved
  <1>5. f \in Surjection(keys, others)
    BY <1>4 DEF Surjection
  <1> HIDE DEF f
  <1>6. /\ IsFiniteSet(others) /\ Cardinality(others) <= Cardinality(keys)
        /\ Cardinality(others) \in Nat /\ Cardinality(keys) \in Nat
    BY <1>3, <1>5, FS_Surjection, FS_CardinalityType
  <1>7. D!Cardinality(others) = Cardinality(others) /\ D!Cardinality(keys) = Cardinality(keys)
    BY CountedAlike
  <1>8. ~(Cardinality(others) > MaxObservations)
    BY <1>1, <1>6, <1>7, CapAssumption
  <1>9. scope \notin keys => ~(Cardinality(others) + 1 > MaxObservations)
    BY <1>1, <1>6, <1>7, CapAssumption
  <1>10. scope \in keys => moved \in others
    BY <1>4
  <1> QED BY <1>2, <1>7, <1>8, <1>9, <1>10 DEF moved

\* The components of a bill can be read when those they are related to can, and some
\* of them are no subject.
LEMMA WholeFits ==
  ASSUME NEW R, NEW document, NEW other, Trees(R, document, other),
         \A x, y : <<x, y>> \in R => x.sound = y.sound,
         \A x \in Whole(document) : x.component.sound
  PROVE  /\ \A y \in Whole(other) : y.component.sound
         /\ (\A y \in Whole(other) : y.subject) => \A x \in Whole(document) : x.subject
  <1>1. /\ \A x \in Whole(document) : \E y \in Whole(other) :
             x.subject = y.subject /\ <<x.component, y.component>> \in R
        /\ \A y \in Whole(other) : \E x \in Whole(document) :
             x.subject = y.subject /\ <<x.component, y.component>> \in R
    BY WholePair
  <1>2. ASSUME NEW y \in Whole(other) PROVE y.component.sound
    <2>1. PICK x \in Whole(document) : <<x.component, y.component>> \in R
      BY <1>1
    <2>2. x.component.sound = y.component.sound
      BY <2>1
    <2> QED BY <2>2
  <1>3. ASSUME NEW x \in Whole(document), \A y \in Whole(other) : y.subject PROVE x.subject
    BY <1>1, <1>3
  <1> QED BY <1>2, <1>3

\* A record says of itself the same wherever it is.
LEMMA FaultyAlike ==
  ASSUME NEW v, NEW w, v.sound = w.sound, v.id = w.id, v.state = w.state
  PROVE  Faulty(v) <=> Faulty(w)
  <1>1. D!RecordErrors(v) = D!RecordErrors(w)
    BY DEF D!RecordErrors
  <1>2. D!AnalysisCodes(v) = D!AnalysisCodes(w)
    BY DEF D!AnalysisCodes
  <1> QED BY <1>1, <1>2 DEF Faulty

\* A bill in another order fits when the bill does.
LEMMA ShuffleFits ==
  ASSUME NEW document, NEW other, Shuffled(document, other), Fits(document),
         CdxListed(document), CdxListed(other), IsFiniteSet(CarriersOf(Whole(document))),
         other.shape = document.shape, other.faulted = document.faulted,
         D!Matched(other) => D!Matched(document), ~D!OverBound(other)
  PROVE  Fits(other)
  <1> DEFINE records == document.vulnerabilities
             others == other.vulnerabilities
  <1>1. PICK R : Trees(R, document, other) /\ \A x, y : <<x, y>> \in R => Recast(x, y)
    BY DEF Shuffled
  <1>2. PICK f \in Bijection(Places(document), Places(other)) : \A place \in Places(document) :
          Reread(records[place[1]], place[2], others[f[place][1]], f[place][2])
    BY DEF Shuffled
  <1>3. /\ f \in Surjection(Places(document), Places(other))
        /\ \A place \in Places(document) : f[place] \in Places(other)
        /\ \A q \in Places(other) : \E place \in Places(document) : f[place] = q
    BY DEF Bijection, Surjection, Injection
  <1>4. \A ref : RowOf(document, ref) = RowOf(other, ref)
    <2>1. \A x, y : Recast(x, y) => Akin(x, y)
      BY RecastAkin
    <2>2. Related(R, document, other)
      BY <1>1, <2>1 DEF Shuffled, Related
    <2> QED BY <2>2, RowsPair
  <1>5. Sound(other)
    <2>1. /\ \A y \in Whole(other) : y.component.sound
          /\ (\A y \in Whole(other) : y.subject) => \A x \in Whole(document) : x.subject
      BY <1>1, WholeFits DEF Recast, Fits, Sound
    <2>2. /\ D!Tools(other) = D!Tools(document) /\ ToolOf(other) = ToolOf(document)
          /\ ScopeOf(other) = ScopeOf(document)
      BY ShuffleScoped DEF Shuffled, ToolOf, D!Tools
    <2>3. ~Gated(other)
      BY <2>1, <2>2 DEF Gated, Fits, Sound
    <2> QED BY <2>1, <2>3 DEF Sound
  <1>6. ASSUME NEW j \in DOMAIN others PROVE ~Faulty(others[j])
    <2>1. \E l : <<j, l>> \in Places(other)
      <3>1. Entries(others[j]) # {}
        <4>1. Len(others[j].affects) \in Nat /\ (others[j].affects = <<>> <=> Len(others[j].affects) = 0)
          BY EntriesAre
        <4>2. others[j].affects # <<>> => 1 \in 1 .. Len(others[j].affects)
          BY <4>1
        <4> QED BY <4>2 DEF Entries
      <3> QED BY <3>1 DEF Places
    <2>2. PICK l : <<j, l>> \in Places(other)
      BY <2>1
    <2>3. PICK place \in Places(document) : f[place] = <<j, l>>
      BY <1>3, <2>2
    <2>4. Reread(records[place[1]], place[2], others[j], l)
      <3>1. f[place][1] = j /\ f[place][2] = l
        BY <2>3
      <3> QED BY <1>2, <3>1
    <2>5. ~Faulty(records[place[1]])
      BY DEF Fits, Places
    <2> QED BY <2>4, <2>5, FaultyAlike DEF Reread
  <1>7. ASSUME NEW q \in Places(other) PROVE Recordable(other, q[1], q[2])
    <2>1. PICK place \in Places(document) : f[place] = q
      BY <1>3
    <2>2. Reread(records[place[1]], place[2], others[q[1]], q[2])
      BY <1>2, <2>1
    <2>3. Recordable(document, place[1], place[2])
      BY DEF Fits
    <2> QED BY <1>4, <2>2, <2>3 DEF Recordable, Reread
  <1>8. IsFiniteSet(Stated(other))
    BY <1>3, FS_Surjection, PlacesBounded DEF Fits
  <1>9. /\ ~Over(Stated(other))
        /\ (\A c \in Stated(other) : c.key # ScopeRow(other).key) => ~Full(Stated(other))
    <2> DEFINE At(d, place) == Statement(d, place[1], place[2])
               keys == {c.key : c \in Stated(document)}
               moved == {c.key : c \in Stated(other)}
               scope == ScopeRow(document).key
               g == [key \in keys \cup {scope} |-> key]
    <2>1. \A place \in Places(document) : At(document, place).key = At(other, f[place]).key
      BY <1>2, ShuffleStates DEF Like
    <2>2. keys = {At(document, place).key : place \in Places(document)}
          /\ moved = {At(other, place).key : place \in Places(other)}
      BY DEF Stated
    <2> HIDE DEF At, keys, moved
    <2>3. keys = moved
      BY <1>3, <2>1, <2>2
    <2>4. scope = ScopeRow(other).key
      BY ShuffleScoped DEF ScopeRow, D!ScopeObservation, D!ScopeKey
    <2> HIDE DEF scope
    <2>5. moved = {g[key] : key \in keys} /\ g[scope] = ScopeRow(other).key
      BY <2>3, <2>4
    <2> HIDE DEF g
    <2> QED BY <1>8, <2>5, KeysFit DEF keys, moved, scope
  <1>10. other.shape = "ok" /\ ~other.faulted
    BY DEF Fits
  <1> QED BY <1>5, <1>6, <1>7, <1>8, <1>9, <1>10 DEF Fits

\* An upgrade of a bill fits when the bill does.
LEMMA UpgradeFits ==
  ASSUME NEW document, NEW other, Upgraded(document, other), Fits(document),
         IsFiniteSet(CarriersOf(Whole(document))),
         other.shape = document.shape, other.faulted = document.faulted
  PROVE  Fits(other)
  <1>1. PICK R : Trees(R, document, other) /\ \A x, y : <<x, y>> \in R => Upgrade(x, y)
    BY DEF Upgraded
  <1>2. other.vulnerabilities = document.vulnerabilities /\ Places(other) = Places(document)
    BY DEF Upgraded, Places
  <1>3. \A ref : RowOf(document, ref) = RowOf(other, ref)
    <2>1. Related(R, document, other)
      BY <1>1, UpgradeAkin DEF Upgraded, Related
    <2> QED BY <2>1, RowsPair
  <1>4. /\ ScopeOf(document).lineage = ScopeOf(other).lineage
        /\ ScopeOf(document).resource[1] = ScopeOf(other).resource[1]
        /\ ScopeOf(document).refused = ScopeOf(other).refused
    BY UpgradeScoped
  <1>5. Sound(other)
    <2>1. /\ \A y \in Whole(other) : y.component.sound
          /\ (\A y \in Whole(other) : y.subject) => \A x \in Whole(document) : x.subject
      BY <1>1, WholeFits DEF Upgrade, Fits, Sound
    <2>2. /\ D!Tools(other) = D!Tools(document) /\ ToolOf(other) = ToolOf(document)
          /\ D!Matched(other) = D!Matched(document) /\ D!OverBound(other) = D!OverBound(document)
      BY DEF Upgraded, ToolOf, D!Tools, D!Matched, D!OverBound
    <2>3. ~Gated(other)
      BY <1>4, <2>1, <2>2 DEF Gated, Fits, Sound
    <2> QED BY <2>1, <2>3 DEF Sound
  <1>6. \A i \in DOMAIN other.vulnerabilities : ~Faulty(other.vulnerabilities[i])
    BY <1>2 DEF Fits
  <1>7. \A place \in Places(other) : Recordable(other, place[1], place[2])
    BY <1>2, <1>3 DEF Fits, Recordable
  <1>8. IsFiniteSet(Stated(other))
    BY <1>2, PlacesBounded DEF Fits
  <1>9. /\ ~Over(Stated(other))
        /\ (\A c \in Stated(other) : c.key # ScopeRow(other).key) => ~Full(Stated(other))
    <2> DEFINE Key(d, place) == Statement(d, place[1], place[2]).key
               places == Places(document)
               keys == {c.key : c \in Stated(document)}
               moved == {c.key : c \in Stated(other)}
               scope == ScopeRow(document).key
               Move(key) == IF key.resource[1] = "package" THEN key
                            ELSE [record |-> key.record, resource |-> ScopeOf(other).resource]
               g == [key \in keys \cup {scope} |-> Move(key)]
    <2>1. \A d : ScopeOf(d).resource[1] # "package"
      <3>1. \A d : ScopeOf(d).resource[1] \in {"scan", "image"}
        BY DEF ScopeOf, D!Scope
      <3> QED BY <3>1
    <2>2. ASSUME NEW place \in places PROVE Key(other, place) = Move(Key(document, place))
      <3> DEFINE v == document.vulnerabilities[place[1]]
                 ref == v.affects[place[2]].ref
                 row == RowOf(document, ref)
                 onSubject == v.affects = <<>> \/ row = D!Subject
      <3>1. ASSUME NEW d, d \in {document, other}
            PROVE  Key(d, place) = [record |-> v.id,
                                    resource |-> IF onSubject THEN ScopeOf(d).resource
                                                 ELSE <<"package", ScopeOf(d).resource[1], ScopeOf(d).lineage, row>>]
        <4>1. d.vulnerabilities = document.vulnerabilities /\ RowOf(d, ref) = row
          BY <1>2, <1>3, <3>1
        <4> HIDE DEF row, ref
        <4> QED BY <4>1 DEF Statement, D!CdxCandidate, ref
      <3> HIDE DEF Key, row, onSubject, v
      <3> QED BY <1>4, <2>1, <3>1
    <2>3. keys = {Key(document, place) : place \in places} /\ moved = {Key(other, place) : place \in places}
      BY <1>2 DEF Stated
    <2>4. /\ scope = [record |-> D!ScopeRecord, resource |-> ScopeOf(document).resource]
          /\ ScopeRow(other).key = [record |-> D!ScopeRecord, resource |-> ScopeOf(other).resource]
      BY DEF ScopeRow, D!ScopeObservation, D!ScopeKey
    <2>5. Move(scope) = ScopeRow(other).key
      BY <2>1, <2>4
    <2> HIDE DEF Key, keys, moved, scope, Move, places
    <2>6. moved = {g[key] : key \in keys} /\ g[scope] = ScopeRow(other).key
      BY <2>2, <2>3, <2>5
    <2> HIDE DEF g
    <2> QED BY <1>8, <2>6, KeysFit DEF keys, moved, scope
  <1>10. other.shape = "ok" /\ ~other.faulted
    BY DEF Fits
  <1> QED BY <1>5, <1>6, <1>7, <1>8, <1>9, <1>10 DEF Fits

-----------------------------------------------------------------------------
(* The bill the run reads again in another order.                            *)

PurlParts == {"parses", "type", "namespace", "name", "version", "qualifiers", "subpath"}
ComponentParts == {"sound", "type", "group", "name", "version", "purl", "ref", "components"}
RecordParts == {"sound", "id", "text", "ratings", "state", "judged", "affects"}
BillParts ==
  {"shape", "faulted", "subject", "components", "vulnerabilities", "tools", "serial", "version"}

\* A bill of the parts the model gives one.
CdxFormed(document) ==
  /\ BillParts \subseteq DOMAIN document
  /\ \A x \in Whole(document) : /\ ComponentParts \subseteq DOMAIN x.component
                                /\ PurlParts \subseteq DOMAIN x.component.purl
  /\ \A s \in D!Range(document.subject) : {"tag", "digest"} \subseteq DOMAIN s
  /\ \A v \in D!Range(document.vulnerabilities) : RecordParts \subseteq DOMAIN v /\ v.text \in Nat

\* A function of the first numbers is a sequence.
LEMMA FunctionListed ==
  ASSUME NEW n \in Nat, NEW s, s = [i \in 1 .. n |-> s[i]]
  PROVE  IsSequence(s) /\ Len(s) = n
  <1>1. \A i \in 1 .. n : s[i] \in Range(s)
    BY DEF Range
  <1>2. s \in Seq(Range(s))
    BY <1>1
  <1> QED BY <1>2 DEF IsSequence

\* A list reversed has each element as far from its end.
LEMMA Reversed ==
  ASSUME NEW s, IsSequence(s)
  PROVE  /\ Len(s) \in Nat /\ DOMAIN s = 1 .. Len(s)
         /\ IsSequence(D!Reverse(s)) /\ Len(D!Reverse(s)) = Len(s) /\ DOMAIN D!Reverse(s) = DOMAIN s
         /\ \A i \in DOMAIN s : /\ Len(s) - i + 1 \in DOMAIN s
                                /\ Len(s) - (Len(s) - i + 1) + 1 = i
                                /\ D!Reverse(s)[i] = s[Len(s) - i + 1]
  <1>1. Len(s) \in Nat /\ DOMAIN s = 1 .. Len(s)
    BY DEF IsSequence
  <1>2. D!Reverse(s) = [i \in 1 .. Len(s) |-> s[Len(s) - i + 1]]
    BY DEF D!Reverse
  <1>3. IsSequence(D!Reverse(s)) /\ Len(D!Reverse(s)) = Len(s)
    BY <1>1, <1>2, FunctionListed
  <1>4. \A i \in 1 .. Len(s) : Len(s) - i + 1 \in 1 .. Len(s) /\ Len(s) - (Len(s) - i + 1) + 1 = i
    BY <1>1
  <1> QED BY <1>1, <1>2, <1>3, <1>4

\* A list turned lists what its elements are turned to.
LEMMA ListTurns ==
  ASSUME NEW R, NEW turned, NEW list, IsSequence(list),
         \A b \in D!Range(list) : <<b, turned[b]>> \in R
  PROVE  LET s == [i \in DOMAIN list |-> turned[D!Reverse(list)[i]]] IN
         IsSequence(s) /\ DOMAIN s = DOMAIN list /\ Paired(R, D!Range(list), D!Range(s))
  <1> DEFINE s == [i \in DOMAIN list |-> turned[D!Reverse(list)[i]]]
  <1>1. /\ Len(list) \in Nat /\ DOMAIN list = 1 .. Len(list)
        /\ \A i \in DOMAIN list : /\ Len(list) - i + 1 \in DOMAIN list
                                  /\ Len(list) - (Len(list) - i + 1) + 1 = i
                                  /\ D!Reverse(list)[i] = list[Len(list) - i + 1]
    BY Reversed
  <1>2. \A i \in DOMAIN list : s[i] = turned[list[Len(list) - i + 1]]
    BY <1>1
  <1>3. IsSequence(s) /\ DOMAIN s = DOMAIN list
    BY <1>1, FunctionListed
  <1> HIDE DEF s
  <1>4. \A i \in DOMAIN list : s[Len(list) - i + 1] = turned[list[i]]
    BY <1>1, <1>2
  <1>5. ASSUME NEW b \in D!Range(list) PROVE \E d \in D!Range(s) : <<b, d>> \in R
    <2>1. PICK i \in DOMAIN list : b = list[i]
      BY DEF D!Range
    <2>2. turned[b] \in D!Range(s)
      BY <1>1, <1>3, <1>4, <2>1 DEF D!Range
    <2> QED BY <2>2
  <1>6. ASSUME NEW d \in D!Range(s) PROVE \E b \in D!Range(list) : <<b, d>> \in R
    <2>1. PICK i \in DOMAIN s : d = s[i]
      BY DEF D!Range
    <2> DEFINE b == list[Len(list) - i + 1]
    <2>2. b \in D!Range(list) /\ d = turned[b]
      BY <1>1, <1>2, <1>3, <2>1 DEF D!Range
    <2> HIDE DEF b
    <2> QED BY <2>2
  <1> QED BY <1>3, <1>5, <1>6 DEF Paired, s

\* A component turned is that component, over what it holds turned and in reverse.
LEMMA TurnIs ==
  ASSUME NEW turned, NEW c, ComponentParts \subseteq DOMAIN c
  PROVE  LET y == D!Turn(turned, c)
             list == c.components
         IN /\ Recast(c, y) /\ y.components = [i \in DOMAIN list |-> turned[D!Reverse(list)[i]]]
  <1> DEFINE y == D!Turn(turned, c)
             list == c.components
             s == [i \in DOMAIN list |-> turned[D!Reverse(list)[i]]]
  <1>1. y = [c EXCEPT !.components = s]
    BY DEF D!Turn
  <1> HIDE DEF s
  <1>2. y.components = s /\ \A part \in DOMAIN c \ {"components"} : y[part] = c[part]
    BY <1>1 DEF ComponentParts
  <1> HIDE DEF y
  <1>3. Recast(c, y)
    BY <1>2 DEF Recast, ComponentParts
  <1> QED BY <1>2, <1>3 DEF s, y

\* What a bill lists holds what the bill lists.
LEMMA HeldIsListed ==
  ASSUME NEW document, CdxNested(document), CdxFormed(document), NEW x \in Whole(document)
  PROVE  /\ ComponentParts \subseteq DOMAIN x.component /\ PurlParts \subseteq DOMAIN x.component.purl
         /\ IsSequence(x.component.components)
         /\ D!Range(x.component.components) \subseteq D!Listed(document)
  <1>1. Below(x) \subseteq Whole(document)
    BY WholeCloses
  <1>2. ASSUME NEW b \in D!Range(x.component.components) PROVE b \in D!Listed(document)
    <2> DEFINE w == [component |-> b, subject |-> FALSE]
    <2>1. w \in Whole(document) /\ w.component = b /\ w.subject = FALSE
      BY <1>1 DEF Below, Met
    <2> HIDE DEF w
    <2> QED BY <2>1 DEF Whole, Subjects, Met
  <1> QED BY <1>2 DEF CdxFormed, CdxNested

\* The components of a bill and what they are turned to.
TurnsOf(document) ==
  {<<c, D!Turns(document)[n][c]>> : n \in Nat, c \in D!Listed(document)}
  \cup {<<s, D!Turn(D!Turns(document)[MaxDepth + 1], s)>> : s \in D!Range(document.subject)}

\* Two components of a bill in its pairs: one is the other turned, or itself.
LEMMA TurnsRelate ==
  ASSUME NEW document, CdxNested(document), CdxFormed(document), NEW x, NEW y, <<x, y>> \in TurnsOf(document)
  PROVE  /\ Recast(x, y) /\ IsSequence(y.components)
         /\ Paired(TurnsOf(document), D!Range(x.components), D!Range(y.components))
  <1> DEFINE R == TurnsOf(document)
             T == D!Turns(document)
  <1>1. ASSUME NEW m \in Nat, NEW b \in D!Listed(document) PROVE <<b, T[m][b]>> \in R
    BY DEF TurnsOf
  <1>2. ASSUME NEW z \in Whole(document), NEW m \in Nat
        PROVE  LET d == D!Turn(T[m], z.component) IN
               /\ Recast(z.component, d) /\ IsSequence(d.components)
               /\ Paired(R, D!Range(z.component.components), D!Range(d.components))
    <2> DEFINE c == z.component
               d == D!Turn(T[m], c)
               list == c.components
               turned == T[m]
               s == [i \in DOMAIN list |-> turned[D!Reverse(list)[i]]]
    <2>1. ComponentParts \subseteq DOMAIN c /\ IsSequence(list) /\ D!Range(list) \subseteq D!Listed(document)
      BY HeldIsListed
    <2> HIDE DEF c
    <2>2. Recast(c, d) /\ d.components = s
      BY <2>1, TurnIs
    <2>3. \A b \in D!Range(list) : <<b, turned[b]>> \in R
      BY <1>1, <2>1
    <2> HIDE DEF R, turned, list
    <2>4. IsSequence(s) /\ Paired(R, D!Range(list), D!Range(s))
      BY <2>1, <2>3, ListTurns
    <2> HIDE DEF s, d
    <2> QED BY <2>2, <2>4 DEF list, c, d
  <1>3. CASE \E n \in Nat : \E c \in D!Listed(document) : x = c /\ y = T[n][c]
    <2>1. x \in D!Listed(document) /\ \E n \in Nat : y = T[n][x]
      BY <1>3
    <2>2. PICK n \in Nat : y = T[n][x]
      BY <2>1
    <2> DEFINE z == [component |-> x, subject |-> FALSE]
    <2>3. z \in Whole(document) /\ z.component = x
      BY <2>1 DEF Whole, Met
    <2> HIDE DEF z
    <2>4. IsSequence(x.components) /\ D!Range(x.components) \subseteq D!Listed(document)
      BY <2>3, HeldIsListed
    <2>5. CASE n = 0
      <3>1. y = x
        BY <2>1, <2>2, <2>5, TurnsGoOn
      <3>2. \A b \in D!Range(x.components) : <<b, b>> \in R
        <4>1. \A b \in D!Listed(document) : T[0][b] = b
          BY TurnsGoOn
        <4> HIDE DEF T, R
        <4> QED BY <1>1, <2>4, <4>1
      <3> HIDE DEF R
      <3> QED BY <2>4, <3>1, <3>2 DEF Recast, Paired, R
    <2>6. CASE n # 0
      <3>1. n - 1 \in Nat /\ n - 1 + 1 = n
        BY <2>6
      <3>2. y = D!Turn(T[n - 1], x)
        BY <2>1, <2>2, <3>1, TurnsGoOn
      <3> HIDE DEF T, R
      <3> QED BY <1>2, <2>3, <3>1, <3>2 DEF R
    <2> QED BY <2>5, <2>6
  <1>4. CASE x \in D!Range(document.subject) /\ y = D!Turn(T[MaxDepth + 1], x)
    <2> DEFINE z == [component |-> x, subject |-> TRUE]
    <2>1. z \in Whole(document) /\ z.component = x
      BY <1>4 DEF Whole, Subjects
    <2>2. MaxDepth + 1 \in Nat
      BY DepthAssumption
    <2> HIDE DEF T, R, z
    <2> QED BY <1>2, <1>4, <2>1, <2>2 DEF R
  <1> QED BY <1>3, <1>4 DEF TurnsOf

\* The parts of a bill, and of that bill turned.
LEMMA TurnedIs ==
  ASSUME NEW document, BillParts \subseteq DOMAIN document
  PROVE  LET other == D!Turned(document)
             turned == D!Turns(document)[MaxDepth + 1]
             subject == document.subject
             components == document.components
             vulnerabilities == document.vulnerabilities
         IN /\ other.subject = [i \in DOMAIN subject |-> D!Turn(turned, subject[i])]
            /\ other.components = [i \in DOMAIN components |-> turned[D!Reverse(components)[i]]]
            /\ other.vulnerabilities =
                 [i \in DOMAIN vulnerabilities |-> D!TurnedEntries(D!Reverse(vulnerabilities)[i])]
            /\ other.shape = document.shape /\ other.faulted = document.faulted
            /\ other.tools = document.tools /\ other.serial = document.serial
            /\ other.version = document.version
  <1> DEFINE turned == D!Turns(document)[MaxDepth + 1]
             records == D!Reverse(document.vulnerabilities)
             subjects == [i \in DOMAIN document.subject |-> D!Turn(turned, document.subject[i])]
             tops == [i \in DOMAIN document.components |-> turned[D!Reverse(document.components)[i]]]
             rows == [i \in DOMAIN document.vulnerabilities |-> D!TurnedEntries(records[i])]
  <1>1. D!Turned(document) = [document EXCEPT !.subject = subjects, !.components = tops, !.vulnerabilities = rows]
    BY DEF D!Turned
  <1> HIDE DEF subjects, tops, rows
  <1> DEFINE other == D!Turned(document)
  <1>2. /\ other.subject = subjects /\ other.components = tops /\ other.vulnerabilities = rows
        /\ other.shape = document.shape /\ other.faulted = document.faulted
        /\ other.tools = document.tools /\ other.serial = document.serial
        /\ other.version = document.version
    BY <1>1 DEF BillParts
  <1> QED BY <1>2 DEF subjects, tops, rows

\* A bill turned lists the same components, turned.
LEMMA TurnedTrees ==
  ASSUME NEW document, CdxNested(document), CdxFormed(document)
  PROVE  LET other == D!Turned(document) IN
         /\ Trees(TurnsOf(document), document, other)
         /\ IsSequence(other.subject) /\ IsSequence(other.components)
         /\ \A i \in DOMAIN document.subject :
              /\ document.subject[i].tag = other.subject[i].tag
              /\ document.subject[i].digest = other.subject[i].digest
  <1> DEFINE other == D!Turned(document)
             turned == D!Turns(document)[MaxDepth + 1]
             R == TurnsOf(document)
             subject == document.subject
             components == document.components
  <1>1. /\ other.subject = [i \in DOMAIN subject |-> D!Turn(turned, subject[i])]
        /\ other.components = [i \in DOMAIN components |-> turned[D!Reverse(components)[i]]]
    BY TurnedIs DEF CdxFormed
  <1> HIDE DEF other
  <1>2. IsSequence(subject) /\ IsSequence(components)
    BY DEF CdxNested
  <1>3. ASSUME NEW i \in DOMAIN subject
        PROVE  /\ <<subject[i], other.subject[i]>> \in R
               /\ subject[i].tag = other.subject[i].tag /\ subject[i].digest = other.subject[i].digest
    <2> DEFINE s == subject[i]
    <2>1. s \in D!Range(subject)
      BY DEF D!Range
    <2>2. other.subject[i] = D!Turn(turned, s)
      BY <1>1
    <2>3. <<s, D!Turn(turned, s)>> \in R
      BY <2>1 DEF TurnsOf
    <2>4. ComponentParts \subseteq DOMAIN s /\ {"tag", "digest"} \subseteq DOMAIN s /\ IsSequence(s.components)
      <3> DEFINE z == [component |-> s, subject |-> TRUE]
      <3>1. z \in Whole(document) /\ z.component = s
        BY <2>1 DEF Whole, Subjects
      <3> HIDE DEF z, s
      <3> QED BY <2>1, <3>1 DEF CdxFormed, CdxNested
    <2> HIDE DEF s, turned
    <2>5. D!Turn(turned, s).tag = s.tag /\ D!Turn(turned, s).digest = s.digest
      BY <2>4 DEF D!Turn
    <2> HIDE DEF R
    <2> QED BY <2>2, <2>3, <2>5 DEF s
  <1>4. \A b \in D!Range(components) : <<b, turned[b]>> \in R
    <2>1. SUFFICES ASSUME NEW b \in D!Range(components) PROVE <<b, turned[b]>> \in R
      OBVIOUS
    <2> DEFINE z == [component |-> b, subject |-> FALSE]
    <2>2. z \in Starts(document)
      BY DEF Starts, Met
    <2>3. z \in Whole(document) /\ z.component = b /\ z.subject = FALSE
      BY <2>2, WholeCloses
    <2> HIDE DEF z
    <2>4. b \in D!Listed(document)
      BY <2>3 DEF Whole, Subjects, Met
    <2>5. MaxDepth + 1 \in Nat
      BY DepthAssumption
    <2> QED BY <2>4, <2>5 DEF TurnsOf
  <1> HIDE DEF turned, R
  <1>5. IsSequence(other.components) /\ Paired(R, D!Range(components), D!Range(other.components))
    <2> DEFINE t == [i \in DOMAIN components |-> turned[D!Reverse(components)[i]]]
    <2>1. IsSequence(components) /\ \A b \in D!Range(components) : <<b, turned[b]>> \in R
      BY <1>2, <1>4
    <2>2. other.components = t
      BY <1>1
    <2> HIDE DEF components
    <2>3. IsSequence(t) /\ Paired(R, D!Range(components), D!Range(t))
      BY <2>1, ListTurns
    <2> HIDE DEF t
    <2> QED BY <2>2, <2>3
  <1>6. IsSequence(other.subject) /\ DOMAIN other.subject = DOMAIN subject
    <2>1. Len(subject) \in Nat /\ DOMAIN subject = 1 .. Len(subject)
      BY <1>2 DEF IsSequence
    <2> QED BY <1>1, <2>1, FunctionListed
  <1>7. \A x, y : <<x, y>> \in R => Paired(R, D!Range(x.components), D!Range(y.components))
    BY TurnsRelate DEF R
  <1> QED BY <1>3, <1>5, <1>6, <1>7 DEF Trees, R, other

\* A bill turned is as deep as the bill, and clears the same versions.
LEMMA TurnedNested ==
  ASSUME NEW document, CdxListed(document), CdxNested(document), CdxFormed(document)
  PROVE  LET other == D!Turned(document)
             records == document.vulnerabilities
             n == Len(records)
         IN /\ CdxListed(other) /\ Len(other.vulnerabilities) = n
            /\ DOMAIN records = 1 .. n /\ DOMAIN other.vulnerabilities = 1 .. n /\ n \in Nat
            /\ \A i \in 1 .. n :
                 LET v == records[i]
                     w == other.vulnerabilities[n - i + 1]
                 IN /\ n - i + 1 \in 1 .. n
                    /\ w.sound = v.sound /\ w.id = v.id /\ w.text = v.text /\ w.ratings = v.ratings
                    /\ w.state = v.state /\ w.judged = v.judged
                    /\ w.affects = D!Reverse(v.affects) /\ IsSequence(v.affects)
  <1> DEFINE other == D!Turned(document)
             records == document.vulnerabilities
             n == Len(records)
             others == other.vulnerabilities
  <1>1. others = [i \in DOMAIN records |-> D!TurnedEntries(D!Reverse(records)[i])]
    BY TurnedIs DEF CdxFormed
  <1> HIDE DEF other
  <1>2. IsSequence(records)
    BY DEF CdxListed
  <1>3. /\ n \in Nat /\ DOMAIN records = 1 .. n
        /\ \A i \in 1 .. n : /\ n - i + 1 \in 1 .. n /\ n - (n - i + 1) + 1 = i
                             /\ D!Reverse(records)[i] = records[n - i + 1]
    BY <1>2, Reversed
  <1>4. IsSequence(others) /\ Len(others) = n /\ DOMAIN others = 1 .. n
    BY <1>1, <1>3, FunctionListed
  <1>5. ASSUME NEW i \in 1 .. n
        PROVE  LET v == records[i]
                   w == others[n - i + 1]
               IN /\ w.sound = v.sound /\ w.id = v.id /\ w.text = v.text /\ w.ratings = v.ratings
                  /\ w.state = v.state /\ w.judged = v.judged
                  /\ w.affects = D!Reverse(v.affects) /\ IsSequence(v.affects)
                  /\ \A r \in v.ratings : "word" \in DOMAIN r
    <2> DEFINE v == records[i]
               w == others[n - i + 1]
    <2>1. w = D!TurnedEntries(v)
      <3>1. w = D!TurnedEntries(D!Reverse(records)[n - i + 1])
        BY <1>1, <1>3
      <3>2. D!Reverse(records)[n - i + 1] = v
        BY <1>3
      <3> HIDE DEF v, w
      <3> QED BY <3>1, <3>2
    <2>2. v \in D!Range(records) /\ v \in Range(records)
      BY <1>3 DEF D!Range, Range
    <2>3. RecordParts \subseteq DOMAIN v
      BY <2>2 DEF CdxFormed
    <2>4. IsSequence(v.affects) /\ \A r \in v.ratings : "word" \in DOMAIN r
      BY <2>2 DEF CdxListed
    <2> HIDE DEF v, w
    <2>5. /\ w.sound = v.sound /\ w.id = v.id /\ w.text = v.text /\ w.ratings = v.ratings
          /\ w.state = v.state /\ w.judged = v.judged /\ w.affects = D!Reverse(v.affects)
      BY <2>1, <2>3 DEF D!TurnedEntries, RecordParts
    <2> QED BY <2>4, <2>5 DEF v, w
  <1>6. ASSUME NEW w \in Range(others) PROVE IsSequence(w.affects) /\ \A r \in w.ratings : "word" \in DOMAIN r
    <2>1. PICK j \in 1 .. n : w = others[j]
      BY <1>4 DEF Range
    <2> DEFINE i == n - j + 1
    <2>2. i \in 1 .. n /\ w = others[n - i + 1]
      BY <1>3, <2>1
    <2> HIDE DEF i
    <2>3. /\ w.ratings = records[i].ratings /\ w.affects = D!Reverse(records[i].affects)
          /\ IsSequence(records[i].affects) /\ \A r \in records[i].ratings : "word" \in DOMAIN r
      BY <1>5, <2>2
    <2> QED BY <2>3, Reversed
  <1>7. CdxListed(other)
    BY <1>4, <1>6 DEF CdxListed
  <1> QED BY <1>3, <1>4, <1>5, <1>7 DEF other

\* A bill turned is listed as deep as the bill, within the same bounds.
LEMMA TurnedBounds ==
  ASSUME NEW document, CdxListed(document), CdxNested(document), CdxFormed(document)
  PROVE  LET other == D!Turned(document) IN
         /\ CdxNested(other)
         /\ D!Matched(other) => D!Matched(document)
         /\ D!OverBound(other) => D!OverBound(document)
  <1> DEFINE other == D!Turned(document)
             records == document.vulnerabilities
             others == other.vulnerabilities
             R == TurnsOf(document)
  <1>1. /\ Trees(R, document, other) /\ IsSequence(other.subject) /\ IsSequence(other.components)
    BY TurnedTrees
  <1>2. /\ Len(others) = Len(records) /\ Len(records) \in Nat
        /\ DOMAIN records = 1 .. Len(records) /\ DOMAIN others = 1 .. Len(records) /\ IsSequence(others)
        /\ \A i \in 1 .. Len(records) : /\ Len(records) - i + 1 \in 1 .. Len(records)
                                        /\ others[Len(records) - i + 1].affects = D!Reverse(records[i].affects)
                                        /\ IsSequence(records[i].affects)
    BY TurnedNested DEF CdxListed
  <1>3. \A x, y : <<x, y>> \in R => IsSequence(y.components)
    BY TurnsRelate
  <1> HIDE DEF R, other
  <1>4. ASSUME NEW y \in Whole(other) PROVE IsSequence(y.component.components)
    BY <1>1, <1>3, WholePair
  <1>5. D!Levels(other)[MaxDepth + 1] = {}
    <2>1. MaxDepth + 1 \in Nat
      BY DepthAssumption
    <2>2. Paired(R, D!Levels(document)[MaxDepth + 1], D!Levels(other)[MaxDepth + 1])
      BY <1>1, <2>1, LevelsPair
    <2> QED BY <2>2 DEF Paired, CdxNested
  <1>6. ASSUME NEW j \in DOMAIN others
        PROVE  \E i \in DOMAIN records : others[j].affects = D!Reverse(records[i].affects) /\ IsSequence(records[i].affects)
    <2> DEFINE i == Len(records) - j + 1
    <2>1. i \in 1 .. Len(records) /\ Len(records) - i + 1 = j
      BY <1>2
    <2> HIDE DEF i
    <2> QED BY <1>2, <2>1
  <1>7. ASSUME NEW w \in D!Range(others), NEW entry \in D!Range(w.affects) PROVE D!None \notin entry.unaffected
    <2>1. PICK j \in DOMAIN others : w = others[j]
      BY DEF D!Range
    <2>2. PICK i \in DOMAIN records : w.affects = D!Reverse(records[i].affects) /\ IsSequence(records[i].affects)
      BY <1>6, <2>1
    <2> DEFINE list == records[i].affects
    <2>3. entry \in D!Range(list)
      <3>1. PICK k \in DOMAIN w.affects : entry = w.affects[k]
        BY DEF D!Range
      <3>2. k \in DOMAIN list /\ w.affects[k] = list[Len(list) - k + 1] /\ Len(list) - k + 1 \in DOMAIN list
        BY <2>2, <3>1, Reversed
      <3> HIDE DEF list
      <3> QED BY <3>1, <3>2 DEF D!Range
    <2>4. records[i] \in D!Range(records)
      BY DEF D!Range
    <2> QED BY <2>3, <2>4 DEF CdxNested
  <1>8. CdxNested(other)
    BY <1>1, <1>4, <1>5, <1>7 DEF CdxNested
  <1>9. D!Matched(other) => D!Matched(document)
    <2> SUFFICES ASSUME records = <<>> PROVE others = <<>>
      BY DEF D!Matched
    <2>1. Len(others) = 0
      BY <1>2
    <2> QED BY <1>2, <2>1 DEF IsSequence
  <1>10. D!OverBound(other) => D!OverBound(document)
    <2>1. CASE Len(others) > MaxResults
      BY <1>2, <2>1 DEF D!OverBound
    <2>2. ASSUME NEW w \in D!Range(others), Len(w.affects) > MaxAffects PROVE D!OverBound(document)
      <3>1. PICK j \in DOMAIN others : w = others[j]
        BY DEF D!Range
      <3>2. PICK i \in DOMAIN records : w.affects = D!Reverse(records[i].affects) /\ IsSequence(records[i].affects)
        BY <1>6, <3>1
      <3>3. Len(records[i].affects) = Len(w.affects)
        BY <3>2, Reversed
      <3>4. records[i] \in D!Range(records)
        BY DEF D!Range
      <3> QED BY <2>2, <3>3, <3>4 DEF D!OverBound
    <2> QED BY <2>1, <2>2 DEF D!OverBound
  <1> QED BY <1>8, <1>9, <1>10 DEF other

\* The places of a bill turned are the places of the bill, from its end.
LEMMA PlacesTurn ==
  ASSUME NEW document, CdxListed(document), CdxNested(document), CdxFormed(document)
  PROVE  LET other == D!Turned(document) IN
         \E f \in Bijection(Places(document), Places(other)) : \A place \in Places(document) :
           Reread(document.vulnerabilities[place[1]], place[2], other.vulnerabilities[f[place][1]], f[place][2])
  <1> DEFINE other == D!Turned(document)
             records == document.vulnerabilities
             others == other.vulnerabilities
             n == Len(records)
             m(i) == Len(records[i].affects)
             From(i, k) == IF records[i].affects = <<>> THEN 0 ELSE m(i) - k + 1
             here == Places(document)
             there == Places(other)
  <1>1. /\ n \in Nat /\ DOMAIN records = 1 .. n /\ DOMAIN others = 1 .. n
        /\ \A i \in 1 .. n :
             LET v == records[i]
                 w == others[n - i + 1]
             IN /\ n - i + 1 \in 1 .. n
                /\ w.sound = v.sound /\ w.id = v.id /\ w.text = v.text /\ w.ratings = v.ratings
                /\ w.state = v.state /\ w.judged = v.judged
                /\ w.affects = D!Reverse(v.affects) /\ IsSequence(v.affects)
    BY TurnedNested
  <1> HIDE DEF other, n
  <1>2. ASSUME NEW i \in 1 .. n
        PROVE  LET list == records[i].affects
                   back == others[n - i + 1].affects
               IN /\ m(i) \in Nat /\ Len(back) = m(i) /\ (list = <<>> <=> m(i) = 0) /\ (back = <<>> <=> m(i) = 0)
                  /\ \A k \in 1 .. m(i) : /\ m(i) - k + 1 \in 1 .. m(i) /\ m(i) - (m(i) - k + 1) + 1 = k
                                          /\ back[m(i) - k + 1] = list[k]
    <2> DEFINE list == records[i].affects
               back == others[n - i + 1].affects
    <2>1. IsSequence(list) /\ back = D!Reverse(list)
      BY <1>1
    <2> HIDE DEF list, back
    <2>2. /\ Len(list) \in Nat /\ DOMAIN list = 1 .. Len(list)
          /\ IsSequence(back) /\ Len(back) = Len(list) /\ DOMAIN back = DOMAIN list
          /\ \A k \in DOMAIN list : /\ Len(list) - k + 1 \in DOMAIN list
                                    /\ Len(list) - (Len(list) - k + 1) + 1 = k
                                    /\ back[k] = list[Len(list) - k + 1]
      BY <2>1, Reversed
    <2>3. (list = <<>> <=> Len(list) = 0) /\ (back = <<>> <=> Len(list) = 0)
      BY <2>1, <2>2 DEF IsSequence
    <2>4. \A k \in DOMAIN list : back[Len(list) - k + 1] = list[k]
      BY <2>2
    <2> QED BY <2>2, <2>3, <2>4 DEF list, back
  <1>3. ASSUME NEW i \in 1 .. n
        PROVE  /\ Entries(others[n - i + 1]) = Entries(records[i])
               /\ \A k \in Entries(records[i]) : From(i, k) \in Entries(records[i]) /\ From(i, From(i, k)) = k
               /\ \A k \in Entries(records[i]) : Reread(records[i], k, others[n - i + 1], From(i, k))
    <2> DEFINE v == records[i]
               w == others[n - i + 1]
    <2>1. Entries(v) = IF m(i) = 0 THEN {0} ELSE 1 .. m(i)
      BY <1>2 DEF Entries
    <2>2. Entries(w) = IF m(i) = 0 THEN {0} ELSE 1 .. m(i)
      BY <1>2 DEF Entries
    <2>3. \A k : From(i, k) = IF m(i) = 0 THEN 0 ELSE m(i) - k + 1
      BY <1>2
    <2>4. ASSUME NEW k \in Entries(v) PROVE From(i, k) \in Entries(v) /\ From(i, From(i, k)) = k
      <3>1. CASE m(i) = 0
        BY <2>1, <2>3, <2>4, <3>1
      <3>2. CASE m(i) # 0
        <4>1. k \in 1 .. m(i) /\ From(i, k) = m(i) - k + 1
          BY <2>1, <2>3, <2>4, <3>2
        <4>2. m(i) - k + 1 \in 1 .. m(i) /\ m(i) - (m(i) - k + 1) + 1 = k
          BY <1>2, <4>1
        <4> QED BY <2>1, <2>3, <3>2, <4>1, <4>2
      <3> QED BY <3>1, <3>2
    <2>5. ASSUME NEW k \in Entries(v) PROVE Reread(v, k, w, From(i, k))
      <3>1. /\ w.sound = v.sound /\ w.id = v.id /\ w.text = v.text /\ w.ratings = v.ratings
            /\ w.state = v.state /\ w.judged = v.judged
        BY <1>1
      <3>2. v.affects = <<>> <=> w.affects = <<>>
        BY <1>2
      <3>3. v.affects # <<>> => v.affects[k] = w.affects[From(i, k)]
        <4> SUFFICES ASSUME v.affects # <<>> PROVE v.affects[k] = w.affects[From(i, k)]
          OBVIOUS
        <4>1. m(i) # 0
          BY <1>2
        <4>2. k \in 1 .. m(i) /\ From(i, k) = m(i) - k + 1
          BY <2>1, <2>3, <2>5, <4>1
        <4> QED BY <1>2, <4>2
      <3> HIDE DEF v, w, From
      <3> QED BY <3>1, <3>2, <3>3 DEF Reread
    <2> HIDE DEF From
    <2> QED BY <2>1, <2>2, <2>4, <2>5
  <1> HIDE DEF From
  <1>4. \A i \in 1 .. n : n - i + 1 \in 1 .. n /\ n - (n - i + 1) + 1 = i
    BY <1>1
  <1>5. \A place : place \in here <=>
          place = <<place[1], place[2]>> /\ place[1] \in 1 .. n /\ place[2] \in Entries(records[place[1]])
    BY <1>1 DEF Places
  <1>6. \A place : place \in there <=>
          place = <<place[1], place[2]>> /\ place[1] \in 1 .. n /\ place[2] \in Entries(others[place[1]])
    BY <1>1 DEF Places
  <1> HIDE DEF here, there, records, others
  <1> DEFINE Back(place) == <<n - place[1] + 1, From(place[1], place[2])>>
             f == [place \in here |-> Back(place)]
  <1>7. ASSUME NEW i \in 1 .. n, NEW k \in Entries(records[i])
        PROVE  <<i, k>> \in here /\ Back(<<i, k>>) = <<n - i + 1, From(i, k)>> /\ Back(<<i, k>>) \in there
    <2>1. <<i, k>> \in here /\ Back(<<i, k>>) = <<n - i + 1, From(i, k)>>
      BY <1>5
    <2>2. n - i + 1 \in 1 .. n /\ From(i, k) \in Entries(others[n - i + 1])
      BY <1>3, <1>4
    <2> QED BY <1>6, <2>1, <2>2
  <1>8. \A place \in here : \E i \in 1 .. n : \E k \in Entries(records[i]) : place = <<i, k>>
    BY <1>5
  <1>9. f \in [here -> there]
    BY <1>7, <1>8
  <1>10. ASSUME NEW p \in here, NEW q \in here, f[p] = f[q] PROVE p = q
    <2>1. PICK i \in 1 .. n : \E k \in Entries(records[i]) : p = <<i, k>>
      BY <1>8
    <2>2. PICK k \in Entries(records[i]) : p = <<i, k>>
      BY <2>1
    <2>3. PICK j \in 1 .. n : \E l \in Entries(records[j]) : q = <<j, l>>
      BY <1>8
    <2>4. PICK l \in Entries(records[j]) : q = <<j, l>>
      BY <2>3
    <2>5. f[p] = <<n - i + 1, From(i, k)>> /\ f[q] = <<n - j + 1, From(j, l)>>
      BY <1>7, <2>2, <2>4
    <2> HIDE DEF f
    <2>6. n - i + 1 = n - j + 1 /\ From(i, k) = From(j, l)
      <3> DEFINE a == n - i + 1
                 b == n - j + 1
                 x == From(i, k)
                 y == From(j, l)
      <3>1. <<a, x>> = <<b, y>>
        BY <1>10, <2>5
      <3> HIDE DEF a, b, x, y
      <3>2. a = b /\ x = y
        BY <3>1
      <3> QED BY <3>2 DEF a, b, x, y
    <2>7. i = j
      BY <1>4, <2>6
    <2>8. k = l
      BY <1>3, <2>6, <2>7
    <2> QED BY <2>2, <2>4, <2>7, <2>8
  <1>11. ASSUME NEW q \in there PROVE \E p \in here : f[p] = q
    <2>1. /\ q = <<q[1], q[2]>> /\ q[1] \in 1 .. n /\ q[2] \in Entries(others[q[1]])
      BY <1>6
    <2> DEFINE i == n - q[1] + 1
               k == From(i, q[2])
    <2>2. i \in 1 .. n /\ n - i + 1 = q[1]
      BY <1>4, <2>1
    <2> HIDE DEF i
    <2>3. q[2] \in Entries(records[i])
      BY <1>3, <2>1, <2>2
    <2>4. k \in Entries(records[i]) /\ From(i, k) = q[2]
      BY <1>3, <2>2, <2>3
    <2> HIDE DEF k
    <2>5. <<i, k>> \in here /\ f[<<i, k>>] = <<q[1], q[2]>>
      BY <1>7, <2>2, <2>4
    <2> HIDE DEF f
    <2> QED BY <2>1, <2>5
  <1>12. ASSUME NEW place \in here PROVE Reread(records[place[1]], place[2], others[f[place][1]], f[place][2])
    <2>1. PICK i \in 1 .. n : \E k \in Entries(records[i]) : place = <<i, k>>
      BY <1>8
    <2>2. PICK k \in Entries(records[i]) : place = <<i, k>>
      BY <2>1
    <2>3. f[place] = <<n - i + 1, From(i, k)>>
      BY <1>7, <2>2
    <2> HIDE DEF f
    <2>4. Reread(records[i], k, others[n - i + 1], From(i, k))
      BY <1>3
    <2> QED BY <2>2, <2>3, <2>4
  <1> HIDE DEF f
  <1>13. f \in Bijection(here, there)
    BY <1>9, <1>10, <1>11 DEF Bijection, Injection, Surjection, IsInjective
  <1> QED BY <1>12, <1>13 DEF here, there, records, others, other

\* A bill turned is that bill in another order, which fits when the bill does.
LEMMA TurnedShuffles ==
  ASSUME NEW document, CdxListed(document), CdxNested(document), CdxFormed(document)
  PROVE  LET other == D!Turned(document) IN
         /\ Shuffled(document, other)
         /\ (Fits(document) /\ IsFiniteSet(CarriersOf(Whole(document)))) => Fits(other)
  <1> DEFINE other == D!Turned(document)
  <1>1. /\ other.shape = document.shape /\ other.faulted = document.faulted
        /\ other.tools = document.tools /\ other.serial = document.serial
        /\ other.version = document.version
    BY TurnedIs DEF CdxFormed
  <1>2. /\ Trees(TurnsOf(document), document, other)
        /\ IsSequence(document.subject) /\ IsSequence(other.subject)
        /\ \A i \in DOMAIN document.subject :
              /\ document.subject[i].tag = other.subject[i].tag
              /\ document.subject[i].digest = other.subject[i].digest
    BY TurnedTrees DEF CdxNested
  <1>3. \A x, y : <<x, y>> \in TurnsOf(document) => Recast(x, y)
    BY TurnsRelate
  <1>4. \E f \in Bijection(Places(document), Places(other)) : \A place \in Places(document) :
           Reread(document.vulnerabilities[place[1]], place[2], other.vulnerabilities[f[place][1]], f[place][2])
    BY PlacesTurn
  <1>5. /\ CdxListed(other) /\ (D!Matched(other) => D!Matched(document))
        /\ D!OverBound(other) => D!OverBound(document)
    BY TurnedNested, TurnedBounds
  <1> HIDE DEF other
  <1>6. Shuffled(document, other)
    BY <1>1, <1>2, <1>3, <1>4 DEF Shuffled
  <1>7. Fits(document) => ~D!OverBound(document)
    BY DEF Fits, Sound, Gated
  <1>8. (Fits(document) /\ IsFiniteSet(CarriersOf(Whole(document)))) => Fits(other)
    BY <1>1, <1>5, <1>6, <1>7, ShuffleFits
  <1> QED BY <1>6, <1>8 DEF other

-----------------------------------------------------------------------------
(* The bill of the next release.                                             *)

\* A package url one release on tells packages apart as it did.
LEMMA ReleasedTells ==
  ASSUME NEW purl, PurlParts \subseteq DOMAIN purl
  PROVE  LET next == D!Released(purl) IN
         /\ D!Parses(purl) <=> D!Parses(next)
         /\ next.type = purl.type /\ next.namespace = purl.namespace
         /\ next.name = purl.name /\ next.subpath = purl.subpath
         /\ Telling(purl) = Telling(next)
  <1> DEFINE next == D!Released(purl)
             moved == D!Moved(purl.qualifiers)
             new == [key |-> "distro", value |-> "next"]
  <1>1. next = [purl EXCEPT !.version = "v9", !.qualifiers = IF D!Parses(purl) THEN moved ELSE purl.qualifiers]
    BY DEF D!Released
  <1> HIDE DEF moved
  <1>2. /\ next.parses = purl.parses /\ next.type = purl.type /\ next.namespace = purl.namespace
        /\ next.name = purl.name /\ next.subpath = purl.subpath
        /\ next.qualifiers = IF D!Parses(purl) THEN moved ELSE purl.qualifiers
    BY <1>1 DEF PurlParts
  <1> HIDE DEF next
  <1>3. CASE ~D!Parses(purl)
    <2>1. next.qualifiers = purl.qualifiers
      BY <1>2, <1>3
    <2>2. D!Parses(next) <=> D!Parses(purl)
      BY <1>2, <2>1 DEF D!Parses
    <2>3. Telling(purl) = Telling(next)
      BY <2>1 DEF Telling
    <2> QED BY <1>2, <2>2, <2>3 DEF next
  <1>4. CASE D!Parses(purl)
    <2>1. next.qualifiers = moved
      BY <1>2, <1>4
    <2>2. \A q : q \in moved <=> (q \in purl.qualifiers /\ D!AsciiFold(q.key) # "distro") \/ q = new
      BY DEF moved, D!Moved
    <2>3. D!AsciiFold("distro") = "distro" /\ "distro" \in D!StrippedQualifiers \ {"repository_url"}
      BY FoldAssumption DEF D!StrippedQualifiers
    <2>4. new.key = "distro" /\ new.value = "next"
      OBVIOUS
    <2> HIDE DEF new
    <2>5. ASSUME NEW q \in moved, NEW r \in moved, q.value # D!None, r.value # D!None,
                 D!AsciiFold(q.key) = D!AsciiFold(r.key)
          PROVE  q = r
      BY <1>4, <2>2, <2>3, <2>4, <2>5 DEF D!Parses
    <2>6. D!Parses(next)
      BY <1>2, <1>4, <2>1, <2>5 DEF D!Parses
    <2>7. Telling(purl) = Telling(next)
      BY <2>1, <2>2, <2>3, <2>4 DEF Telling
    <2> QED BY <1>2, <1>4, <2>6, <2>7 DEF next
  <1> QED BY <1>3, <1>4

\* What is raised is an upgrade of what it was, over what that holds raised.
LEMMA RaiseIs ==
  ASSUME NEW raised, NEW c, ComponentParts \subseteq DOMAIN c, PurlParts \subseteq DOMAIN c.purl
  PROVE  LET y == D!Raise(raised, c) IN
         Upgrade(c, y) /\ y.components = [i \in DOMAIN c.components |-> raised[c.components[i]]]
  <1> DEFINE y == D!Raise(raised, c)
             s == [i \in DOMAIN c.components |-> raised[c.components[i]]]
             h == D!Held(raised, c)
  <1>1. h = [c EXCEPT !.components = s]
    BY DEF D!Held
  <1> HIDE DEF s
  <1>2. h.components = s /\ \A part \in DOMAIN c \ {"components"} : h[part] = c[part]
    BY <1>1 DEF ComponentParts
  <1>3. DOMAIN h = DOMAIN c
    BY <1>1
  <1>4. y = [h EXCEPT !.version = "v9", !.purl = D!Released(h.purl)]
    BY DEF D!Raise
  <1> HIDE DEF h, y
  <1>5. /\ y.purl = D!Released(h.purl) /\ \A part \in DOMAIN h \ {"version", "purl"} : y[part] = h[part]
    BY <1>3, <1>4 DEF ComponentParts
  <1>6. /\ y.components = s /\ y.sound = c.sound /\ y.ref = c.ref /\ y.type = c.type
        /\ y.group = c.group /\ y.name = c.name /\ y.purl = D!Released(c.purl)
    BY <1>2, <1>3, <1>5 DEF ComponentParts
  <1>7. Upgrade(c, y)
    BY <1>6, ReleasedTells DEF Upgrade
  <1> QED BY <1>6, <1>7 DEF s, y

\* The image that carries them is an upgrade of what it was.
LEMMA RetagIs ==
  ASSUME NEW raised, NEW c, ComponentParts \subseteq DOMAIN c
  PROVE  LET y == D!Retagged(D!Held(raised, c)) IN
         Upgrade(c, y) /\ y.components = [i \in DOMAIN c.components |-> raised[c.components[i]]]
  <1> DEFINE h == D!Held(raised, c)
             y == D!Retagged(h)
             s == [i \in DOMAIN c.components |-> raised[c.components[i]]]
  <1>1. h = [c EXCEPT !.components = s]
    BY DEF D!Held
  <1> HIDE DEF s
  <1>2. h.components = s /\ \A part \in DOMAIN c \ {"components"} : h[part] = c[part]
    BY <1>1 DEF ComponentParts
  <1>3. DOMAIN h = DOMAIN c
    BY <1>1
  <1>4. y = IF h.tag = D!None THEN [h EXCEPT !.version = "v9"] ELSE [h EXCEPT !.tag = "v9"]
    BY DEF D!Retagged
  <1> HIDE DEF h, y
  <1>5. \A part \in DOMAIN h \ {"version", "tag"} : y[part] = h[part]
    BY <1>3, <1>4
  <1>6. /\ y.components = s /\ y.sound = c.sound /\ y.ref = c.ref /\ y.type = c.type
        /\ y.group = c.group /\ y.name = c.name /\ y.purl = c.purl
    BY <1>2, <1>3, <1>5 DEF ComponentParts
  <1>7. Upgrade(c, y)
    BY <1>6 DEF Upgrade
  <1> QED BY <1>6, <1>7 DEF s, y, h

\* A list raised lists what its elements are raised to.
LEMMA ListRaised ==
  ASSUME NEW R, NEW raised, NEW list, IsSequence(list),
         \A b \in D!Range(list) : <<b, raised[b]>> \in R
  PROVE  LET s == [i \in DOMAIN list |-> raised[list[i]]] IN
         IsSequence(s) /\ DOMAIN s = DOMAIN list /\ Paired(R, D!Range(list), D!Range(s))
  <1> DEFINE s == [i \in DOMAIN list |-> raised[list[i]]]
  <1>1. Len(list) \in Nat /\ DOMAIN list = 1 .. Len(list)
    BY DEF IsSequence
  <1>2. \A i \in DOMAIN list : s[i] = raised[list[i]]
    OBVIOUS
  <1>3. IsSequence(s) /\ DOMAIN s = DOMAIN list
    BY <1>1, FunctionListed
  <1> HIDE DEF s
  <1>4. ASSUME NEW b \in D!Range(list) PROVE \E d \in D!Range(s) : <<b, d>> \in R
    <2>1. PICK i \in DOMAIN list : b = list[i]
      BY DEF D!Range
    <2>2. raised[b] \in D!Range(s)
      BY <1>2, <1>3, <2>1 DEF D!Range
    <2> QED BY <2>2
  <1>5. ASSUME NEW d \in D!Range(s) PROVE \E b \in D!Range(list) : <<b, d>> \in R
    <2>1. PICK i \in DOMAIN s : d = s[i]
      BY DEF D!Range
    <2>2. list[i] \in D!Range(list) /\ d = raised[list[i]]
      BY <1>2, <1>3, <2>1 DEF D!Range
    <2> QED BY <2>2
  <1> QED BY <1>3, <1>4, <1>5 DEF Paired, s

\* The components of a bill and what they are raised to.
RaisesOf(document) ==
  {<<c, D!Raises(document)[n][c]>> : n \in Nat, c \in D!Listed(document)}
  \cup {<<s, D!Retagged(D!Held(D!Raises(document)[MaxDepth + 1], s))>> : s \in D!Range(document.subject)}

\* Two components of a bill in its pairs: one is an upgrade of the other.
LEMMA RaisesRelate ==
  ASSUME NEW document, CdxNested(document), CdxFormed(document), NEW x, NEW y, <<x, y>> \in RaisesOf(document)
  PROVE  /\ Upgrade(x, y) /\ IsSequence(y.components)
         /\ Paired(RaisesOf(document), D!Range(x.components), D!Range(y.components))
  <1> DEFINE R == RaisesOf(document)
             T == D!Raises(document)
  <1>1. ASSUME NEW m \in Nat, NEW b \in D!Listed(document) PROVE <<b, T[m][b]>> \in R
    BY DEF RaisesOf
  <1>2. ASSUME NEW c, IsSequence(c.components), D!Range(c.components) \subseteq D!Listed(document), NEW m \in Nat,
               NEW d, d.components = [i \in DOMAIN c.components |-> T[m][c.components[i]]]
        PROVE  IsSequence(d.components) /\ Paired(R, D!Range(c.components), D!Range(d.components))
    <2> DEFINE list == c.components
               raised == T[m]
    <2>1. \A b \in D!Range(list) : <<b, raised[b]>> \in R
      BY <1>1, <1>2
    <2>2. IsSequence(list) /\ d.components = [i \in DOMAIN list |-> raised[list[i]]]
      BY <1>2
    <2> HIDE DEF R, list, raised
    <2> DEFINE s == [i \in DOMAIN list |-> raised[list[i]]]
    <2>3. IsSequence(s) /\ Paired(R, D!Range(list), D!Range(s))
      BY <2>1, <2>2, ListRaised
    <2>4. d.components = s
      BY <2>2
    <2> HIDE DEF s
    <2> QED BY <2>3, <2>4 DEF list
  <1>3. CASE \E n \in Nat : \E c \in D!Listed(document) : x = c /\ y = T[n][c]
    <2>1. x \in D!Listed(document) /\ \E n \in Nat : y = T[n][x]
      BY <1>3
    <2>2. PICK n \in Nat : y = T[n][x]
      BY <2>1
    <2>3. /\ ComponentParts \subseteq DOMAIN x /\ PurlParts \subseteq DOMAIN x.purl /\ IsSequence(x.components)
          /\ D!Range(x.components) \subseteq D!Listed(document)
      <3> DEFINE z == [component |-> x, subject |-> FALSE]
      <3>1. z \in Whole(document) /\ z.component = x
        BY <2>1 DEF Whole, Met
      <3> HIDE DEF z
      <3> QED BY <3>1, HeldIsListed
    <2>4. CASE n = 0
      <3>1. y = x
        BY <2>1, <2>2, <2>4, RaisesGoOn
      <3>2. \A b \in D!Range(x.components) : <<b, b>> \in R
        <4>1. \A b \in D!Listed(document) : T[0][b] = b
          BY RaisesGoOn
        <4> HIDE DEF T, R
        <4> QED BY <1>1, <2>3, <4>1
      <3> HIDE DEF R
      <3> QED BY <2>3, <3>1, <3>2 DEF Upgrade, Paired, R
    <2>5. CASE n # 0
      <3>1. n - 1 \in Nat /\ n - 1 + 1 = n
        BY <2>5
      <3>2. y = D!Raise(T[n - 1], x)
        BY <2>1, <2>2, <3>1, RaisesGoOn
      <3> HIDE DEF T, R
      <3>3. Upgrade(x, y) /\ y.components = [i \in DOMAIN x.components |-> T[n - 1][x.components[i]]]
        BY <2>3, <3>2, RaiseIs
      <3> QED BY <1>2, <2>3, <3>1, <3>3 DEF R
    <2> QED BY <2>4, <2>5
  <1>4. CASE x \in D!Range(document.subject) /\ y = D!Retagged(D!Held(T[MaxDepth + 1], x))
    <2>1. /\ ComponentParts \subseteq DOMAIN x /\ IsSequence(x.components)
          /\ D!Range(x.components) \subseteq D!Listed(document)
      <3> DEFINE z == [component |-> x, subject |-> TRUE]
      <3>1. z \in Whole(document) /\ z.component = x
        BY <1>4 DEF Whole, Subjects
      <3> HIDE DEF z
      <3> QED BY <3>1, HeldIsListed
    <2>2. MaxDepth + 1 \in Nat
      BY DepthAssumption
    <2> HIDE DEF T, R
    <2>3. Upgrade(x, y) /\ y.components = [i \in DOMAIN x.components |-> T[MaxDepth + 1][x.components[i]]]
      BY <1>4, <2>1, RetagIs
    <2> QED BY <1>2, <2>1, <2>2, <2>3 DEF R
  <1> QED BY <1>3, <1>4 DEF RaisesOf

\* The bill of the next release is an upgrade of the bill, which fits when that does.
LEMMA RaisedUpgrades ==
  ASSUME NEW document, CdxListed(document), CdxNested(document), CdxFormed(document),
         \A s \in D!Range(document.subject) : D!IsContainer(s) /\ s.name # D!None
  PROVE  LET other == D!Upgraded(document) IN
         /\ Upgraded(document, other) /\ CdxListed(other) /\ CdxNested(other)
         /\ (Fits(document) /\ IsFiniteSet(CarriersOf(Whole(document)))) => Fits(other)
  <1> DEFINE other == D!Upgraded(document)
             raised == D!Raises(document)[MaxDepth + 1]
             R == RaisesOf(document)
             subject == document.subject
             components == document.components
             subjects == [i \in DOMAIN subject |-> D!Retagged(D!Held(raised, subject[i]))]
             tops == [i \in DOMAIN components |-> raised[components[i]]]
  <1>1. other = [document EXCEPT !.subject = subjects, !.components = tops]
    BY DEF D!Upgraded
  <1> HIDE DEF subjects, tops
  <1>2. /\ other.subject = subjects /\ other.components = tops /\ other.vulnerabilities = document.vulnerabilities
        /\ other.shape = document.shape /\ other.faulted = document.faulted
        /\ other.tools = document.tools /\ other.serial = document.serial
        /\ other.version = document.version
    BY <1>1 DEF CdxFormed, BillParts
  <1> HIDE DEF other
  <1>3. IsSequence(subject) /\ IsSequence(components)
    BY DEF CdxNested
  <1>4. IsSequence(subjects) /\ DOMAIN subjects = DOMAIN subject
    <2>1. Len(subject) \in Nat /\ DOMAIN subject = 1 .. Len(subject)
      BY <1>3 DEF IsSequence
    <2> QED BY <2>1, FunctionListed DEF subjects
  <1>5. ASSUME NEW i \in DOMAIN subject PROVE <<subject[i], subjects[i]>> \in R
    <2>1. subject[i] \in D!Range(subject) /\ subjects[i] = D!Retagged(D!Held(raised, subject[i]))
      BY DEF D!Range, subjects
    <2> QED BY <2>1 DEF RaisesOf
  <1>6. \A b \in D!Range(components) : <<b, raised[b]>> \in R
    <2>1. SUFFICES ASSUME NEW b \in D!Range(components) PROVE <<b, raised[b]>> \in R
      OBVIOUS
    <2> DEFINE z == [component |-> b, subject |-> FALSE]
    <2>2. z \in Starts(document)
      BY DEF Starts, Met
    <2>3. z \in Whole(document) /\ z.component = b /\ z.subject = FALSE
      BY <2>2, WholeCloses
    <2> HIDE DEF z
    <2>4. b \in D!Listed(document)
      BY <2>3 DEF Whole, Subjects, Met
    <2>5. MaxDepth + 1 \in Nat
      BY DepthAssumption
    <2> QED BY <2>4, <2>5 DEF RaisesOf
  <1>7. IsSequence(tops) /\ Paired(R, D!Range(components), D!Range(tops))
    <2> HIDE DEF R, raised, components
    <2> QED BY <1>3, <1>6, ListRaised DEF tops
  <1>8. \A x, y : <<x, y>> \in R =>
          /\ Upgrade(x, y) /\ IsSequence(y.components)
          /\ Paired(R, D!Range(x.components), D!Range(y.components))
    BY RaisesRelate
  <1> HIDE DEF R
  <1>9. Trees(R, document, other)
    BY <1>2, <1>4, <1>5, <1>7, <1>8 DEF Trees
  <1>10. Upgraded(document, other)
    BY <1>2, <1>3, <1>4, <1>8, <1>9 DEF Upgraded
  <1>11. CdxListed(other)
    BY <1>2 DEF CdxListed
  <1>12. ASSUME NEW y \in Whole(other) PROVE IsSequence(y.component.components)
    BY <1>8, <1>9, WholePair
  <1>13. D!Levels(other)[MaxDepth + 1] = {}
    <2>1. MaxDepth + 1 \in Nat
      BY DepthAssumption
    <2>2. Paired(R, D!Levels(document)[MaxDepth + 1], D!Levels(other)[MaxDepth + 1])
      BY <1>9, <2>1, LevelsPair
    <2> QED BY <2>2 DEF Paired, CdxNested
  <1>14. CdxNested(other)
    BY <1>2, <1>4, <1>7, <1>12, <1>13 DEF CdxNested
  <1>15. (Fits(document) /\ IsFiniteSet(CarriersOf(Whole(document)))) => Fits(other)
    BY <1>2, <1>10, UpgradeFits
  <1> QED BY <1>10, <1>11, <1>14, <1>15 DEF other

-----------------------------------------------------------------------------
(* What the run makes of the bill it reads again.                            *)

\* A bill the walk has read to its end fits, and its candidates are its statements.
LEMMA ReadFits ==
  ASSUME CdxListed(doc), CdxNested(doc), CdxKept(parse, doc), Traced(parse, doc), Exact(parse, doc),
         Cleared(parse, doc), D!Imports
  PROVE  /\ D!Observed = Shown(doc) /\ Fits(doc)
         /\ IsFiniteSet(CarriersOf(Whole(doc))) /\ IsFiniteSet(Stated(doc))
  <1>1. parse.step \in {"superseded", "scoped"}
    BY DEF D!Imports
  <1>2. Fits(doc)
    BY <1>1, ImportsFit
  <1>3. IsFiniteSet(CarriersOf(Whole(doc)))
    BY <1>1 DEF Exact
  <1> QED BY <1>2, <1>3, ShowsAll DEF Fits

\* Read again with every list of it reversed, it shows what it showed.
LEMMA TurnedShows ==
  ASSUME CdxListed(doc), CdxNested(doc), CdxFormed(doc), CdxKept(parse, doc), Traced(parse, doc),
         Exact(parse, doc), Cleared(parse, doc)
  PROVE  D!OrderIsLost
  <1> DEFINE turned == D!Turned(doc)
  <1> SUFFICES ASSUME D!Imports, ~D!Walking(D!Again(turned)) PROVE D!Reread(turned) = D!Observed
    BY DEF D!OrderIsLost
  <1>1. /\ D!Observed = Shown(doc) /\ Fits(doc)
        /\ IsFiniteSet(CarriersOf(Whole(doc))) /\ IsFiniteSet(Stated(doc))
    BY ReadFits
  <1>2. Shuffled(doc, turned) /\ Fits(turned) /\ CdxListed(turned) /\ CdxNested(turned)
    BY <1>1, TurnedShuffles, TurnedNested, TurnedBounds
  <1>3. \A v \in D!Range(doc.vulnerabilities) : v.text \in Nat
    BY DEF CdxFormed
  <1> HIDE DEF turned
  <1>4. D!Reread(turned) = Shown(turned)
    BY <1>2, RereadShows
  <1>5. Shown(doc) = Shown(turned)
    BY <1>1, <1>2, <1>3, ShuffleShows
  <1> QED BY <1>1, <1>4, <1>5

\* Read again one release on, it shows every finding on the package where it was.
LEMMA RaisedShows ==
  ASSUME CdxListed(doc), CdxNested(doc), CdxFormed(doc), CdxKept(parse, doc), Traced(parse, doc),
         Exact(parse, doc), Cleared(parse, doc)
  PROVE  D!RowsOutliveUpgrades
  <1> DEFINE raised == D!Upgraded(doc)
  <1> SUFFICES ASSUME D!Imports, ~D!Walking(D!Again(raised)),
                      \A s \in D!Range(doc.subject) : D!IsContainer(s) /\ s.name # D!None
               PROVE  D!PackageRows(D!Reread(raised)) = D!PackageRows(D!Observed)
    BY DEF D!RowsOutliveUpgrades
  <1>1. /\ D!Observed = Shown(doc) /\ Fits(doc) /\ IsFiniteSet(CarriersOf(Whole(doc)))
    BY ReadFits
  <1>2. Upgraded(doc, raised) /\ Fits(raised) /\ CdxListed(raised) /\ CdxNested(raised)
    BY <1>1, RaisedUpgrades
  <1> HIDE DEF raised
  <1>3. D!Reread(raised) = Shown(raised)
    BY <1>2, RereadShows
  <1>4. RowKeys(Shown(doc)) = RowKeys(Shown(raised))
    BY <1>1, <1>2, UpgradeShows
  <1>5. \A observations : D!PackageRows(observations) = RowKeys(observations)
    BY DEF D!PackageRows, RowKeys
  <1> QED BY <1>1, <1>3, <1>4, <1>5

=============================================================================
