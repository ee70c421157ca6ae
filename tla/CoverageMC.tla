----------------------------- MODULE CoverageMC -----------------------------
(* A small instance: two hosts of one sample group, a procedure, a rename   *)
(* and an edit the reader refuses.                                         *)
EXTENDS Coverage

Entry(ref, aliases, machine, drift, group, job, since, gone, attested) ==
  [ref |-> ref, aliases |-> aliases, machine |-> machine, drift |-> drift, group |-> group,
   job |-> job, since |-> since, gone |-> gone, attested |-> attested]

WebRef == Ref("host", "web")
DbRef == Ref("host", "db")
NewRef == Ref("host", "web-2")
RunbookRef == Ref("procedure", "runbook")

Fleet ==
  {Entry(WebRef, {}, TRUE, "yes", "fleet", "nightly", 1, Never, {}),
   Entry(DbRef, {}, TRUE, "no", "fleet", "nightly", 1, 3, {})}
Renamed ==
  {Entry(NewRef, {WebRef}, TRUE, "unknown", "none", "", 2, 3, {}),
   Entry(RunbookRef, {}, FALSE, "none", "none", "", 0, Never, {0, 4})}
Clashing ==
  {Entry(NewRef, {WebRef}, TRUE, "yes", "none", "", 2, Never, {}),
   Entry(WebRef, {}, TRUE, "yes", "none", "", 2, Never, {})}

MCDocuments == {Fleet, Renamed, Clashing}

Scan(ref, at, disposition) ==
  [origin |-> "artifact", source |-> "sarif", record |-> "rule", resource |-> ref, at |-> at,
   disposition |-> disposition]
Sbom(ref, record, at, disposition) ==
  [origin |-> "artifact", source |-> "cyclonedx", record |-> record, resource |-> ref, at |-> at,
   disposition |-> disposition]

Read(artifact, version, rows) ==
  [artifact |-> artifact, parser |-> "P", version |-> version, read |-> TRUE,
   unsuccessful |-> FALSE, class |-> "none", instant |-> 0, rows |-> rows]
ReadFailed(artifact, version, rows) ==
  [Read(artifact, version, rows) EXCEPT !.unsuccessful = TRUE, !.class = "execution"]
Fails(artifact, version) ==
  [Read(artifact, version, {}) EXCEPT !.read = FALSE, !.class = "content", !.instant = 1]

\* A newer reading of the first scan no longer sees its verification; the
\* second scan's run failed, and a newer parser cannot read it; a newer reading
\* of the last finds the clock the older one had not.
MCPool ==
  {Read("early", "1", {Scan(WebRef, 0, "PASS"), Scan(WebRef, 2, "ERROR")}),
   Read("early", "2", {Sbom(WebRef, "row", 2, "OPEN")}),
   ReadFailed("late", "1", {Scan(WebRef, 3, "OPEN")}),
   Fails("late", "2"),
   Read("rest", "1", {Scan(WebRef, OutOfRange, "OPEN")}),
   Read("rest", "2", {Scan(NewRef, 4, "OPEN"), Sbom(DbRef, "scope", 2, "PASS")})}

MCNumber == [v \in {"1", "2"} |-> IF v = "1" THEN 1 ELSE 2]

\* Class D's policy selects no MVX rule.
Durations == [C |-> [MVX |-> 1, NMV |-> 2, PCD |-> 3, PDD |-> 2, PSD |-> 1],
              B |-> [MVX |-> 2, NMV |-> 3, PCD |-> 4, PDD |-> 3, PSD |-> 2],
              D |-> [NMV |-> 2, PCD |-> 3, PDD |-> 2, PSD |-> 1]]
MCDue == [c \in {"C", "D"} |-> [r \in DOMAIN Durations[c] |-> [t \in Time |-> t + Durations[c][r]]]]
=============================================================================
