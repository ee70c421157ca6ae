------------------------------ MODULE IngestMC ------------------------------
(* Logs of one run or two, trees of three profiles, bills of materials, the  *)
(* three kinds of checklist, and runs over three files that share digests.  *)
EXTENDS Ingest

MCRefused == {"bad"}

-----------------------------------------------------------------------------
(* SARIF logs. *)

Invocation(flag, failing, start, end) ==
  [flag |-> flag, errors |-> failing, start |-> start, end |-> end, overrides |-> <<>>]
Succeeded == Invocation("true", FALSE, 3, Absent)

NoRef == [component |-> Absent, component_guid |-> None, index |-> Absent, guid |-> None, id |-> None]

Result ==
  [object |-> TRUE, ref |-> NoRef, rule_id |-> "r1", rule_index |-> Absent,
   kind |-> None, level |-> None, score |-> None, first |-> Absent, last |-> Absent,
   invocation |-> Absent, suppressed |-> FALSE, locations |-> <<>>, target |-> None]

Rules == <<[id |-> "r1", guid |-> "g1", level |-> "note", score |-> None],
           [id |-> "r2", guid |-> "g2", level |-> None, score |-> "CRITICAL"]>>
Components == <<[guid |-> "c1", rules |-> Rules],
                [guid |-> "c2", rules |-> <<[id |-> "r1", guid |-> "g1", level |-> "error", score |-> None]>>]>>

Run == [object |-> TRUE, invocations |-> <<>>, array |-> TRUE, converter |-> "absent",
        external |-> FALSE, driver |-> "tool", category |-> None, image |-> None,
        repository |-> None, listed |-> "array", results |-> <<>>, components |-> Components]

Log(runs, inline) == [shape |-> "ok", inline |-> inline, runs |-> runs]

Invoked ==
  {<<>>, <<Succeeded>>, <<Invocation("true", TRUE, 3, Absent)>>,
   <<Invocation("false", FALSE, 2, 5)>>, <<Invocation("false", FALSE, Unusable, 1)>>,
   <<Succeeded, Invocation("false", FALSE, 4, Absent)>>, <<Invocation("other", FALSE, Absent, 6)>>}

\* A finding, one suppressed, and one that spells the clean run's record.
Kinds ==
  {<<>>, <<Result>>, <<[Result EXCEPT !.suppressed = TRUE, !.first = 4]>>,
   <<[Result EXCEPT !.rule_id = S!CleanRunRecord, !.kind = "pass", !.first = 5, !.score = "LOW"]>>}

ScopedRuns ==
  {[Run EXCEPT !.invocations = i, !.driver = d, !.results = r] :
     i \in Invoked, d \in {"tool", None, "bad"}, r \in Kinds}
DoubtedRuns ==
  {[Run EXCEPT !.invocations = i, !.converter = c, !.external = e, !.listed = l, !.array = a] :
     i \in Invoked, c \in {"clean", "unclean"}, e \in BOOLEAN, l \in {"array", "other", "absent"},
     a \in BOOLEAN}
PlacedRuns ==
  {[Run EXCEPT !.image = i, !.repository = r, !.results = <<[Result EXCEPT !.locations = l, !.target = t]>>] :
     i \in {None, "img", "bad"}, r \in {None, "repo"}, t \in {None, "src", "bad"},
     l \in {<<>>, <<[uri |-> "u", logical |-> None], [uri |-> None, logical |-> "f"]>>,
            <<[uri |-> None, logical |-> None]>>, <<[uri |-> "bad", logical |-> None]>>,
            <<[uri |-> "u", logical |-> None], [uri |-> "v", logical |-> None],
              [uri |-> "w", logical |-> None]>>}}
Pairs ==
  {[Run EXCEPT !.invocations = i, !.results = r] : i \in Invoked, r \in Kinds}
  \cup {[Run EXCEPT !.driver = None, !.invocations = i] : i \in Invoked}

Refs == {[component |-> c, component_guid |-> g, index |-> i, guid |-> u, id |-> d] :
           c \in {Absent, 0, 1}, g \in {None, "c2", "c9"}, i \in {Absent, 1, 5},
           u \in {None, "g1"}, d \in {None, "r2"}}
RuledResults ==
  {[Result EXCEPT !.ref = f, !.rule_id = d, !.rule_index = i] :
     f \in Refs, d \in {None, "r1"}, i \in {Absent, 0}}
Override(level) == [ref |-> [NoRef EXCEPT !.id = "r1"], level |-> level]
Overriding == <<[Succeeded EXCEPT !.overrides = <<Override(None), Override("error")>>]>>
GradedResults ==
  {[Result EXCEPT !.kind = k, !.level = v, !.score = s, !.first = f] :
     k \in {None, "fail", "notApplicable", "open", "odd"}, v \in {None, "error"},
     s \in {None, "unusable", "MEDIUM"}, f \in {Absent, Unusable, 7}}
FoldedResults ==
  {[Result EXCEPT !.kind = k, !.first = f, !.score = s] :
     k \in {None, "pass", "review"}, f \in {Absent, 2}, s \in {None, "CRITICAL"}}

SarifLogs ==
  {Log(<<run>>, inline) : run \in ScopedRuns \cup DoubtedRuns, inline \in BOOLEAN}
  \cup {Log(<<run>>, FALSE) : run \in PlacedRuns}
  \cup {Log(<<a, b>>, FALSE) : a, b \in Pairs}
  \cup {Log(<<[Run EXCEPT !.results = <<r>>]>>, FALSE) : r \in RuledResults}
  \cup {Log(<<[Run EXCEPT !.invocations = Overriding, !.results = <<r>>]>>, FALSE) : r \in GradedResults}
  \cup {Log(<<[Run EXCEPT !.results = <<a, b>>]>>, FALSE) : a, b \in FoldedResults}
  \cup {[Log(<<>>, FALSE) EXCEPT !.shape = "other"], Log(<<>>, FALSE),
        Log(<<[Run EXCEPT !.object = FALSE], Run>>, FALSE),
        Log(<<[Run EXCEPT !.results = <<[Result EXCEPT !.object = FALSE], Result>>]>>, FALSE),
        Log(<<[Run EXCEPT !.results = <<[Result EXCEPT !.rule_id = None], Result>>]>>, FALSE),
        Log(<<[Run EXCEPT !.results = <<Result, Result, Result>>]>>, FALSE),
        Log(<<[Run EXCEPT !.results = <<Result, [Result EXCEPT !.rule_id = "r2"]>>],
              [Run EXCEPT !.results = <<[Result EXCEPT !.rule_id = "r3"]>>]>>, FALSE)}

-----------------------------------------------------------------------------
(* HDF documents. *)

Check(status, backtrace, marker, start) ==
  [object |-> TRUE, status |-> status, backtrace |-> backtrace, marker |-> marker, start |-> start]
Control ==
  [object |-> TRUE, id |-> "k", array |-> TRUE, results |-> <<>>, impact |-> "MEDIUM",
   override |-> None, severity |-> None, waiver |-> None, attestation |-> None, title |-> 1]

Profile(name, parent, controls) ==
  [object |-> TRUE, name |-> name, parent |-> parent, status |-> None, array |-> TRUE,
   controls |-> controls]
Document(profiles) == [platform |-> TRUE, version |-> TRUE, target |-> "host", profiles |-> profiles]

Fails == <<Check("failed", FALSE, None, 3)>>
Controls ==
  {[Control EXCEPT !.waiver = "w", !.title = 2], [Control EXCEPT !.attestation = "a", !.title = 3],
   [Control EXCEPT !.results = Fails], [Control EXCEPT !.results = Fails, !.impact = "zero"],
   [Control EXCEPT !.results = <<Check("passed", FALSE, None, 2), Check("skipped", FALSE, "attested", 1)>>,
                   !.attestation = "b"],
   [Control EXCEPT !.results = <<Check("passed", FALSE, "expired", 1)>>, !.attestation = "c",
                   !.title = 4],
   [Control EXCEPT !.results = <<Check("failed", TRUE, None, Unusable)>>, !.override = "HIGH"],
   [Control EXCEPT !.results = <<Check("odd", FALSE, None, Absent)>>, !.severity = "LOW"]}

\* A control under a root, under an overlay of it and under a third copy.
Stacks ==
  {Document(<<Profile("b", "a", <<x>>), Profile("a", None, <<y>>), Profile("c", "b", <<z>>)>>) :
     x, y, z \in Controls}
\* Every way three profiles may hang under each other, or not.
Trees ==
  {Document(<<Profile("a", p, <<>>), Profile("b", q, <<Control>>), Profile("c", r, <<>>),
              Profile("d", "a", <<>>)>>) :
     p, q, r \in {None, "a", "b", "c", "d", "gone"}}
Faulted == [Control EXCEPT !.results = <<[Check("failed", FALSE, None, 1) EXCEPT !.object = FALSE]>>]
OddControls ==
  {Faulted, [Control EXCEPT !.object = FALSE], [Control EXCEPT !.id = None],
   [Control EXCEPT !.id = "bad"], [Control EXCEPT !.array = FALSE],
   [Control EXCEPT !.results = Fails \o Fails \o Fails], [Control EXCEPT !.id = "k2"]}
OddProfiles ==
  {[Profile(n, None, c) EXCEPT !.status = s, !.array = a] :
     n \in {"a", None, "bad"}, s \in {None, "loaded", "failed"}, a \in BOOLEAN,
     c \in {<<>>} \cup {<<k, Control>> : k \in OddControls}}
HdfDocuments ==
  Stacks \cup Trees
  \cup {Document(<<profile>>) : profile \in OddProfiles}
  \cup {Document(<<[profile EXCEPT !.name = "z"], Profile("a", "bad", <<>>), Profile("bad", None, <<>>)>>) :
          profile \in OddProfiles}
  \cup {[Document(<<Profile("a", None, <<Control>>)>>) EXCEPT !.target = t, !.platform = p, !.version = v] :
          t \in {None, "bad", "host"}, p, v \in BOOLEAN}
  \cup {Document(<<>>), Document([i \in 1..5 |-> Profile("a", None, <<>>)]),
        Document(<<Profile("a", None, <<[Control EXCEPT !.id = "k1"], [Control EXCEPT !.id = "k2"],
                                        [Control EXCEPT !.id = "k3"], [Control EXCEPT !.id = "k4"]>>)>>),
        Document(<<Profile("a", None, [i \in 1..4 |-> Control])>>)}

-----------------------------------------------------------------------------
(* CycloneDX documents. *)

MCLowered == [Lib |-> "lib", My_lib |-> "my_lib", Acme |-> "acme", PyPI |-> "pypi"]
MCDashed == [my_lib |-> "my-lib"]

Purl(type, name, qualifiers) ==
  [parses |-> TRUE, type |-> type, namespace |-> "Acme", name |-> name, version |-> "v1",
   qualifiers |-> qualifiers, subpath |-> None]
NoPurl == [Purl("npm", "lib", {}) EXCEPT !.parses = FALSE]
Arch == [key |-> "arch", value |-> "arm"]
Twice == {[key |-> "type", value |-> "jar"], [key |-> "type", value |-> "pom"]}

NamedRef(name) == [serial |-> None, version |-> Absent, name |-> name]
Linked(serial, version, name) == [serial |-> serial, version |-> version, name |-> name]

Component ==
  [sound |-> TRUE, type |-> "library", group |-> None, name |-> "lib", tag |-> None, digest |-> None,
   version |-> "v1", purl |-> NoPurl, ref |-> <<>>, components |-> <<>>]
Bears(name, ref) == [Component EXCEPT !.name = name, !.ref = <<NamedRef(ref)>>]
Image == [Component EXCEPT !.type = "container", !.name = "app", !.tag = "v1", !.ref = <<NamedRef("s")>>]

Affected(ref, unaffected) == [ref |-> ref, unaffected |-> unaffected]
Vulnerability ==
  [sound |-> TRUE, id |-> "cve", state |-> None, judged |-> FALSE, unfixed |-> FALSE, text |-> 1,
   ratings |-> {}, affects |-> <<>>]
Affecting(ref) == [Vulnerability EXCEPT !.affects = <<Affected(ref, {})>>]

Bom ==
  [shape |-> "ok", faulted |-> FALSE, listed |-> TRUE, tools |-> {[name |-> "grype", application |-> FALSE]},
   subject |-> <<Image>>, components |-> <<Bears("lib", "a")>>, vulnerabilities |-> <<>>,
   serial |-> "this", version |-> 1, timestamp |-> 3]

\* The components references may lead to: alone, under another, under the subject,
\* and a reference two of them carry.
Purls == {NoPurl, Purl("npm", "Lib", {}), Purl("PyPI", "My_lib", {Arch}), Purl("deb", "Lib", {}),
          Purl("maven", "bad", {}), Purl("maven", "lib", Twice),
          Purl("oci", "lib", {[key |-> "tag", value |-> "v1"], [key |-> "Lib", value |-> None]})}
Carried == {[Bears("lib", "a") EXCEPT !.purl = p, !.version = v] : p \in Purls, v \in {"v1", None}}
Pools ==
  {<<x, Bears("other", "b")>> : x \in Carried}
  \cup {<<x, [x EXCEPT !.version = "v2"], [y EXCEPT !.components = <<Bears("lib", "a")>>]>> :
           x \in Carried, y \in {Bears("other", "b"), Bears("other", "s")}}
Stated == {NamedRef("a"), NamedRef("s"), NamedRef("gone"), NamedRef("bad"), Linked("this", 1, "a"),
           Linked("this", 2, "a"), Linked("that", 1, "a")}
Entries == {Affected(r, u) : r \in Stated, u \in {{}, {"v1"}}}
Judgments ==
  {[Vulnerability EXCEPT !.state = s, !.judged = j] :
     s \in {None, "exploitable", "not_affected", "resolved_with_pedigree", "odd", "unread"}, j \in BOOLEAN}
Ratings == {{}, {[word |-> "high", source |-> 2]}, {[word |-> "low", source |-> 1], [word |-> "odd", source |-> 1]},
            {[word |-> "high", source |-> 1], [word |-> "high", source |-> 0]}}
Pooled(pool, records) == [Bom EXCEPT !.components = pool, !.vulnerabilities = records]

Resolved == {Pooled(pool, <<[j EXCEPT !.affects = <<e>>]>>) : pool \in Pools, j \in Judgments, e \in Entries}
Folding ==
  {Pooled(pool, <<[Affecting(NamedRef("a")) EXCEPT !.ratings = g, !.state = s, !.text = 2],
                  [Affecting(r) EXCEPT !.ratings = h, !.affects = @ \o @]>>) :
     pool \in {<<x, [x EXCEPT !.ref = <<NamedRef("b")>>]>> : x \in Carried},
     g, h \in Ratings, s \in {None, "in_triage", "resolved"}, r \in {NamedRef("b"), NamedRef("s")}}
Subjects ==
  {<<>>, <<[Image EXCEPT !.name = "bad"]>>, <<[Image EXCEPT !.tag = None, !.version = "digest"]>>,
   <<[Image EXCEPT !.name = None]>>, <<[Image EXCEPT !.tag = None, !.digest = "digest"]>>,
   <<[Image EXCEPT !.tag = None, !.version = None]>>, <<[Image EXCEPT !.tag = None, !.name = None]>>,
   <<[Image EXCEPT !.type = "application", !.group = "g"]>>, <<[Image EXCEPT !.sound = FALSE]>>,
   <<[Image EXCEPT !.type = "os", !.purl = Purl("oci", "app", {})]>>,
   <<[Image EXCEPT !.components = <<Bears("lib", "a")>>]>>}
Told == {[Vulnerability EXCEPT !.id = D!ScopeRecord], Affecting(NamedRef("a")), [Affecting(NamedRef("a")) EXCEPT !.id = None],
         [Affecting(NamedRef("a")) EXCEPT !.id = "bad"], [Affecting(NamedRef("a")) EXCEPT !.sound = FALSE, !.unfixed = TRUE]}
Tooled == {{}, {[name |-> None, application |-> TRUE], [name |-> "grype", application |-> FALSE]},
           {[name |-> "syft", application |-> TRUE], [name |-> "grype", application |-> FALSE]},
           {[name |-> "syft", application |-> FALSE], [name |-> "bad", application |-> FALSE]},
           {[name |-> "syft", application |-> FALSE], [name |-> "grype", application |-> FALSE]}}
Shaped ==
  {[Bom EXCEPT !.subject = s, !.components = c, !.vulnerabilities = v, !.tools = t] :
     s \in Subjects, t \in Tooled,
     c \in {<<>>, <<Bears("lib", "a")>>, <<[Bears("lib", "a") EXCEPT !.sound = FALSE]>>},
     v \in {<<>>} \cup {<<r>> : r \in Told} \cup {<<r, Affecting(NamedRef("a"))>> : r \in Told}}
Limits ==
  {[Bom EXCEPT !.vulnerabilities = v, !.faulted = f, !.listed = l \/ v # <<>>, !.shape = s,
               !.version = k, !.timestamp = k] :
     v \in {<<>>, <<Vulnerability, Vulnerability, Vulnerability>>,
            <<[Vulnerability EXCEPT !.affects = <<Affected(NamedRef("a"), {}), Affected(NamedRef("b"), {}), Affected(NamedRef("c"), {})>>]>>,
            <<[Vulnerability EXCEPT !.id = "cve2"], Affecting(NamedRef("a"))>>,
            <<[Vulnerability EXCEPT !.affects = <<Affected(NamedRef("a"), {}), Affected(NamedRef("b"), {})>>],
              [Vulnerability EXCEPT !.id = "cve2"]>>},
     f, l \in BOOLEAN, s \in {"ok", "other"}, k \in {2, Unusable, Absent}}
CycloneDxDocuments == Resolved \cup Folding \cup Shaped \cup Limits

\* Every second reading of these comes to its end.
ASSUME RereadsEnd ==
  \A bill \in CycloneDxDocuments :
    ~D!Walking(D!Again(D!Turned(bill))) /\ ~D!Walking(D!Again(D!Upgraded(bill)))

-----------------------------------------------------------------------------
(* Checklists. *)

Line(id, status) == [object |-> TRUE, id |-> id, status |-> status]
Container(entries, clocks) ==
  [object |-> TRUE, array |-> TRUE, target |-> None, context |-> "stig", clocks |-> clocks,
   entries |-> entries]
Lines == {<<>>, <<Line("v1", "open")>>, <<Line("v1", "open"), Line("v2", "strange")>>,
          <<Line(None, "pass"), Line(None, "fail")>>,
          <<[Line("v1", "open") EXCEPT !.object = FALSE], Line("v2", "pass")>>}
Clocks == {<<>>, <<Unusable, 4>>}
Containers == {Container(e, c) : e \in Lines, c \in Clocks}
              \cup {[Container(<<>>, <<>>) EXCEPT !.object = FALSE],
                    [Container(<<>>, <<>>) EXCEPT !.array = FALSE]}
CklbDocuments == {[containers |-> c, clocks |-> k] :
                    c \in {<<>>} \cup {<<a>> : a \in Containers} \cup {<<a, b>> : a, b \in Containers},
                    k \in Clocks}
CklDocuments == {[containers |-> <<Container(e, <<>>)>>] : e \in Lines}
Tested == {Container(e, c) : c \in Clocks,
             e \in {<<>>, <<Line("v1", "fixed")>>, <<Line("v1", "open"), Line(C!Blank, "open")>>}}
XccdfDocuments == {[containers |-> c, benchmark |-> FALSE] : c \in {<<a, b>> : a, b \in Tested}}
                  \cup {[containers |-> <<a>>, benchmark |-> b] : a \in Tested, b \in BOOLEAN}

-----------------------------------------------------------------------------
(* Runs over several files. *)

Content(syntax, kind, body) == [syntax |-> syntax, kind |-> kind, body |-> body]
Source(suffix, digest, content) == [suffix |-> suffix, digest |-> digest, content |-> content]
NoBody == [platform |-> FALSE]

Scan == Content("json", "sarif", Log(<<[Run EXCEPT !.results = <<Result>>]>>, FALSE))
Failing == <<Invocation("false", FALSE, 2, 5)>>
Benchmarked == Content("xml", "xccdf", [containers |-> <<Container(<<Line("v1", "fail")>>, <<4>>)>>, benchmark |-> FALSE])
Sources ==
  <<Source("xml", 10, Benchmarked), Source("json", 10, Benchmarked),
    Source("sarif", 1, Scan), Source("json", 1, Scan),
    Source("sarif", 2, Content("json", "sarif", Log(<<[Run EXCEPT !.invocations = Failing, !.results = <<Result>>]>>, FALSE))),
    Source("sarif", 3, Content("json", "sarif", Log(<<[Run EXCEPT !.invocations = Failing]>>, FALSE))),
    Source("sarif", 4, Content("broken", "other", NoBody)), Source("txt", 4, Content("broken", "other", NoBody)),
    Source("json", 5, Content("json", "hdf", Document(<<Profile("a", None, <<Control>>)>>))),
    Source("xml", 6, Content("xml", "xccdf", [containers |-> <<Container(<<>>, <<>>)>>, benchmark |-> FALSE])),
    Source("ckl", 6, Content("xml", "xccdf", [containers |-> <<Container(<<>>, <<>>)>>, benchmark |-> FALSE])),
    Source("cklb", 7, Content("json", "cklb", [containers |-> <<Container(<<Line("v1", "open")>>, <<>>)>>, clocks |-> <<>>])),
    Source("sarif", 8, Content("unreadable", "other", NoBody)),
    Source("cdx.json", 7, Content("json", "cklb", [containers |-> <<Container(<<Line("v1", "open")>>, <<>>)>>, clocks |-> <<>>]))>>

Supply(i, name) == [name |-> name, suffix |-> Sources[i].suffix, digest |-> Sources[i].digest,
                    content |-> Sources[i].content]
Lone(suffix, kind, body) ==
  <<[name |-> 1, suffix |-> suffix, digest |-> 9,
     content |-> Content(IF suffix \in XmlSuffixes THEN "xml" ELSE "json", kind, body)]>>

Init ==
  \/ \E log \in SarifLogs : Start(Lone("sarif", "sarif", log), TRUE)
  \/ \E document \in HdfDocuments : Start(Lone("json", "hdf", document), TRUE)
  \/ \E document \in HdfDocuments : Start(Lone("hdf.json", "hdf", document), FALSE)
  \/ \E document \in CycloneDxDocuments, suffix \in {"json", "cdx.json"} :
       Start(Lone(suffix, "cyclonedx", document), TRUE)
  \/ \E document \in CklbDocuments : Start(Lone("cklb", "cklb", document), TRUE)
  \/ \E document \in CklDocuments : Start(Lone("xml", "ckl", document), TRUE)
  \/ \E document \in XccdfDocuments : Start(Lone("xml", "xccdf", document), TRUE)
  \/ \E record \in BOOLEAN : Start(<<>>, record)
  \/ \E i, j, k \in DOMAIN Sources, record \in BOOLEAN, order \in {<<1, 2, 3>>, <<3, 1, 2>>} :
       Start(<<Supply(i, order[1]), Supply(j, order[2]), Supply(k, order[3])>>, record)
=============================================================================
