--------------------------- MODULE HistoryAuditMC ---------------------------
(* Streams of every kind, and seven sets of rows to draw a log from. *)
EXTENDS HistoryAudit

Stream(kind, tag, digest) ==
  [kind |-> kind, tag |-> tag, digest |-> digest, parser |-> "P", named |-> TRUE]
A == Stream("artifact", 1, "d1")
B == Stream("artifact", 2, "d2")
N == Stream("artifact", 2, "d1")
K == Stream("case", 1, "none")
F == Stream("failure", 1, "d1")
H == Stream("failure", 2, "d1")
G == Stream("coverage", 1, "none")
L == Stream("coverage", 2, "none")
None == Stream("none", 1, "none")
Unnamed(s) == [s EXCEPT !.named = FALSE]

Event(s, type) == [stream |-> s, type |-> type, well |-> "ok", names |-> s, obs |-> "o1",
                   says |-> "x", count |-> 0, meta |-> TRUE, class |-> "none"]
With(e, name, value) == [e EXCEPT ![name] = value]

Opening(s) == Event(s, CHOOSE type \in Heads[s.kind] : TRUE)
Recorded(s) == [Event(s, "failure.recorded") EXCEPT !.class = "content"]
Held(s) == [Event(s, "failure.held") EXCEPT !.class = "content"]
Record(s) == Event(s, Obs)

Artifacts ==
  {With(Opening(A), "count", 1), With(Opening(A), "count", 2), Opening(B),
   Record(A), With(Record(A), "obs", "o2"), With(Record(A), "well", "invalid"),
   With(Record(B), "names", A), Event(A, "case.evaluated"), Record(Unnamed(A)),
   With(Record(A), "well", "no_utc"), Record(None), With(Event(None, "artifact.ingested"), "count", 1)}

Failures ==
  {Recorded(F), With(Recorded(F), "says", "y"), Held(F), Record(F), With(Record(F), "obs", "o2"),
   Recorded(H), Held(H), Record(H), With(Record(H), "names", F), With(Record(H), "well", "no_utc"),
   With(Record(H), "meta", FALSE), Event(F, "case.evaluated")}

Gaps ==
  {Opening(G), With(Opening(G), "says", "y"), Record(G), With(Record(G), "names", L),
   With(Record(G), "names", F), Opening(L), Record(L), With(Opening(L), "well", "invalid"),
   Event(L, Created), With(Record(L), "meta", FALSE), Opening(Unnamed(L)), Recorded(L)}

Cases ==
  {Event(K, Created), With(Event(K, Created), "names", A), Event(K, "case.evaluated"),
   Event(K, "case.disposition_recorded"), With(Event(K, "case.evaluated"), "well", "invalid"),
   Event(Unnamed(K), "case.evaluated"), Event(Unnamed(K), Created), Record(K),
   With(Event(K, "case.disposition_recorded"), "meta", FALSE), Opening(A)}

Mixed ==
  {With(Opening(A), "count", 1), Record(A), Recorded(F), Record(F), Opening(G), Record(G),
   Event(K, Created)}

\* A reading whose clock has no UTC form, a newer reading of the same bytes by its
\* parser, one by another parser, and a failure of the newer version.
Clocks ==
  {With(Opening(A), "count", 1), With(Record(A), "well", "no_utc"), Opening(N),
   Opening([N EXCEPT !.parser = "Q"]), Recorded(H), Record(H)}

\* A hold written behind a recorded head, and one on a stream of its own: the mark
\* the first lacks is made while verify may be past its walk.
Holds == {Recorded(F), Record(F), Held(F), Held(H), Record(H)}

Draw(pool, length, stored, verifies) ==
  [rows |-> pool, length |-> length, past |-> stored, verifies |-> verifies]

ScenariosMC ==
  {Draw(Artifacts, 4, 4, 0), Draw(Failures, 4, 4, 0), Draw(Gaps, 4, 4, 0), Draw(Cases, 4, 4, 0),
   Draw(Mixed, 4, 4, 0), Draw(Mixed, 4, 0, 1), Draw(Mixed, 3, 1, 1),
   Draw(Holds, 5, 0, 1), Draw(Clocks, 4, 0, 1)}

=============================================================================
