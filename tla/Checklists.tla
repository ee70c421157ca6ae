----------------------------- MODULE Checklists -----------------------------
(***************************************************************************)
(* The three STIG adapters (adapters/stig.py): a CKLB, a CKL and an XCCDF  *)
(* document are read in one pass, and unlike the SARIF and HDF adapters    *)
(* they return what they read beside the errors they met.                  *)
(*                                                                         *)
(* A document is its containers, which are the STIGs of a CKLB, the whole  *)
(* of a CKL and the test results of an XCCDF, and theirs are the entries.  *)
(* Its observations are kept by their place in it, because two entries may *)
(* spell one identity, which only the dispatcher notices.                  *)
(***************************************************************************)
EXTENDS Evidence, Sequences, Functions

Aliases ==
  [open |-> "OPEN", fail |-> "OPEN", not_a_finding |-> "PASS", pass |-> "PASS", fixed |-> "PASS",
   not_applicable |-> "NOT_APPLICABLE", notselected |-> "NOT_APPLICABLE",
   not_reviewed |-> "NOT_REVIEWED", notchecked |-> "NOT_REVIEWED",
   informational |-> "NOT_REVIEWED", error |-> "ERROR", unknown |-> "UNKNOWN"]

\* A status of no alias is one nobody reviewed.
NormalizeStatus(raw) == IF raw \in DOMAIN Aliases THEN Aliases[raw] ELSE "NOT_REVIEWED"

\* The first key that reads, in the order they are tried.
ReadClock(clocks) ==
  LET usable == {i \in DOMAIN clocks : Usable(clocks[i])} IN
  IF usable = {} THEN Absent ELSE clocks[FirstOf(usable)]

\* The keys tried are those up to the first that reads.
ClockRefused(clocks) ==
  \E i \in DOMAIN clocks : clocks[i] = Unusable /\ \A j \in 1..i : ~Usable(clocks[j])

EntryId(entry) == IF entry.id = None THEN "?" ELSE entry.id

\* No observation can be built under a blank id: the whole parse raises.
Blank == "blank"
Raises(containers) == \E c \in Range(containers) : \E e \in Range(c.entries) : e.id = Blank

\* A name the document lacks is made from the file's.
Host(file, name) == IF name = None THEN <<"stem", file>> ELSE name

Fallback(containers) ==
  When(\E c \in Range(containers) : c.target = None, Warning("resource_identity_fallback"))

Observed(file, container, entry, clock) ==
  [record |-> EntryId(entry), resource |-> Host(file, container.target),
   context |-> container.context, disposition |-> NormalizeStatus(entry.status), at |-> clock]

Read(entries) == SelectSeq(entries, LAMBDA e : e.object)

\* The entries of the containers, each by its place and at its container's clock.
ObservationsOf(file, containers, clocks) ==
  LET Entries(i) == Read(containers[i].entries)
      places == UNION {{i} \X DOMAIN Entries(i) : i \in DOMAIN containers}
  IN [p \in places |->
        Observed(file, containers[p[1]], Entries(p[1])[p[2]], clocks[p[1]])]

EntryNotes(container) ==
  When(\E e \in Range(container.entries) : ~e.object, Error("invalid_rule"))
  \cup When(\E e \in Range(Read(container.entries)) : e.id = None, Warning("source_record_id_missing"))

Identity(o) == <<o.record, o.resource, o.context>>
Duplicated(observations) ==
  \E i, j \in DOMAIN observations : i # j /\ Identity(observations[i]) = Identity(observations[j])

\* What the adapter returns, with the error the dispatcher adds beside it.
Returned(observations, diagnostics, rejected) ==
  LET all == diagnostics
             \cup When(DOMAIN observations = {}, Error("no_observations"))
             \cup When(Duplicated(observations), Error("duplicate_observation_identity"))
  IN [artifact |-> TRUE, observations |-> Range(observations),
      errors |-> ErrorsOf(all), codes |-> CodesOf(all),
      format_rejected |-> rejected, failed_execution_at |-> Absent, withheld |-> FALSE]

\* stigs; a document of none is no CKLB.
ReadCklb(file, document) ==
  LET clock == ReadClock(document.clocks)
      Entry(stig) == IF ~stig.object THEN {Error("invalid_stig")}
                     ELSE IF ~stig.array THEN {Error("invalid_rules")} ELSE EntryNotes(stig)
      read == SelectSeq(document.containers, LAMBDA stig : stig.object /\ stig.array)
  IN IF document.containers = <<>> THEN Refusal(TRUE, "artifact_parse_failed", TRUE)
     ELSE Returned(ObservationsOf(file, read, [i \in DOMAIN read |-> clock]),
                   UNION {Entry(stig) : stig \in Range(document.containers)}
                   \cup Fallback(document.containers)
                   \cup When(ClockRefused(document.clocks), Warning("source_timestamp_invalid"))
                   \cup When(clock = Absent, Warning("source_timestamp_missing")), FALSE)

\* One checklist with no clock at all.
ReadCkl(file, document) ==
  Returned(ObservationsOf(file, <<document.containers[1]>>, <<Absent>>),
           EntryNotes(document.containers[1]) \cup Fallback(document.containers)
           \cup {Warning("source_timestamp_missing")}, FALSE)

\* A benchmark, which no test result is in, is read as one container and rejected.
ReadXccdf(file, document) ==
  LET containers == document.containers
      Clock(c) == ReadClock(c.clocks)
      Notes(c) == When(ClockRefused(c.clocks), Warning("source_timestamp_invalid"))
                  \cup When(Clock(c) = Absent, Warning("source_timestamp_missing"))
  IN IF Raises(containers) THEN Refusal(TRUE, "artifact_parse_failed", FALSE)
     ELSE Returned(
            ObservationsOf(file, containers, [i \in DOMAIN containers |-> Clock(containers[i])]),
            (UNION {Notes(c) : c \in Range(containers)}) \cup Fallback(containers), document.benchmark)

=============================================================================
