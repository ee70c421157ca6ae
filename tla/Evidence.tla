------------------------------ MODULE Evidence ------------------------------
(***************************************************************************)
(* What every adapter shares (adapters/common.py, adapters/base.py) and    *)
(* how a reading that did not come out whole is treated                    *)
(* (adapters/failures.py): recorded as a detection process failure of one  *)
(* class, or left fatal for one reason.                                    *)
(*                                                                         *)
(* A reading is the record ingest returns: whether the bytes had a digest, *)
(* the observations, the ERROR codes and all codes of its diagnostics, and *)
(* three facts of its own: that the format was rejected, the clock a       *)
(* failed invocation declared, and that observations were withheld.        *)
(***************************************************************************)
EXTENDS Integers, FiniteSets

CONSTANT
  Refused      \* texts no identity may be built from: over a cap, or with a
               \* code point identity_problem prohibits

None == "none"

-----------------------------------------------------------------------------
(* Clocks: a natural, or absent, or present and refused by parse_clock. *)

Absent == -1
Unusable == -2
Usable(clock) == clock >= 0

FirstOf(clocks) == CHOOSE c \in clocks : \A d \in clocks : c <= d

\* The earliest start, else the earliest end, else none.
EarliestClock(starts, ends) ==
  IF starts # {} THEN FirstOf(starts) ELSE IF ends # {} THEN FirstOf(ends) ELSE Absent

EarliestOf(clocks) == EarliestClock({c \in clocks : Usable(c)}, {})

\* The clock of the first candidate that reads, in the order they are tried.
Either(clock, other) == IF Usable(clock) THEN clock ELSE other

-----------------------------------------------------------------------------
(* Diagnostics: one entry a code, each with its level. *)

Error(code) == [level |-> "ERROR", code |-> code]
Warning(code) == [level |-> "WARNING", code |-> code]
When(holds, diagnostic) == IF holds THEN {diagnostic} ELSE {}

CodesOf(diagnostics) == {d.code : d \in diagnostics}
ErrorsOf(diagnostics) == CodesOf({d \in diagnostics : d.level = "ERROR"})
HasErrors(diagnostics) == ErrorsOf(diagnostics) # {}

\* What a parse that read to the end returns: an ERROR withholds all it read.
Reading(observations, diagnostics, clock) ==
  [artifact |-> TRUE,
   observations |-> IF HasErrors(diagnostics) THEN {} ELSE observations,
   errors |-> ErrorsOf(diagnostics), codes |-> CodesOf(diagnostics),
   format_rejected |-> FALSE, failed_execution_at |-> clock,
   withheld |-> HasErrors(diagnostics) /\ observations # {}]

\* _error_result: nothing is left of the reading but one code.
Refusal(digest, code, rejected) ==
  [artifact |-> digest, observations |-> {}, errors |-> {code}, codes |-> {code},
   format_rejected |-> rejected, failed_execution_at |-> Absent, withheld |-> FALSE]

-----------------------------------------------------------------------------
(* The closed vocabulary of ERROR codes. *)

ParseCodes == {"artifact_parse_failed"}
ContentCodes ==
  {"invalid_stig", "invalid_rules", "invalid_rule", "invalid_run", "invalid_result",
   "rule_id_missing", "identity_input_invalid", "invalid_profile", "invalid_control",
   "no_observations", "clean_run_unverified", "invalid_bom", "invalid_component",
   "invalid_vulnerability", "vulnerability_id_missing"}
ClassCodes == ParseCodes \cup ContentCodes

Executed == "execution_unsuccessful"

Classes == {"execution", "parse", "content"}

Minted(class, codes, side, clock) ==
  [class |-> class, reason |-> None, codes |-> codes, side_record |-> side, clock |-> clock]
Unmintable(reason, codes) ==
  [class |-> None, reason |-> reason, codes |-> codes, side_record |-> FALSE, clock |-> Absent]
Imported == Minted(None, {}, FALSE, Absent)

UnmintableReason(r) ==
  CASE ~r.artifact -> "no_digest"
    [] r.artifact /\ "unsupported_artifact" \in r.errors -> "unsupported"
    [] r.artifact /\ "unsupported_artifact" \notin r.errors ->
         IF r.format_rejected THEN "format_rejected"
         ELSE IF "duplicate_observation_identity" \in r.errors THEN "duplicate_identity"
         ELSE IF r.observations # {} \/ r.withheld THEN "partial_reading"
         ELSE IF ~(r.errors \subseteq ClassCodes) THEN "unknown_code"
         ELSE None

\* A failed invocation beside a whole reading is recorded beside its import.
ClassifyWhole(r) ==
  IF Executed \in r.codes
  THEN Minted("execution", {Executed}, TRUE, r.failed_execution_at)
  ELSE Imported

ClassifyFailed(r) ==
  IF Executed \in r.codes
  THEN Minted("execution", r.errors \cup {Executed}, FALSE, r.failed_execution_at)
  ELSE Minted(IF r.errors \cap ParseCodes # {} THEN "parse" ELSE "content",
              r.errors, FALSE, Absent)

\* Mutant of ClassifyIngest: a reading that withheld what it read is minted.
ClassifyUnread(r) ==
  IF r.errors = {} THEN ClassifyWhole(r)
  ELSE LET reason == UnmintableReason([r EXCEPT !.withheld = FALSE]) IN
       IF reason # None THEN Unmintable(reason, r.errors) ELSE ClassifyFailed(r)

ClassifyIngest(r) ==
  IF r.errors = {} THEN ClassifyWhole(r)
  ELSE IF UnmintableReason(r) # None THEN Unmintable(UnmintableReason(r), r.errors)
  ELSE ClassifyFailed(r)

\* The class a stored record's codes name, as the audit recomputes it.
FailureClassForCodes(codes) ==
  IF Executed \in codes THEN "execution"
  ELSE IF codes \cap ParseCodes # {} THEN "parse"
  ELSE IF codes \cap ContentCodes # {} THEN "content"
  ELSE None

\* The record of a minted failure: named by the digest and the instant alone,
\* which is the failed invocation's clock when it declared one.
SystemObservation(digest, c, asOf) ==
  [digest |-> digest, at |-> Either(c.clock, asOf), class |-> c.class, codes |-> c.codes,
   disposition |-> "OPEN", clock |-> IF Usable(c.clock) THEN "invocation" ELSE "as-of"]

=============================================================================
