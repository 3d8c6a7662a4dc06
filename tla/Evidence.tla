------------------------------ MODULE Evidence ------------------------------
(***************************************************************************)
(* How the findings about one sample become a verdict: rule policies       *)
(* (src/rules.rs), the match-rate circuit breaker (src/definitions.rs),    *)
(* similarity, AMSI (src/similarity.rs, src/amsi.rs) and the cascade that  *)
(* resolves them (EvidenceCascade, src/detection.rs).  Scores are the      *)
(* code's own; names and descriptions are left out.                        *)
(***************************************************************************)
EXTENDS Integers, Sequences, FiniteSets, FiniteSetsExt

CONSTANTS WindowSamples,    \* DefinitionMatchRateLimits::window_samples
          MinimumSamples,   \* minimum_samples
          MaximumMatchRate  \* maximum_match_rate_basis_points

ASSUME EvidenceAssumption ==
  MinimumSamples \in 1..WindowSamples /\ MaximumMatchRate \in 0..10000

Highest(a, b) == IF a > b THEN a ELSE b
Lowest(a, b) == IF a < b THEN a ELSE b

-----------------------------------------------------------------------------
(* Rules.                                                                  *)

Builtin == "blackshard_builtin"
SelfTest == "harmless_self_test"
AmsiConvicting == {"download_execute", "amsi_bypass", "lolbin_execution", "office_autoexec"}

builtin_policies == [id \in AmsiConvicting \cup {SelfTest, "lolbin_transfer"} |->
  CASE id = SelfTest -> [disposition |-> "Malicious", risk |-> 100]
    [] id \in {"download_execute", "office_autoexec"} -> [disposition |-> "Suspicious", risk |-> 45]
    [] id = "amsi_bypass" -> [disposition |-> "Suspicious", risk |-> 55]
    [] id = "lolbin_execution" -> [disposition |-> "Suspicious", risk |-> 40]
    [] id = "lolbin_transfer" -> [disposition |-> "Suspicious", risk |-> 30]]

\* A rule that matched: one of the built-in ones, or a bundle's with its policy
\* if it has one.
IsRule(rule) ==
  IF rule.namespace = Builtin THEN rule.identifier \in DOMAIN builtin_policies
  ELSE rule.disposition \in {"none", "Informational", "Suspicious", "Malicious"} /\ rule.risk \in Nat

\* Only the built-in self-test may deny execution.
enforcement_authority_for(rule) ==
  IF rule.namespace = Builtin /\ rule.identifier = SelfTest THEN "ExecutionDeny" ELSE "AlertOnly"

\* scan_with: a matching rule with its policy; a bundle's risk is at most 100
\* and a rule without a policy is mildly suspicious.
RuleMatch(rule) ==
  LET policy == IF rule.namespace = Builtin THEN builtin_policies[rule.identifier]
                ELSE IF rule.disposition = "none" THEN [disposition |-> "Suspicious", risk |-> 25]
                ELSE [disposition |-> rule.disposition, risk |-> Lowest(rule.risk, 100)]
  IN  [namespace |-> rule.namespace, identifier |-> rule.identifier,
       disposition |-> policy.disposition, risk |-> policy.risk,
       authority |-> enforcement_authority_for(rule)]

-----------------------------------------------------------------------------
(* The circuit breaker over external matches.                              *)

NewBreaker == [observations |-> <<>>, tripped |-> FALSE]

\* observe_external_match: latched once the rate over the window is too high.
observe(breaker, matched) ==
  LET kept == IF Len(breaker.observations) = WindowSamples
              THEN Tail(breaker.observations) ELSE breaker.observations
      seen == Append(kept, matched)
      matches == Len(SelectSeq(seen, LAMBDA o : o))
  IN  [observations |-> seen,
       tripped |-> \/ breaker.tripped
                   \/ Len(seen) >= MinimumSamples /\ matches * 10000 > Len(seen) * MaximumMatchRate]

\* apply_external_rule_circuit_breaker: the match that trips it is dropped too.
External(matches) == {m \in matches : m.namespace # Builtin}
LetThrough(breaker, matches) ==
  IF breaker.tripped THEN matches \ External(matches) ELSE matches

-----------------------------------------------------------------------------
(* The cascade.                                                            *)

is_provider_detection(amsi) == amsi = "MalwareDetected"
should_block_execution(amsi) == amsi \in {"MalwareDetected", "BlockedByAdministrator"}

\* Each profile's score in basis points, at least 8500.
similarity_score(points) ==
  Max({0} \cup {Lowest(82 + (p - 8500) \div 125, 94) : p \in points})

\* resolve: the first kind of evidence there is decides.
resolve(e) ==
  LET static == e.static
      exact == static.signature = "exact"
      quarantine == static.sha256 /\ (exact \/ e.native # "none" \/ e.shard)
      policyBlock == should_block_execution(e.amsi)
      blockEligible == quarantine \/ (static.sha256 /\ static.signature = "reputation") \/ policyBlock
      malicious == {m \in e.rules : m.disposition = "Malicious"}
      rule == CHOOSE m \in malicious : \A n \in malicious : n.risk <= m.risk
      ruleScore == Max({0} \cup {m.risk : m \in {n \in e.rules : n.disposition = "Suspicious"}})
      similar == similarity_score(e.similar)
      bonus == IF static.verdict = "Suspicious" /\ ruleScore > 0 THEN 10 ELSE 0
      says(verdict, risk, confidence, block) ==
        [verdict |-> verdict, risk |-> risk, confidence |-> confidence, sha256 |-> static.sha256,
         truncated |-> static.truncated, completeness |-> static.completeness,
         quarantine |-> quarantine, block |-> block]
  IN  IF static.verdict = "Malicious"
      THEN says("Malicious", 100, Highest(static.confidence, 99), TRUE)
      ELSE IF e.native # "none"
      THEN LET score == CASE e.native = "WholeFile" -> 100 [] e.native = "PeSection" -> 95
                          [] e.native = "Pattern" -> 92
           IN  says("Malicious", score, score, TRUE)
      ELSE IF e.shard THEN says("Malicious", 100, 100, TRUE)
      ELSE IF is_provider_detection(e.amsi) THEN says("Malicious", 99, 99, TRUE)
      ELSE IF malicious # {}
      THEN says("Malicious", Highest(rule.risk, 95), 99, rule.authority = "ExecutionDeny")
      ELSE IF policyBlock THEN says("Suspicious", 90, 99, blockEligible)
      ELSE IF static.verdict = "Suspicious" \/ ruleScore > 0 \/ similar > 0
      THEN says("Suspicious",
                Lowest(Highest(Highest(static.risk_score, ruleScore), similar) + bonus, 99),
                Highest(static.confidence, 75), blockEligible)
      ELSE says("Clean", static.risk_score, static.confidence, blockEligible)

\* DetectionReport::error
error == [verdict |-> "Error", risk |-> 0, confidence |-> 0, sha256 |-> FALSE, truncated |-> FALSE,
          completeness |-> "ResourceLimitReached", quarantine |-> FALSE, block |-> FALSE]

\* record_rule_failure
record_rule_failure(report, failed) ==
  IF failed THEN [report EXCEPT !.completeness = "TimedOut"] ELSE report

\* scan_amsi_submission: what is about to run is convicted by what it does.
amsi_submission(report, rules) ==
  IF /\ report.verdict \in {"Clean", "Suspicious"}
     /\ \E m \in rules : m.namespace = Builtin /\ m.identifier \in AmsiConvicting
  THEN [report EXCEPT !.verdict = "Malicious", !.risk = Highest(@, 95), !.confidence = Highest(@, 95)]
  ELSE report
=============================================================================
