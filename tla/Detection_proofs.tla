-------------------------- MODULE Detection_proofs --------------------------
(***************************************************************************)
(* One analysis, for any contents and databases, any nesting of containers *)
(* and any budgets.                                                        *)
(***************************************************************************)
EXTENDS Detection, Engines_proofs

-----------------------------------------------------------------------------
(* The static report.                                                      *)

Signatures3 == {"exact", "reputation", "none"}
IsStatic(s, shape) ==
  /\ s.verdict \in {"Clean", "Suspicious", "Malicious"} /\ s.risk_score \in 0..100
  /\ s.sha256 \in BOOLEAN /\ s.truncated \in BOOLEAN
  /\ s.completeness \in {"Complete", "PrefixAndTargetedRegions"}
  /\ s.truncated => s.completeness # "Complete"
  /\ s.signature # "none" => s.verdict = "Malicious" /\ s.sha256
  /\ s.verdict = "Malicious" => s.signature # "none"
  /\ s.content_type \in Containers \/ shape.kind \in Containers => s.content_type = shape.kind

\* What a static report says.
LEMMA StaticReport ==
  ASSUME NEW shape, IsShape(shape), NEW size \in Nat, NEW read \in 0..size,
         NEW digest \in BOOLEAN,
         NEW signature \in Signatures3
  PROVE  IsStatic(analyze_internal(shape, read, size, digest, signature), shape)
<1> DEFINE exact == digest /\ signature # "none"
           truncated == size > read
           evidence == Evidence(shape, read, size)
           score == AtMost(Points(evidence), 100)
           verdict == IF exact THEN "Malicious" ELSE IF score >= Threshold THEN "Suspicious" ELSE "Clean"
           shown == IF shape.kind = "pe" THEN IF Parses(shape, read) THEN "Pe" ELSE "PeUnknown"
                    ELSE classify_content(shape)
           s == analyze_internal(shape, read, size, digest, signature)
<1>1. score \in 0..100
  <2>1. Points(evidence) \in Nat
    BY PointsAreNumbers
  <2> HIDE DEF evidence
  <2> QED BY <2>1 DEF AtMost
<1>2. shown \in Containers \/ shape.kind \in Containers => shown = shape.kind
  <2>1. shape.kind \in {"pe", "text", "Pdf", "Lnk", "Zip", "Gzip", "OleCompound", "Other"}
    BY DEF IsShape
  <2> QED BY <2>1 DEF Containers, classify_content
<1>3. /\ s.verdict = verdict /\ s.content_type = shown /\ s.risk_score = IF exact THEN 100 ELSE score
      /\ s.sha256 = digest /\ s.truncated = truncated
      /\ s.completeness = IF truncated THEN "PrefixAndTargetedRegions" ELSE "Complete"
      /\ s.signature = IF exact THEN signature ELSE "none"
  BY DEF analyze_internal
<1> HIDE DEF score, shown, s
<1>4. s.verdict \in {"Clean", "Suspicious", "Malicious"} /\ s.risk_score \in 0..100
  BY <1>1, <1>3
<1>5. s.sha256 \in BOOLEAN /\ s.truncated \in BOOLEAN
  BY <1>3
<1>6. /\ s.completeness \in {"Complete", "PrefixAndTargetedRegions"}
      /\ s.truncated => s.completeness # "Complete"
  BY <1>3
<1>7. /\ s.signature # "none" => s.verdict = "Malicious" /\ s.sha256
      /\ s.verdict = "Malicious" => s.signature # "none"
  BY <1>3 DEF Signatures3
<1>8. s.content_type \in Containers \/ shape.kind \in Containers => s.content_type = shape.kind
  BY <1>2, <1>3
<1>9. IsStatic(s, shape)
  BY <1>4, <1>5, <1>6, <1>7, <1>8 DEF IsStatic
<1> QED BY <1>9 DEF s

-----------------------------------------------------------------------------
(* The invariants.                                                         *)

Origins == {"file", "bytes", "amsi"}
ScanOf(b, origin) ==
  IF origin = "file" THEN scan_sample_with_digest(Blob[b].shape, Size(b), Blob[b].signature)
  ELSE scan_sample(Blob[b].shape, Size(b), Blob[b].signature)
Statics == {ScanOf(b, origin) : b \in Blobs, origin \in Origins}
Natives == {"none", "WholeFile", "PeSection", "Pattern"}
RuleMatches == UNION {{RuleMatch(r) : r \in Blob[b].rules} : b \in Blobs}
LeafType ==
  [blob : Blobs, origin : Origins, part : {"outer", "entry", "macro"}, md5 : BOOLEAN, fresh : BOOLEAN,
   static : Statics \cup {None}, native : Natives, rules : SUBSET RuleMatches, failed : BOOLEAN,
   similar : SUBSET Nat]
JobType == [blob : Blobs, origin : Origins, rules : SUBSET RuleMatches]
Verdicts == {"Clean", "Suspicious", "Malicious", "Error"}
Confidences == {s.confidence : s \in Statics} \cup Nat
Completenesses == {"Complete", "PrefixAndTargetedRegions", "ResourceLimitReached", "TimedOut"}
ReportType ==
  [verdict : Verdicts, risk : 0..100, confidence : Confidences, sha256 : BOOLEAN, truncated : BOOLEAN,
   completeness : Completenesses, quarantine : BOOLEAN, block : BOOLEAN]
FrameType == [kind : Containers, blob : Blobs, next : Nat \ {0}, depth : Nat, limit : Nat]
InspType ==
  [scanned : Nat, expanded : Nat, macros : Nat, attachments : Nat, external : Nat, rejected : Nat,
   limit : BOOLEAN, incomplete : BOOLEAN, malformed : BOOLEAN, findings : Seq(ReportType),
   late : BOOLEAN]
SeenType == [blobs : SUBSET Blobs, malicious : BOOLEAN, flagged : Nat, identified : BOOLEAN]

Sampling == {"reading", "static", "index", "search", "rules", "amsi"}
Stages == Sampling \cup {"idle", "macro", "walk", "done"}

TypeInv ==
  /\ stage \in Stages
  /\ stage # "idle" => leaf \in LeafType /\ job \in JobType
  /\ stage = "idle" => outer = None
  /\ stage \in {"index", "search", "rules", "amsi"} => leaf.static = ScanOf(leaf.blob, leaf.origin)
  /\ frames \in Seq(FrameType) /\ insp \in Seq(InspType) /\ seen \in SeenType
  /\ outer \in ReportType \cup {None}

\* Where an analysis is.
StageInv ==
  /\ stage \in {"idle", "reading"} \/ (stage \in Sampling /\ leaf.part = "outer") =>
       frames = <<>> /\ insp = <<>> /\ seen = Nothing
  /\ stage = "reading" => leaf.part = "outer"
  /\ stage \in Sampling /\ leaf.part = "outer" => leaf.blob = job.blob
  /\ stage \in Sampling /\ leaf.part # "outer" => Len(frames) # 0
  /\ stage \in Sampling /\ leaf.part = "macro" => Frame.kind = "OleCompound"
  /\ stage = "macro" => Len(frames) # 0 /\ Frame.kind = "OleCompound"
  /\ stage \in {"walk", "macro"} \/ (stage \in Sampling /\ leaf.part # "outer") =>
       Len(insp) # 0 /\ outer \in ReportType
  /\ stage = "done" => outer \in ReportType

Kind(b) == Blob[b].shape.kind

\* Archives may be nested, a compound file may be at the end, and then it has
\* an inspection of its own.
StackInv ==
  stage # "done" =>
  /\ Len(insp) <= 2
  /\ \A i \in 1..Len(frames) : frames[i].kind = "Zip" => frames[i].depth = i /\ i <= MaxDepth
  /\ \A i \in 1..Len(frames) : i < Len(frames) => frames[i].kind = "Zip"
  /\ Len(frames) # 0 => Len(insp) # 0 /\ (Frame.kind = "Gzip" => Len(frames) = 1 /\ Kind(Frame.blob) = "Gzip")
  /\ Len(insp) = 2 <=> Len(frames) > 1 /\ Frame.kind = "OleCompound"

Modest(i) == /\ i.expanded <= MaxExpanded /\ i.scanned <= 2 * MaxEntries
             /\ Len(i.findings) <= MaxFindings
WithinBudget ==
  /\ \A k \in 1..Len(insp) : Modest(insp[k])
  /\ Len(insp) = 2 => insp[1].expanded + insp[2].expanded <= MaxExpanded
  /\ Len(frames) <= MaxDepth + 1
Bounded ==
  /\ Len(insp) = 2 => insp[1].scanned <= MaxEntries /\ Frame.limit = MaxExpanded - insp[1].expanded
  /\ Len(frames) = 1 /\ Frame.kind = "OleCompound" => Frame.limit = MaxExpanded
  /\ Len(frames) # 0 /\ Frame.kind = "OleCompound" => Frame.next <= MaxEntries + 1
  /\ Len(frames) # 0 /\ Frame.kind # "Zip" => Top.scanned < Frame.next
  /\ stage \in Sampling /\ Len(frames) # 0 /\ Frame.kind = "Zip" => insp[1].scanned <= MaxEntries
BudgetInv == WithinBudget /\ (stage # "done" => Bounded)

-----------------------------------------------------------------------------
(* The report on one sample.                                               *)

\* The static report on each content.
LEMMA ScanFacts ==
  ASSUME NEW b \in Blobs, NEW origin
  PROVE  IsStatic(ScanOf(b, origin), Blob[b].shape)
<1> DEFINE size == Size(b)
           read == AtMost(size, MaxRead)
           shape == Blob[b].shape
           signature == Blob[b].signature
<1>1. IsShape(shape) /\ signature \in Signatures3 /\ Blob[b].text \in Seq(Bytes)
  BY BlobAssumption DEF Signatures3
<1>2. size \in Nat
  BY <1>1 DEF Size
<1>3. MaxRead \in Nat
  BY StaticAssumption
<1>4. read \in 0..size /\ (size <= MaxRead) \in BOOLEAN
  BY <1>2, <1>3 DEF AtMost
<1> HIDE DEF size, read, shape, signature
<1>5. IsStatic(analyze_internal(shape, read, size, size <= MaxRead, signature), shape)
  <2> DEFINE digest == size <= MaxRead
  <2>1. digest \in BOOLEAN
    OBVIOUS
  <2> HIDE DEF digest
  <2>2. IsStatic(analyze_internal(shape, read, size, digest, signature), shape)
    BY <1>1, <1>2, <1>4, <2>1, StaticReport
  <2> QED BY <2>2 DEF digest
<1>6. IsStatic(analyze_internal(shape, read, size, TRUE, signature), shape)
  BY <1>1, <1>2, <1>4, StaticReport
<1> QED BY <1>5, <1>6 DEF ScanOf, scan_sample, scan_sample_with_digest, size, read, shape,
     signature

\* A rule's risk.
LEMMA RuleFacts ==
  ASSUME NEW m \in RuleMatches PROVE m.risk \in 0..100
<1>5. PICK b \in Blobs : m \in {RuleMatch(r) : r \in Blob[b].rules}
  BY DEF RuleMatches
<1>1. PICK r \in Blob[b].rules : m = RuleMatch(r)
  BY <1>5
<1>2. IsRule(r)
  BY BlobAssumption
<1>3. CASE r.namespace = Builtin
  <2>1. r.identifier \in AmsiConvicting \cup {SelfTest, "lolbin_transfer"}
    BY <1>2, <1>3 DEF IsRule, builtin_policies
  <2>2. m.risk = builtin_policies[r.identifier].risk
    BY <1>1, <1>3 DEF RuleMatch
  <2>3. builtin_policies[r.identifier].risk \in {100, 45, 55, 40, 30}
    BY <2>1 DEF builtin_policies, AmsiConvicting, SelfTest
  <2> QED BY <2>2, <2>3
<1>4. CASE r.namespace # Builtin
  <2>1. r.risk \in Nat
    BY <1>2, <1>4 DEF IsRule
  <2>2. m.risk = IF r.disposition = "none" THEN 25 ELSE Lowest(r.risk, 100)
    BY <1>1, <1>4 DEF RuleMatch
  <2> QED BY <2>1, <2>2 DEF Lowest
<1> QED BY <1>3, <1>4

IsEvidence(e, shape) ==
  /\ IsStatic(e.static, shape) /\ e.static.confidence \in Confidences
  /\ e.native \in Natives /\ e.rules \in SUBSET RuleMatches /\ e.shard \in BOOLEAN
  /\ e.similar \in SUBSET Nat
IsLeafReport(r) == /\ r \in ReportType /\ r.verdict # "Error"
                   /\ r.quarantine => r.verdict = "Malicious"
                   /\ r.truncated => r.completeness # "Complete"

Similarities(points) == {0} \cup {Lowest(82 + (p - 8500) \div 125, 94) : p \in points}
\* The scores taken from the profiles and the rules.
LEMMA Scores ==
  ASSUME NEW points \in SUBSET Nat, NEW rules \in SUBSET RuleMatches
  PROVE  similarity_score(points) \in 0..94 /\ Max({0} \cup {m.risk : m \in rules}) \in 0..100
<1>1. \A p \in Nat : Lowest(82 + (p - 8500) \div 125, 94) \in 0..94
  <2>1. \A p \in Nat : (p - 8500) \div 125 \in Int /\ (p - 8500) \div 125 >= -68
    OBVIOUS
  <2> QED BY <2>1 DEF Lowest
<1>2. Similarities(points) \in SUBSET (0..94) /\ Similarities(points) # {}
  BY <1>1 DEF Similarities
<1>3. Max(Similarities(points)) \in 0..94
  BY <1>2, BoundedMax
<1>4. {0} \cup {m.risk : m \in rules} \in SUBSET (0..100)
  BY RuleFacts
<1>5. Max({0} \cup {m.risk : m \in rules}) \in 0..100
  <2> DEFINE t == {0} \cup {m.risk : m \in rules}
  <2>1. t # {}
    OBVIOUS
  <2> HIDE DEF t
  <2>2. Max(t) \in 0..100
    BY <1>4, <2>1, BoundedMax DEF t
  <2> QED BY <2>2 DEF t
<1>6. similarity_score(points) = Max(Similarities(points))
  BY DEF similarity_score, Similarities
<1> QED BY <1>3, <1>5, <1>6

\* The rule that decides is one of those that matched.
LEMMA StrongestRule ==
  ASSUME NEW malicious \in SUBSET RuleMatches, malicious # {}
  PROVE  (CHOOSE m \in malicious : \A n \in malicious : n.risk <= m.risk) \in malicious
<1> DEFINE t == {m.risk : m \in malicious}
<1>1. t \in SUBSET (0..100) /\ t # {}
  BY RuleFacts
<1> HIDE DEF t
<1>2. Max(t) \in t /\ \A y \in t : y <= Max(t)
  BY <1>1, BoundedMax
<1>3. \E m \in malicious : \A n \in malicious : n.risk <= m.risk
  BY <1>2 DEF t
<1> QED BY <1>3

Said(static, quarantine, verdict, risk, confidence, block) ==
  [verdict |-> verdict, risk |-> risk, confidence |-> confidence, sha256 |-> static.sha256,
   truncated |-> static.truncated, completeness |-> static.completeness,
   quarantine |-> quarantine, block |-> block]

\* A report made of a static one.
LEMMA SaidReport ==
  ASSUME NEW static, NEW shape, IsStatic(static, shape), NEW quarantine \in BOOLEAN,
         NEW verdict \in Verdicts \ {"Error"}, NEW risk \in 0..100,
         NEW confidence \in Confidences,
         NEW block \in BOOLEAN, quarantine => verdict = "Malicious"
  PROVE  IsLeafReport(Said(static, quarantine, verdict, risk, confidence, block))
<1> DEFINE r == Said(static, quarantine, verdict, risk, confidence, block)
<1>1. /\ static.sha256 \in BOOLEAN /\ static.truncated \in BOOLEAN
      /\ static.completeness \in Completenesses /\ (static.truncated => static.completeness # "Complete")
  BY DEF IsStatic, Completenesses
<1>2. r \in ReportType
  BY <1>1 DEF Said, ReportType
<1>3. /\ r.verdict = verdict /\ r.quarantine = quarantine /\ r.truncated = static.truncated
      /\ r.completeness = static.completeness
  BY DEF Said
<1> HIDE DEF r
<1>4. IsLeafReport(r)
  BY <1>1, <1>2, <1>3 DEF IsLeafReport
<1> QED BY <1>4 DEF r

\* The greater of two confidences.
LEMMA HighestConfidence ==
  ASSUME NEW a \in Confidences, NEW b \in Confidences PROVE Highest(a, b) \in Confidences
BY DEF Highest

\* The report on a sample: only what is malicious may be quarantined.
LEMMA ResolveFacts ==
  ASSUME NEW e, NEW shape, IsEvidence(e, shape)
  PROVE  IsLeafReport(resolve(e))
<1> DEFINE static == e.static
           exact == static.signature = "exact"
           quarantine == static.sha256 /\ (exact \/ e.native # "none" \/ e.shard)
           policyBlock == should_block_execution(e.amsi)
           blockEligible == quarantine \/ (static.sha256 /\ static.signature = "reputation") \/ policyBlock
           malicious == {m \in e.rules : m.disposition = "Malicious"}
           rule == CHOOSE m \in malicious : \A n \in malicious : n.risk <= m.risk
           ruleScore == Max({0} \cup {m.risk : m \in {n \in e.rules : n.disposition = "Suspicious"}})
           similar == similarity_score(e.similar)
           bonus == IF static.verdict = "Suspicious" /\ ruleScore > 0 THEN 10 ELSE 0
           score == CASE e.native = "WholeFile" -> 100 [] e.native = "PeSection" -> 95
                      [] e.native = "Pattern" -> 92
           risk == Lowest(Highest(Highest(static.risk_score, ruleScore), similar) + bonus, 99)
           deny == rule.authority = "ExecutionDeny"
           provider == is_provider_detection(e.amsi)
           says(verdict, points, confidence, block) ==
             Said(static, quarantine, verdict, points, confidence, block)
<1>1. resolve(e) =
        IF static.verdict = "Malicious"
        THEN says("Malicious", 100, Highest(static.confidence, 99), TRUE)
        ELSE IF e.native # "none" THEN says("Malicious", score, score, TRUE)
        ELSE IF e.shard THEN says("Malicious", 100, 100, TRUE)
        ELSE IF provider THEN says("Malicious", 99, 99, TRUE)
        ELSE IF malicious # {} THEN says("Malicious", Highest(rule.risk, 95), 99, deny)
        ELSE IF policyBlock THEN says("Suspicious", 90, 99, blockEligible)
        ELSE IF static.verdict = "Suspicious" \/ ruleScore > 0 \/ similar > 0
        THEN says("Suspicious", risk, Highest(static.confidence, 75), blockEligible)
        ELSE says("Clean", static.risk_score, static.confidence, blockEligible)
  BY DEF resolve, Said
<1>2. /\ IsStatic(static, shape) /\ static.confidence \in Confidences
      /\ e.native \in Natives /\ e.rules \in SUBSET RuleMatches /\ e.shard \in BOOLEAN
      /\ e.similar \in SUBSET Nat
  BY DEF IsEvidence
<1>3. /\ static.risk_score \in 0..100 /\ static.sha256 \in BOOLEAN
      /\ (exact => static.verdict = "Malicious")
      /\ static.verdict \in {"Clean", "Suspicious", "Malicious"}
  BY <1>2 DEF IsStatic
<1>4. similar \in 0..94 /\ ruleScore \in 0..100
  <2>1. {n \in e.rules : n.disposition = "Suspicious"} \in SUBSET RuleMatches
    BY <1>2
  <2> QED BY <1>2, <2>1, Scores
<1>5. malicious # {} => rule.risk \in 0..100
  <2>1. malicious \in SUBSET RuleMatches
    BY <1>2
  <2> HIDE DEF malicious
  <2>2. malicious # {} => rule \in malicious
    BY <2>1, StrongestRule
  <2> HIDE DEF rule
  <2> QED BY <2>1, <2>2, RuleFacts
<1>6. quarantine \in BOOLEAN /\ blockEligible \in BOOLEAN /\ deny \in BOOLEAN /\ TRUE \in BOOLEAN
  OBVIOUS
<1>7. quarantine => exact \/ e.native # "none" \/ e.shard
  OBVIOUS
<1>8. e.native # "none" => score \in 0..100
  BY <1>2 DEF Natives
<1>9. risk \in 0..100
  <2> HIDE DEF ruleScore, similar
  <2> QED BY <1>3, <1>4 DEF Highest, Lowest
<1> HIDE DEF exact, quarantine, policyBlock, blockEligible, malicious, rule, ruleScore, similar, bonus,
             score, risk, deny, provider, static
<1>10. /\ \A n \in 0..100 : n \in Confidences
       /\ {90, 99, 100} \subseteq 0..100 /\ 90 \in 0..100 /\ 99 \in 0..100 /\ 100 \in 0..100
       /\ 90 \in Confidences /\ 99 \in Confidences /\ 100 \in Confidences
  BY DEF Confidences
<1>11. Highest(static.confidence, 99) \in Confidences /\ Highest(static.confidence, 75) \in Confidences
  BY <1>2, <1>10, HighestConfidence
<1>12. {"Malicious", "Suspicious", "Clean"} \subseteq Verdicts \ {"Error"}
  BY DEF Verdicts
<1>13. CASE static.verdict = "Malicious"
  <2>1. IsLeafReport(says("Malicious", 100, Highest(static.confidence, 99), TRUE))
    BY <1>2, <1>6, <1>10, <1>11, <1>12, SaidReport
  <2> QED BY <1>1, <1>13, <2>1
<1>14. CASE static.verdict # "Malicious" /\ e.native # "none"
  <2>1. score \in 0..100 /\ score \in Confidences
    BY <1>8, <1>10, <1>14
  <2>2. IsLeafReport(says("Malicious", score, score, TRUE))
    BY <1>2, <1>6, <1>12, <2>1, SaidReport
  <2> QED BY <1>1, <1>14, <2>2
<1>15. CASE static.verdict # "Malicious" /\ e.native = "none" /\ e.shard
  <2>1. IsLeafReport(says("Malicious", 100, 100, TRUE))
    BY <1>2, <1>6, <1>10, <1>12, SaidReport
  <2> QED BY <1>1, <1>15, <2>1
<1>16. CASE static.verdict # "Malicious" /\ e.native = "none" /\ ~e.shard
  <2>1. ~quarantine
    BY <1>3, <1>7, <1>16
  <2>2. IsLeafReport(says("Malicious", 99, 99, TRUE))
    BY <1>2, <1>6, <1>10, <1>12, SaidReport
  <2>3. ASSUME malicious # {}
        PROVE  IsLeafReport(says("Malicious", Highest(rule.risk, 95), 99, deny))
    <3> DEFINE high == Highest(rule.risk, 95)
    <3>1. high \in 0..100
      BY <1>5, <2>3 DEF Highest
    <3> HIDE DEF high
    <3>2. IsLeafReport(says("Malicious", high, 99, deny))
      BY <1>2, <1>6, <1>10, <1>12, <2>1, <3>1, SaidReport
    <3> QED BY <3>2 DEF high
  <2>4. IsLeafReport(says("Suspicious", 90, 99, blockEligible))
    BY <1>2, <1>6, <1>10, <1>12, <2>1, SaidReport
  <2>5. IsLeafReport(says("Suspicious", risk, Highest(static.confidence, 75), blockEligible))
    BY <1>2, <1>6, <1>9, <1>11, <1>12, <2>1, SaidReport
  <2>6. IsLeafReport(says("Clean", static.risk_score, static.confidence, blockEligible))
    BY <1>2, <1>3, <1>6, <1>12, <2>1, SaidReport
  <2> QED BY <1>1, <1>16, <2>2, <2>3, <2>4, <2>5, <2>6
<1> QED BY <1>2, <1>13, <1>14, <1>15, <1>16

\* A step that only adds to the evidence about the sample.
Gathers == /\ stage' = stage \/ (stage \in Sampling /\ stage' \in Sampling \ {"reading"})
           /\ UNCHANGED <<job, outer, frames, insp, seen>>
           /\ stage = "idle" => UNCHANGED leaf
           /\ stage # "idle" => leaf'.blob = leaf.blob /\ leaf'.part = leaf.part
Gathering == \/ ReadFile \/ ScanStatic \/ LookUp \/ Search \/ SearchEnds
             \/ (\E failed \in BOOLEAN : RunRules(failed))
             \/ ReplaceIndex \/ ReplaceEngine \/ UNCHANGED vars
LeafStays == /\ leaf' \in LeafType
             /\ stage' \in {"index", "search", "rules", "amsi"} =>
                  leaf'.static = ScanOf(leaf'.blob, leaf'.origin)

\* What is entered into the leaf.
LEMMA LeafEntries ==
  ASSUME leaf \in LeafType
  PROVE  /\ \A s \in Statics : LET l == [leaf EXCEPT !.static = s] IN
              /\ l \in LeafType /\ l.static = s /\ l.blob = leaf.blob /\ l.part = leaf.part
              /\ l.origin = leaf.origin
         /\ \A n \in Natives : LET l == [leaf EXCEPT !.native = n] IN
              /\ l \in LeafType /\ l.static = leaf.static /\ l.blob = leaf.blob /\ l.part = leaf.part
              /\ l.origin = leaf.origin
         /\ LET l == [leaf EXCEPT !.fresh = FALSE] IN
              /\ l \in LeafType /\ l.static = leaf.static /\ l.blob = leaf.blob /\ l.part = leaf.part
              /\ l.origin = leaf.origin
BY DEF LeafType

\* Each of the steps of a sample's analysis is such a step.
LEMMA GatherSteps ==
  ASSUME TypeInv, Gathering
  PROVE  Gathers /\ (stage # "idle" => LeafStays)
<1>1. stage # "idle" => leaf \in LeafType
  BY DEF TypeInv
<1>2. {"static", "index", "search", "rules", "amsi"} \subseteq Sampling \ {"reading"} /\ "reading" \in Sampling
  BY DEF Sampling
<1>3. CASE ReadFile
  BY <1>1, <1>2, <1>3 DEF ReadFile, Gathers, LeafStays
<1>4. CASE ScanStatic
  <2>1. leaf \in LeafType /\ leaf.blob \in Blobs /\ leaf.origin \in Origins
    BY <1>1, <1>4 DEF ScanStatic, LeafType
  <2>2. ScanOf(leaf.blob, leaf.origin) \in Statics
    BY <2>1 DEF Statics
  <2>3. leaf' = [leaf EXCEPT !.static = ScanOf(leaf.blob, leaf.origin)]
    BY <1>4 DEF ScanStatic, ScanOf
  <2>4. /\ leaf' \in LeafType /\ leaf'.static = ScanOf(leaf.blob, leaf.origin) /\ leaf'.blob = leaf.blob
        /\ leaf'.part = leaf.part /\ leaf'.origin = leaf.origin
    BY <2>1, <2>2, <2>3, LeafEntries
  <2> QED BY <1>2, <1>4, <2>4 DEF ScanStatic, Gathers, LeafStays
<1>5. CASE LookUp
  <2>1. leaf \in LeafType /\ leaf.static = ScanOf(leaf.blob, leaf.origin)
    BY <1>1, <1>5 DEF LookUp, TypeInv
  <2>2. PICK hash : /\ hash \in {None, "WholeFile", "PeSection"}
                    /\ UNCHANGED leaf \/ (hash # None /\ leaf' = [leaf EXCEPT !.native = hash])
    BY <1>5 DEF LookUp, evaluate
  <2>3. hash # None => hash \in Natives
    BY <2>2 DEF Natives
  <2>4. /\ leaf' \in LeafType /\ leaf'.static = leaf.static /\ leaf'.blob = leaf.blob
        /\ leaf'.part = leaf.part /\ leaf'.origin = leaf.origin
    BY <2>1, <2>2, <2>3, LeafEntries
  <2>5. stage = "index" /\ stage' \in {"rules", "search"} /\ UNCHANGED <<job, outer, frames, insp, seen>>
    BY <1>5 DEF LookUp
  <2> QED BY <1>2, <2>1, <2>4, <2>5 DEF Gathers, LeafStays
<1>6. CASE Search
  <2>1. UNCHANGED detectionVars
    BY <1>6 DEF Search
  <2> QED BY <1>1, <2>1 DEF detectionVars, Gathers, LeafStays, TypeInv
<1>7. CASE SearchEnds
  <2>1. leaf \in LeafType /\ leaf.static = ScanOf(leaf.blob, leaf.origin)
    BY <1>1, <1>7 DEF SearchEnds, TypeInv
  <2>2. PICK n : n \in Natives /\ leaf' = [leaf EXCEPT !.native = n]
    BY <1>7 DEF SearchEnds, Natives
  <2>3. /\ leaf' \in LeafType /\ leaf'.static = leaf.static /\ leaf'.blob = leaf.blob
        /\ leaf'.part = leaf.part /\ leaf'.origin = leaf.origin
    BY <2>1, <2>2, LeafEntries
  <2> QED BY <1>2, <1>7, <2>1, <2>3 DEF SearchEnds, Gathers, LeafStays
<1>8. ASSUME NEW failed \in BOOLEAN, RunRules(failed) PROVE Gathers /\ (stage # "idle" => LeafStays)
  <2>1. leaf \in LeafType /\ leaf.static = ScanOf(leaf.blob, leaf.origin) /\ leaf.blob \in Blobs
    BY <1>1, <1>8 DEF RunRules, TypeInv, LeafType
  <2>2. {RuleMatch(r) : r \in Blob[leaf.blob].rules} \in SUBSET RuleMatches
    BY <2>1 DEF RuleMatches
  <2>3. Blob[leaf.blob].similar \in SUBSET Nat
    BY <2>1, BlobAssumption
  <2>4. \A b : LetThrough(b, {RuleMatch(r) : r \in Blob[leaf.blob].rules}) \in SUBSET RuleMatches
    BY <2>2 DEF LetThrough
  <2>5. PICK rules \in SUBSET RuleMatches, similar \in SUBSET Nat :
          leaf' = [leaf EXCEPT !.rules = rules, !.failed = failed, !.similar = similar]
    BY <1>8, <2>3, <2>4 DEF RunRules
  <2>6. /\ leaf' \in LeafType /\ leaf'.static = leaf.static /\ leaf'.blob = leaf.blob
        /\ leaf'.part = leaf.part /\ leaf'.origin = leaf.origin
    BY <1>8, <2>1, <2>5 DEF LeafType
  <2> QED BY <1>2, <1>8, <2>1, <2>6 DEF RunRules, Gathers, LeafStays
<1>9. CASE ReplaceIndex
  <2>1. stage' = stage /\ UNCHANGED <<job, outer, frames, insp, seen>>
    BY <1>9 DEF ReplaceIndex
  <2>2. CASE stage = "idle"
    BY <1>9, <2>1, <2>2 DEF ReplaceIndex, Gathers
  <2>3. CASE stage # "idle"
    <3>1. leaf' = [leaf EXCEPT !.fresh = FALSE]
      BY <1>9, <2>3 DEF ReplaceIndex
    <3>2. /\ leaf' \in LeafType /\ leaf'.static = leaf.static /\ leaf'.blob = leaf.blob
          /\ leaf'.part = leaf.part /\ leaf'.origin = leaf.origin
      BY <1>1, <2>3, <3>1, LeafEntries
    <3> QED BY <2>1, <2>3, <3>2 DEF Gathers, LeafStays, TypeInv
  <2> QED BY <2>2, <2>3
<1>10. CASE ReplaceEngine
  BY <1>1, <1>10 DEF ReplaceEngine, Gathers, LeafStays, TypeInv
<1>11. CASE UNCHANGED vars
  BY <1>1, <1>11 DEF vars, detectionVars, Gathers, LeafStays, TypeInv
<1> QED BY <1>3, <1>4, <1>5, <1>6, <1>7, <1>8, <1>9, <1>10, <1>11 DEF Gathering

-----------------------------------------------------------------------------
(* The walk.                                                               *)

\* The last element of a sequence is replaced.
LEMMA ReplaceLast ==
  ASSUME NEW S, NEW s \in Seq(S), Len(s) # 0, NEW x \in S
  PROVE  LET t == [s EXCEPT ![Len(s)] = x] IN
         /\ t \in Seq(S) /\ Len(t) = Len(s) /\ t[Len(s)] = x
         /\ \A k \in 1..Len(s) : k # Len(s) => t[k] = s[k]
<1> DEFINE t == [s EXCEPT ![Len(s)] = x]
<1>1. Len(s) \in Nat /\ Len(s) \in 1..Len(s) /\ DOMAIN s = 1..Len(s)
  OBVIOUS
<1>2. t \in Seq(S)
  BY <1>1
<1>3. Len(t) = Len(s)
  BY <1>1
<1>4. t[Len(s)] = x /\ \A k \in 1..Len(s) : k # Len(s) => t[k] = s[k]
  BY <1>1
<1> QED BY <1>2, <1>3, <1>4

\* One is added.
LEMMA AddLast ==
  ASSUME NEW S, NEW s \in Seq(S), NEW x \in S
  PROVE  /\ Append(s, x) \in Seq(S) /\ Len(Append(s, x)) = Len(s) + 1 /\ Append(s, x)[Len(s) + 1] = x
         /\ \A k \in 1..Len(s) : Append(s, x)[k] = s[k]
OBVIOUS

\* The first few elements of a sequence.
LEMMA FirstFew ==
  ASSUME NEW S, NEW s \in Seq(S), NEW n \in 0..Len(s)
  PROVE  LET t == SubSeq(s, 1, n) IN t \in Seq(S) /\ Len(t) = n /\ \A k \in 1..n : t[k] = s[k]
OBVIOUS

\* It is taken away.
LEMMA DropLast ==
  ASSUME NEW S, NEW s \in Seq(S), Len(s) # 0
  PROVE  LET t == SubSeq(s, 1, Len(s) - 1) IN
         t \in Seq(S) /\ Len(t) = Len(s) - 1 /\ \A k \in 1..(Len(s) - 1) : t[k] = s[k]
<1>1. Len(s) - 1 \in 0..Len(s)
  OBVIOUS
<1> QED BY <1>1, FirstFew

\* The innermost container and its inspection.
LEMMA Innermost ==
  ASSUME TypeInv
  PROVE  /\ Len(insp) \in Nat /\ Len(frames) \in Nat
         /\ Len(insp) # 0 => Top \in InspType /\ Len(insp) \in 1..Len(insp) /\ Top = insp[Len(insp)]
         /\ Len(frames) # 0 => Frame \in FrameType /\ Len(frames) \in 1..Len(frames) /\ Frame = frames[Len(frames)]
         /\ \A k \in 1..Len(insp) : insp[k] \in InspType
         /\ \A k \in 1..Len(frames) : frames[k] \in FrameType
<1>1. insp \in Seq(InspType) /\ frames \in Seq(FrameType)
  BY DEF TypeInv
<1> QED BY <1>1 DEF Top, Frame

\* An inspection replaces the innermost one.
LEMMA UpdFacts ==
  ASSUME TypeInv, Len(insp) # 0, NEW i \in InspType
  PROVE  /\ Upd(i) \in Seq(InspType) /\ Len(Upd(i)) = Len(insp) /\ Upd(i)[Len(insp)] = i
         /\ \A k \in 1..Len(insp) : k # Len(insp) => Upd(i)[k] = insp[k]
<1>1. insp \in Seq(InspType)
  BY DEF TypeInv
<1> QED BY <1>1, ReplaceLast DEF Upd

NextFrame == [Frame EXCEPT !.next = @ + 1]

\* The walk moves on.
LEMMA AdvancedFacts ==
  ASSUME TypeInv, Len(frames) # 0
  PROVE  /\ Advanced \in Seq(FrameType) /\ Len(Advanced) = Len(frames) /\ Advanced[Len(frames)] = NextFrame
         /\ \A k \in 1..Len(frames) : k # Len(frames) => Advanced[k] = frames[k]
         /\ NextFrame \in FrameType /\ NextFrame.kind = Frame.kind /\ NextFrame.blob = Frame.blob
         /\ NextFrame.next = Frame.next + 1 /\ NextFrame.depth = Frame.depth /\ NextFrame.limit = Frame.limit
<1>1. frames \in Seq(FrameType) /\ Frame \in FrameType
  BY Innermost DEF TypeInv
<1>2. /\ NextFrame \in FrameType /\ NextFrame.kind = Frame.kind /\ NextFrame.blob = Frame.blob
      /\ NextFrame.next = Frame.next + 1 /\ NextFrame.depth = Frame.depth /\ NextFrame.limit = Frame.limit
  <2>1. Frame.next + 1 \in Nat \ {0}
    BY <1>1 DEF FrameType
  <2> QED BY <1>1, <2>1 DEF FrameType, NextFrame
<1>3. Advanced = [frames EXCEPT ![Len(frames)] = NextFrame]
  BY <1>1 DEF Advanced, NextFrame, Frame
<1> QED BY <1>1, <1>2, <1>3, ReplaceLast

\* The entries of a container.
LEMMA EntryFacts ==
  ASSUME NEW b \in Blobs
  PROVE  /\ Len(Blob[b].entries) \in Nat /\ Blob[b].opens \in BOOLEAN
         /\ \A j \in 1..Len(Blob[b].entries) : Blob[b].entries[j] \in EntryType
         /\ Size(b) \in Nat
<1>1. Blob[b].entries \in Seq(EntryType) /\ Blob[b].opens \in BOOLEAN /\ Blob[b].text \in Seq(Bytes)
  BY BlobAssumption
<1> QED BY <1>1 DEF Size

Progress(i) == /\ i \in InspType /\ i.findings = Top.findings /\ i.scanned <= Top.scanned + 1
               /\ (Top.limit => i.limit) /\ (Top.incomplete => i.incomplete)
Allowance == IF Frame.kind = "OleCompound" THEN Frame.limit ELSE MaxExpanded
Passed(i) == UNCHANGED <<leaf, stage>> /\ i.expanded = Top.expanded /\ (Entry.fault = "none" => i.incomplete)
Taken(i) == /\ leaf' = Leaf(Entry.blob, "bytes", "entry") /\ stage' = "static" /\ i.expanded <= Allowance
            /\ Entry.blob \in Blobs
WalkStep ==
  /\ stage = "walk" /\ Len(frames) # 0 /\ Len(insp) # 0
  /\ Blob[Frame.blob].opens \/ Frame.kind = "Gzip"
  /\ Frame.next \in 1..Len(Entries(Frame)) /\ Entry \in EntryType
  /\ Frame.kind = "Zip" => Top.scanned < MaxEntries
  /\ Frame.kind = "OleCompound" => Frame.next <= MaxEntries
  /\ UNCHANGED <<job, outer, seen>>
  /\ frames' = Advanced
  /\ \E i : Progress(i) /\ insp' = Upd(i) /\ (Passed(i) \/ Taken(i))

\* What is changed in an inspection.
LEMMA InspEntries ==
  ASSUME NEW i \in InspType
  PROVE  /\ [i EXCEPT !.malformed = TRUE] \in InspType
         /\ [i EXCEPT !.incomplete = TRUE] \in InspType
         /\ [i EXCEPT !.limit = TRUE] \in InspType
         /\ [i EXCEPT !.scanned = @ + 1] \in InspType
         /\ [i EXCEPT !.rejected = @ + 1] \in InspType
         /\ [i EXCEPT !.scanned = @ + 1, !.rejected = @ + 1] \in InspType
         /\ \A n \in Nat : [i EXCEPT !.macros = @ + n] \in InspType
         /\ \A n \in Nat : [i EXCEPT !.expanded = @ + n] \in InspType
         /\ \A n, m \in Nat : [i EXCEPT !.expanded = @ + n, !.external = @ + m] \in InspType
         /\ \A n, m \in Nat : [i EXCEPT !.scanned = @ + 1, !.macros = @ + n, !.attachments = @ + m] \in InspType
         /\ \A n \in Nat : [i EXCEPT !.scanned = 1, !.expanded = n] \in InspType
<1>1. [i EXCEPT !.malformed = TRUE] \in InspType
  BY DEF InspType
<1>2. [i EXCEPT !.incomplete = TRUE] \in InspType
  BY DEF InspType
<1>3. [i EXCEPT !.limit = TRUE] \in InspType
  BY DEF InspType
<1>4. [i EXCEPT !.scanned = @ + 1] \in InspType
  BY DEF InspType
<1>5. [i EXCEPT !.rejected = @ + 1] \in InspType
  BY DEF InspType
<1>6. [i EXCEPT !.scanned = @ + 1, !.rejected = @ + 1] \in InspType
  <2>1. i.scanned + 1 \in Nat /\ i.rejected + 1 \in Nat
    BY DEF InspType
  <2> QED BY <2>1 DEF InspType
<1>7. \A n \in Nat : [i EXCEPT !.macros = @ + n] \in InspType
  BY DEF InspType
<1>8. \A n \in Nat : [i EXCEPT !.expanded = @ + n] \in InspType
  BY DEF InspType
<1>9. \A n, m \in Nat : [i EXCEPT !.expanded = @ + n, !.external = @ + m] \in InspType
  <2> SUFFICES ASSUME NEW n \in Nat, NEW m \in Nat
               PROVE  [i EXCEPT !.expanded = @ + n, !.external = @ + m] \in InspType
    OBVIOUS
  <2>1. i.expanded + n \in Nat /\ i.external + m \in Nat
    BY DEF InspType
  <2> QED BY <2>1 DEF InspType
<1>10. \A n, m \in Nat : [i EXCEPT !.scanned = @ + 1, !.macros = @ + n, !.attachments = @ + m] \in InspType
  <2> SUFFICES ASSUME NEW n \in Nat, NEW m \in Nat
               PROVE  [i EXCEPT !.scanned = @ + 1, !.macros = @ + n, !.attachments = @ + m] \in InspType
    OBVIOUS
  <2>1. i.scanned + 1 \in Nat /\ i.macros + n \in Nat /\ i.attachments + m \in Nat
    BY DEF InspType
  <2> QED BY <2>1 DEF InspType
<1>11. \A n \in Nat : [i EXCEPT !.scanned = 1, !.expanded = n] \in InspType
  BY DEF InspType
<1> QED BY <1>1, <1>2, <1>3, <1>4, <1>5, <1>6, <1>7, <1>8, <1>9, <1>10, <1>11

\* What an entry changes in the inspection.
Noted(i, j, expanded) == /\ j \in InspType /\ j.findings = i.findings /\ j.scanned <= i.scanned + 1
                         /\ (i.limit => j.limit) /\ (i.incomplete => j.incomplete)
                         /\ j.expanded = expanded

\* Each note taken of an entry is one of these.
LEMMA Notes ==
  ASSUME NEW i \in InspType
  PROVE  /\ Noted(i, i, i.expanded)
         /\ Noted(i, [i EXCEPT !.malformed = TRUE], i.expanded)
         /\ Noted(i, [i EXCEPT !.incomplete = TRUE], i.expanded)
         /\ Noted(i, [i EXCEPT !.limit = TRUE], i.expanded)
         /\ Noted(i, [i EXCEPT !.rejected = @ + 1], i.expanded)
         /\ Noted(i, [i EXCEPT !.scanned = @ + 1], i.expanded)
         /\ Noted(i, [i EXCEPT !.scanned = @ + 1, !.rejected = @ + 1], i.expanded)
<1>1. i.scanned \in Nat
  BY DEF InspType
<1>2. Noted(i, i, i.expanded)
  BY <1>1 DEF Noted
<1>3. Noted(i, [i EXCEPT !.malformed = TRUE], i.expanded)
  <2>1. [i EXCEPT !.malformed = TRUE] \in InspType
    BY InspEntries
  <2> QED BY <1>1, <2>1 DEF Noted, InspType
<1>4. Noted(i, [i EXCEPT !.incomplete = TRUE], i.expanded)
  <2>1. [i EXCEPT !.incomplete = TRUE] \in InspType
    BY InspEntries
  <2> QED BY <1>1, <2>1 DEF Noted, InspType
<1>5. Noted(i, [i EXCEPT !.limit = TRUE], i.expanded)
  <2>1. [i EXCEPT !.limit = TRUE] \in InspType
    BY InspEntries
  <2> QED BY <1>1, <2>1 DEF Noted, InspType
<1>6. Noted(i, [i EXCEPT !.rejected = @ + 1], i.expanded)
  <2>1. [i EXCEPT !.rejected = @ + 1] \in InspType
    BY InspEntries
  <2> QED BY <1>1, <2>1 DEF Noted, InspType
<1>7. Noted(i, [i EXCEPT !.scanned = @ + 1], i.expanded)
  <2>1. [i EXCEPT !.scanned = @ + 1] \in InspType
    BY InspEntries
  <2> QED BY <1>1, <2>1 DEF Noted, InspType
<1>8. Noted(i, [i EXCEPT !.scanned = @ + 1, !.rejected = @ + 1], i.expanded)
  <2>1. [i EXCEPT !.scanned = @ + 1, !.rejected = @ + 1] \in InspType
    BY InspEntries
  <2> QED BY <1>1, <2>1 DEF Noted, InspType
<1> QED BY <1>2, <1>3, <1>4, <1>5, <1>6, <1>7, <1>8

\* A note that only changes what is said of the entry.
Silent(i, j) == /\ j \in InspType /\ j.findings = i.findings /\ j.scanned = i.scanned
                /\ (i.limit => j.limit) /\ (i.incomplete => j.incomplete)

\* The remarks the walk makes are such notes.
LEMMA SilentNotes ==
  ASSUME NEW i \in InspType
  PROVE  /\ Silent(i, i)
         /\ Silent(i, [i EXCEPT !.malformed = TRUE]) /\ [i EXCEPT !.malformed = TRUE].expanded = i.expanded
         /\ /\ Silent(i, [i EXCEPT !.incomplete = TRUE])
            /\ [i EXCEPT !.incomplete = TRUE].expanded = i.expanded
            /\ [i EXCEPT !.incomplete = TRUE].incomplete
         /\ Silent(i, [i EXCEPT !.limit = TRUE]) /\ [i EXCEPT !.limit = TRUE].expanded = i.expanded
         /\ [i EXCEPT !.limit = TRUE].limit
         /\ Silent(i, [i EXCEPT !.rejected = @ + 1]) /\ [i EXCEPT !.rejected = @ + 1].expanded = i.expanded
<1>1. /\ [i EXCEPT !.malformed = TRUE] \in InspType /\ [i EXCEPT !.incomplete = TRUE] \in InspType
      /\ [i EXCEPT !.limit = TRUE] \in InspType /\ [i EXCEPT !.rejected = @ + 1] \in InspType
  BY InspEntries
<1>2. Silent(i, i)
  BY DEF Silent
<1>3. Silent(i, [i EXCEPT !.malformed = TRUE]) /\ [i EXCEPT !.malformed = TRUE].expanded = i.expanded
  BY <1>1 DEF Silent, InspType
<1>4. /\ Silent(i, [i EXCEPT !.incomplete = TRUE]) /\ [i EXCEPT !.incomplete = TRUE].expanded = i.expanded
      /\ [i EXCEPT !.incomplete = TRUE].incomplete
  BY <1>1 DEF Silent, InspType
<1>5. /\ Silent(i, [i EXCEPT !.limit = TRUE]) /\ [i EXCEPT !.limit = TRUE].expanded = i.expanded
      /\ [i EXCEPT !.limit = TRUE].limit
  BY <1>1 DEF Silent, InspType
<1>6. Silent(i, [i EXCEPT !.rejected = @ + 1]) /\ [i EXCEPT !.rejected = @ + 1].expanded = i.expanded
  BY <1>1 DEF Silent, InspType
<1> QED BY <1>2, <1>3, <1>4, <1>5, <1>6

\* The names of an entry are counted.
LEMMA NameNotes ==
  ASSUME NEW i \in InspType, NEW e
  PROVE  /\ Noted(i, observe_office_structure(i, e), i.expanded)
         /\ Silent(i, [i EXCEPT !.macros = @ + (IF is_vba(e) THEN 1 ELSE 0)])
         /\ [i EXCEPT !.macros = @ + (IF is_vba(e) THEN 1 ELSE 0)].expanded = i.expanded
<1> DEFINE m == IF is_vba(e) THEN 1 ELSE 0
           a == IF "program" \in e.names THEN 1 ELSE 0
<1>1. m \in Nat /\ a \in Nat /\ i.scanned \in Nat
  BY DEF InspType
<1>2. observe_office_structure(i, e) = [i EXCEPT !.scanned = @ + 1, !.macros = @ + m, !.attachments = @ + a]
  BY DEF observe_office_structure
<1> HIDE DEF m, a
<1>3. [i EXCEPT !.scanned = @ + 1, !.macros = @ + m, !.attachments = @ + a] \in InspType
  BY <1>1, InspEntries
<1>4. Noted(i, [i EXCEPT !.scanned = @ + 1, !.macros = @ + m, !.attachments = @ + a], i.expanded)
  BY <1>1, <1>3 DEF Noted, InspType
<1>5. [i EXCEPT !.macros = @ + m] \in InspType
  BY <1>1, InspEntries
<1>6. Silent(i, [i EXCEPT !.macros = @ + m]) /\ [i EXCEPT !.macros = @ + m].expanded = i.expanded
  BY <1>5 DEF Silent, InspType
<1> QED BY <1>2, <1>4, <1>6 DEF m

\* What an entry expands to is added.
LEMMA ExpandNotes ==
  ASSUME NEW i \in InspType, NEW n \in Nat, NEW m \in Nat
  PROVE  /\ Silent(i, [i EXCEPT !.expanded = @ + n]) /\ [i EXCEPT !.expanded = @ + n].expanded = i.expanded + n
         /\ Silent(i, [i EXCEPT !.expanded = @ + n, !.external = @ + m])
         /\ [i EXCEPT !.expanded = @ + n, !.external = @ + m].expanded = i.expanded + n
         /\ Noted(i, [i EXCEPT !.scanned = 1, !.expanded = n], n)
<1>1. /\ [i EXCEPT !.expanded = @ + n] \in InspType
      /\ [i EXCEPT !.expanded = @ + n, !.external = @ + m] \in InspType
      /\ [i EXCEPT !.scanned = 1, !.expanded = n] \in InspType
  BY InspEntries
<1>2. Silent(i, [i EXCEPT !.expanded = @ + n]) /\ [i EXCEPT !.expanded = @ + n].expanded = i.expanded + n
  BY <1>1 DEF Silent, InspType
<1>3. /\ Silent(i, [i EXCEPT !.expanded = @ + n, !.external = @ + m])
      /\ [i EXCEPT !.expanded = @ + n, !.external = @ + m].expanded = i.expanded + n
  BY <1>1 DEF Silent, InspType
<1>4. Noted(i, [i EXCEPT !.scanned = 1, !.expanded = n], n)
  <2> DEFINE j == [i EXCEPT !.scanned = 1, !.expanded = n]
  <2>1. i.scanned \in Nat /\ 1 \in Nat
    BY DEF InspType
  <2>2. j.scanned = 1 /\ j.expanded = n
    BY DEF InspType
  <2>3. j.findings = i.findings /\ j.limit = i.limit /\ j.incomplete = i.incomplete
    BY DEF InspType
  <2>4. j \in InspType
    BY <1>1
  <2> HIDE DEF j
  <2>5. j.scanned <= i.scanned + 1
    BY <2>1, <2>2
  <2>6. Noted(i, j, n)
    BY <2>2, <2>3, <2>4, <2>5 DEF Noted
  <2> QED BY <2>6 DEF j
<1> QED BY <1>2, <1>3, <1>4

\* One note after the other.
LEMMA NoteThenSilent ==
  ASSUME NEW i, NEW j, NEW k, NEW expanded, Noted(i, j, expanded), Silent(j, k)
  PROVE  Noted(i, k, k.expanded)
BY DEF Noted, Silent

\* What an entry's note amounts to when the entry is passed over, and when it
\* is read.
LEMMA NotedPassed ==
  ASSUME TypeInv, NEW i, Noted(Top, i, Top.expanded), SkipEntry(i),
         Entry.fault = "none" => i.incomplete
  PROVE  frames' = Advanced /\ Progress(i) /\ insp' = Upd(i) /\ Passed(i)
BY DEF Noted, Progress, Passed, SkipEntry

\* The same of an entry that is read.
LEMMA NotedTaken ==
  ASSUME NEW i, Noted(Top, i, i.expanded), ReadEntry(i), i.expanded <= Allowance,
         Entry.blob \in Blobs
  PROVE  frames' = Advanced /\ Progress(i) /\ insp' = Upd(i) /\ Taken(i)
BY DEF Noted, Progress, Taken, ReadEntry

Walked == frames' = Advanced /\ \E i : Progress(i) /\ insp' = Upd(i) /\ (Passed(i) \/ Taken(i))

\* The entry the walk is at.
LEMMA EntryAt ==
  ASSUME TypeInv, StageInv, StackInv, stage = "walk", frames # <<>>,
         Frame.next <= Len(Entries(Frame)) \/ (Frame.kind = "Gzip" /\ Frame.next = 1)
  PROVE  /\ Len(frames) # 0 /\ Len(insp) # 0 /\ Top \in InspType /\ Frame \in FrameType
         /\ Frame.next \in 1..Len(Entries(Frame)) /\ Entry \in EntryType /\ Entry.blob \in Blobs
         /\ Size(Entry.blob) \in Nat /\ Entry.external \in Nat
<1>1. frames \in Seq(FrameType) /\ insp \in Seq(InspType)
  BY DEF TypeInv
<1>2. Len(frames) # 0
  BY <1>1
<1>3. Len(insp) # 0
  BY DEF StageInv
<1>4. Top \in InspType /\ Frame \in FrameType
  BY <1>2, <1>3, Innermost
<1>5. Frame.blob \in Blobs /\ Frame.next \in Nat \ {0}
  BY <1>4 DEF FrameType
<1>6. ASSUME Frame.next <= Len(Entries(Frame))
      PROVE  Frame.next \in 1..Len(Entries(Frame)) /\ Entry \in EntryType
  <2>1. /\ Len(Entries(Frame)) \in Nat
        /\ \A j \in 1..Len(Entries(Frame)) : Entries(Frame)[j] \in EntryType
    BY <1>5, EntryFacts DEF Entries
  <2>2. Frame.next \in 1..Len(Entries(Frame))
    BY <1>5, <1>6, <2>1
  <2> QED BY <2>1, <2>2 DEF Entry
<1>7. ASSUME Frame.kind = "Gzip", Frame.next = 1
      PROVE  Frame.next \in 1..Len(Entries(Frame)) /\ Entry \in EntryType
  <2>1. Kind(Frame.blob) = "Gzip"
    BY <1>2, <1>7 DEF StackInv
  <2>2. Len(Entries(Frame)) = 1 /\ 1 \in 1..1
    BY <1>5, <2>1, BlobAssumption DEF Entries, Kind
  <2>3. \A j \in 1..Len(Entries(Frame)) : Entries(Frame)[j] \in EntryType
    BY <1>5, EntryFacts DEF Entries
  <2> QED BY <1>7, <2>2, <2>3 DEF Entry
<1>8. Frame.next \in 1..Len(Entries(Frame)) /\ Entry \in EntryType
  BY <1>6, <1>7
<1>9. Entry.blob \in Blobs /\ Entry.external \in Nat
  BY <1>8 DEF EntryType
<1> QED BY <1>2, <1>3, <1>4, <1>8, <1>9, EntryFacts

\* A walk through an archive.
LEMMA ZipWalks ==
  ASSUME TypeInv, StageInv, StackInv, WalkZip PROVE WalkStep
<1>1. /\ stage = "walk" /\ frames # <<>> /\ Frame.kind = "Zip" /\ Blob[Frame.blob].opens
      /\ Frame.next <= Len(Entries(Frame)) /\ Top.scanned < MaxEntries /\ UNCHANGED <<job, outer, seen>>
  BY DEF WalkZip, Walking, Remaining
<1>2. /\ Len(frames) # 0 /\ Len(insp) # 0 /\ Top \in InspType /\ Frame \in FrameType
      /\ Frame.next \in 1..Len(Entries(Frame)) /\ Entry \in EntryType /\ Entry.blob \in Blobs
      /\ Size(Entry.blob) \in Nat /\ Entry.external \in Nat
  BY <1>1, EntryAt
<1> DEFINE e == Entry
           i == observe_office_structure(Top, e)
           big == e.fault \in {"none", "short"} /\ TooLarge(i, e.blob, MaxExpanded)
<1>3. Noted(Top, i, Top.expanded) /\ i \in InspType
  BY <1>2, NameNotes DEF Noted
<1>4. \/ e.fault = "unreadable" /\ SkipEntry([Top EXCEPT !.malformed = TRUE])
      \/ e.fault = "directory" /\ SkipEntry(Top)
      \/ e.fault = "name" /\ SkipEntry([Top EXCEPT !.scanned = @ + 1, !.rejected = @ + 1])
      \/ e.fault = "encrypted" /\ SkipEntry(i)
      \/ e.fault = "ratio" /\ SkipEntry([i EXCEPT !.limit = TRUE])
      \/ big /\ SkipEntry([i EXCEPT !.incomplete = TRUE])
      \/ e.fault = "short" /\ ~big /\ SkipEntry([i EXCEPT !.malformed = TRUE])
      \/ e.fault = "none" /\ ~big
         /\ ReadEntry([i EXCEPT !.expanded = @ + Size(e.blob), !.external = @ + e.external])
  BY DEF WalkZip
<1>5. ~big /\ e.fault = "none" => i.expanded + Size(e.blob) <= Allowance
  <2>1. i.expanded = Top.expanded /\ i.expanded \in Nat /\ MaxExpanded \in Nat
    BY <1>3, DetectionAssumption DEF Noted, InspType
  <2> HIDE DEF i, e
  <2> QED BY <1>1, <1>2, <2>1 DEF TooLarge, Allowance, e
<1> HIDE DEF i, big
<1>6. ASSUME e.fault = "unreadable" /\ SkipEntry([Top EXCEPT !.malformed = TRUE])
      PROVE  Walked
  BY <1>2, <1>6, Notes, NotedPassed DEF Walked
<1>7. ASSUME e.fault = "directory" /\ SkipEntry(Top)
      PROVE  Walked
  BY <1>2, <1>7, Notes, NotedPassed DEF Walked
<1>8. ASSUME e.fault = "name" /\ SkipEntry([Top EXCEPT !.scanned = @ + 1, !.rejected = @ + 1])
      PROVE  Walked
  BY <1>2, <1>8, Notes, NotedPassed DEF Walked
<1>9. ASSUME e.fault = "encrypted" /\ SkipEntry(i)
      PROVE  Walked
  BY <1>3, <1>9, NotedPassed DEF Walked
<1>10. ASSUME e.fault = "ratio" /\ SkipEntry([i EXCEPT !.limit = TRUE])
      PROVE  Walked
  <2> DEFINE j == [i EXCEPT !.limit = TRUE]
  <2>1. Silent(i, j) /\ j.expanded = i.expanded
    BY <1>3, SilentNotes
  <2> HIDE DEF j
  <2>2. Noted(Top, j, Top.expanded)
    BY <1>3, <2>1, NoteThenSilent DEF Noted
  <2> QED BY <1>10, <2>2, NotedPassed DEF Walked, j
<1>11. ASSUME big /\ SkipEntry([i EXCEPT !.incomplete = TRUE])
      PROVE  Walked
  <2> DEFINE j == [i EXCEPT !.incomplete = TRUE]
  <2>1. Silent(i, j) /\ j.expanded = i.expanded /\ j.incomplete
    BY <1>3, SilentNotes
  <2> HIDE DEF j
  <2>2. Noted(Top, j, Top.expanded)
    BY <1>3, <2>1, NoteThenSilent DEF Noted
  <2> QED BY <1>11, <2>1, <2>2, NotedPassed DEF Walked, j
<1>12. ASSUME e.fault = "short" /\ ~big /\ SkipEntry([i EXCEPT !.malformed = TRUE])
      PROVE  Walked
  <2> DEFINE j == [i EXCEPT !.malformed = TRUE]
  <2>1. Silent(i, j) /\ j.expanded = i.expanded
    BY <1>3, SilentNotes
  <2> HIDE DEF j
  <2>2. Noted(Top, j, Top.expanded)
    BY <1>3, <2>1, NoteThenSilent DEF Noted
  <2> QED BY <1>12, <2>2, NotedPassed DEF Walked, j
<1>13. ASSUME e.fault = "none" /\ ~big
            /\ ReadEntry([i EXCEPT !.expanded = @ + Size(e.blob), !.external = @ + e.external])
      PROVE  Walked
  <2> DEFINE j == [i EXCEPT !.expanded = @ + Size(e.blob), !.external = @ + e.external]
  <2>1. Silent(i, j) /\ j.expanded = i.expanded + Size(e.blob)
    BY <1>2, <1>3, ExpandNotes
  <2> HIDE DEF j
  <2>2. Noted(Top, j, j.expanded)
    BY <1>3, <2>1, NoteThenSilent
  <2>3. j.expanded <= Allowance
    BY <1>5, <1>13, <2>1
  <2> QED BY <1>2, <1>13, <2>2, <2>3, NotedTaken DEF Walked, j
<1>14. Walked
  BY <1>4, <1>6, <1>7, <1>8, <1>9, <1>10, <1>11, <1>12, <1>13
<1> QED BY <1>1, <1>2, <1>14 DEF WalkStep, Walked

\* A walk through a compound file.
LEMMA OleWalks ==
  ASSUME TypeInv, StageInv, StackInv, WalkOle PROVE WalkStep
<1>1. /\ stage = "walk" /\ frames # <<>> /\ Frame.kind = "OleCompound" /\ Blob[Frame.blob].opens
      /\ Frame.next <= Len(Entries(Frame)) /\ Frame.next <= MaxEntries /\ UNCHANGED <<job, outer, seen>>
  BY DEF WalkOle, Walking, Remaining
<1>2. /\ Len(frames) # 0 /\ Len(insp) # 0 /\ Top \in InspType /\ Frame \in FrameType
      /\ Frame.next \in 1..Len(Entries(Frame)) /\ Entry \in EntryType /\ Entry.blob \in Blobs
      /\ Size(Entry.blob) \in Nat /\ Entry.external \in Nat
  BY <1>1, EntryAt
<1> DEFINE e == Entry
           i == [Top EXCEPT !.scanned = @ + 1]
           j == [i EXCEPT !.macros = @ + (IF is_vba(e) THEN 1 ELSE 0)]
           big == TooLarge(i, e.blob, Frame.limit)
<1>3. Noted(Top, i, Top.expanded) /\ i \in InspType
  BY <1>2, Notes DEF Noted
<1>4. \/ big /\ SkipEntry([i EXCEPT !.incomplete = TRUE])
      \/ ~big /\ e.fault = "name" /\ SkipEntry([i EXCEPT !.rejected = @ + 1])
      \/ ~big /\ e.fault \in {"unreadable", "short"} /\ SkipEntry([j EXCEPT !.malformed = TRUE])
      \/ ~big /\ e.fault = "none" /\ ReadEntry([j EXCEPT !.expanded = @ + Size(e.blob)])
  BY DEF WalkOle
<1>5. ~big => i.expanded + Size(e.blob) <= Allowance
  <2>1. i.expanded \in Nat /\ Frame.limit \in Nat
    BY <1>2, <1>3 DEF FrameType, InspType
  <2> HIDE DEF i, e
  <2> QED BY <1>1, <1>2, <2>1 DEF TooLarge, Allowance, e
<1> HIDE DEF i
<1>6. Noted(Top, j, Top.expanded) /\ j \in InspType /\ j.expanded = i.expanded
  <2>1. Silent(i, j) /\ j.expanded = i.expanded
    BY <1>3, NameNotes
  <2> HIDE DEF j
  <2> QED BY <1>3, <2>1, NoteThenSilent DEF Noted
<1> HIDE DEF j, big
<1>7. ASSUME big /\ SkipEntry([i EXCEPT !.incomplete = TRUE])
      PROVE  Walked
  <2> DEFINE k == [i EXCEPT !.incomplete = TRUE]
  <2>1. Silent(i, k) /\ k.expanded = i.expanded /\ k.incomplete
    BY <1>3, SilentNotes
  <2> HIDE DEF k
  <2>2. Noted(Top, k, Top.expanded)
    BY <1>3, <2>1, NoteThenSilent DEF Noted
  <2> QED BY <1>7, <2>1, <2>2, NotedPassed DEF Walked, k
<1>8. ASSUME ~big /\ e.fault = "name" /\ SkipEntry([i EXCEPT !.rejected = @ + 1])
      PROVE  Walked
  <2> DEFINE k == [i EXCEPT !.rejected = @ + 1]
  <2>1. Silent(i, k) /\ k.expanded = i.expanded
    BY <1>3, SilentNotes
  <2> HIDE DEF k
  <2>2. Noted(Top, k, Top.expanded)
    BY <1>3, <2>1, NoteThenSilent DEF Noted
  <2> QED BY <1>8, <2>2, NotedPassed DEF Walked, k
<1>9. ASSUME ~big /\ e.fault \in {"unreadable", "short"} /\ SkipEntry([j EXCEPT !.malformed = TRUE])
      PROVE  Walked
  <2> DEFINE k == [j EXCEPT !.malformed = TRUE]
  <2>1. Silent(j, k) /\ k.expanded = j.expanded
    BY <1>6, SilentNotes
  <2> HIDE DEF k
  <2>2. Noted(Top, k, Top.expanded)
    BY <1>6, <2>1, NoteThenSilent DEF Noted
  <2> QED BY <1>9, <2>2, NotedPassed DEF Walked, k
<1>10. ASSUME ~big /\ e.fault = "none" /\ ReadEntry([j EXCEPT !.expanded = @ + Size(e.blob)])
      PROVE  Walked
  <2> DEFINE k == [j EXCEPT !.expanded = @ + Size(e.blob)]
  <2>1. Silent(j, k) /\ k.expanded = j.expanded + Size(e.blob)
    <3>1. 0 \in Nat
      OBVIOUS
    <3> QED BY <1>2, <1>6, <3>1, ExpandNotes
  <2> HIDE DEF k
  <2>2. Noted(Top, k, k.expanded)
    BY <1>6, <2>1, NoteThenSilent
  <2>3. k.expanded <= Allowance
    BY <1>5, <1>6, <1>10, <2>1
  <2> QED BY <1>2, <1>10, <2>2, <2>3, NotedTaken DEF Walked, k
<1>11. Walked
  BY <1>4, <1>7, <1>8, <1>9, <1>10
<1> QED BY <1>1, <1>2, <1>11 DEF WalkStep, Walked

\* A walk through a compressed file.
LEMMA GzipWalks ==
  ASSUME TypeInv, StageInv, StackInv, WalkGzip PROVE WalkStep
<1>1. /\ stage = "walk" /\ frames # <<>> /\ Frame.kind = "Gzip" /\ Frame.next = 1
      /\ UNCHANGED <<job, outer, seen>>
  BY DEF WalkGzip, Walking
<1>2. /\ Len(frames) # 0 /\ Len(insp) # 0 /\ Top \in InspType /\ Frame \in FrameType
      /\ Frame.next \in 1..Len(Entries(Frame)) /\ Entry \in EntryType /\ Entry.blob \in Blobs
      /\ Size(Entry.blob) \in Nat /\ Entry.external \in Nat
  BY <1>1, EntryAt
<1> DEFINE e == Entry
           big == e.fault # "short" /\ Size(e.blob) > MaxEntryBytes
<1>4. \/ e.fault = "short" /\ SkipEntry([Top EXCEPT !.malformed = TRUE])
      \/ big /\ SkipEntry([Top EXCEPT !.incomplete = TRUE])
      \/ ~big /\ e.fault = "ratio" /\ SkipEntry([Top EXCEPT !.limit = TRUE])
      \/ ~big /\ e.fault = "none" /\ ReadEntry([Top EXCEPT !.scanned = 1, !.expanded = Size(e.blob)])
  BY DEF WalkGzip
<1>5. ~big /\ e.fault = "none" => Size(e.blob) <= Allowance
  <2>1. MaxExpanded \in Nat /\ MaxEntryBytes \in Nat /\ MaxEntryBytes <= MaxExpanded
    BY DetectionAssumption
  <2> QED BY <1>1, <1>2, <2>1 DEF Allowance
<1> HIDE DEF big
<1>6. ASSUME e.fault = "short" /\ SkipEntry([Top EXCEPT !.malformed = TRUE])
      PROVE  Walked
  BY <1>2, <1>6, Notes, NotedPassed DEF Walked
<1>7. ASSUME big /\ SkipEntry([Top EXCEPT !.incomplete = TRUE])
      PROVE  Walked
  <2>1. [Top EXCEPT !.incomplete = TRUE].incomplete
    BY <1>2, SilentNotes
  <2> QED BY <1>2, <1>7, <2>1, Notes, NotedPassed DEF Walked
<1>8. ASSUME ~big /\ e.fault = "ratio" /\ SkipEntry([Top EXCEPT !.limit = TRUE])
      PROVE  Walked
  BY <1>2, <1>8, Notes, NotedPassed DEF Walked
<1>9. ASSUME ~big /\ e.fault = "none" /\ ReadEntry([Top EXCEPT !.scanned = 1, !.expanded = Size(e.blob)])
      PROVE  Walked
  <2> DEFINE k == [Top EXCEPT !.scanned = 1, !.expanded = Size(e.blob)]
  <2>1. Noted(Top, k, Size(e.blob))
    BY <1>2, ExpandNotes
  <2> HIDE DEF k
  <2>2. Noted(Top, k, k.expanded) /\ k.expanded <= Allowance
    BY <1>5, <1>9, <2>1 DEF Noted
  <2> QED BY <1>2, <1>9, <2>2, NotedTaken DEF Walked, k
<1>11. Walked
  BY <1>4, <1>6, <1>7, <1>8, <1>9
<1> QED BY <1>1, <1>2, <1>11 DEF WalkStep, Walked

\* Each walk is such a step.
LEMMA Walks ==
  ASSUME TypeInv, StageInv, StackInv, WalkZip \/ WalkOle \/ WalkGzip PROVE WalkStep
BY ZipWalks, OleWalks, GzipWalks

-----------------------------------------------------------------------------
(* Inspections.                                                            *)

\* What changes only what is said of a container.
Remarked(i, j) == Silent(i, j) /\ j.expanded = i.expanded

\* A new inspection has seen nothing.
LEMMA NewInspections ==
  /\ NewInspection \in InspType /\ NewInspection.scanned = 0 /\ NewInspection.expanded = 0
  /\ NewInspection.findings = <<>> /\ ~NewInspection.limit /\ ~NewInspection.incomplete
  /\ ~NewInspection.late
<1>1. <<>> \in Seq(ReportType) /\ 0 \in Nat /\ FALSE \in BOOLEAN
  OBVIOUS
<1>2. NewInspection \in InspType
  BY <1>1 DEF NewInspection, InspType
<1> QED BY <1>2 DEF NewInspection

\* A finding is added, unless there is no room.
LEMMA FindingRecorded ==
  ASSUME NEW i \in InspType, NEW r \in ReportType
  PROVE  LET j == record_finding(i, r) IN
         /\ j \in InspType /\ j.scanned = i.scanned /\ j.expanded = i.expanded
         /\ (i.limit => j.limit) /\ (i.incomplete => j.incomplete) /\ j.late = i.late
         /\ \/ j.findings = i.findings /\ (r.verdict = "Clean" \/ Len(i.findings) >= MaxFindings)
            \/ r.verdict # "Clean" /\ Len(i.findings) < MaxFindings /\ j.findings = Append(i.findings, r)
<1>1. i.findings \in Seq(ReportType)
  BY DEF InspType
<1>2. Append(i.findings, r) \in Seq(ReportType)
  BY <1>1
<1>3. Len(i.findings) \in Nat /\ MaxFindings \in Nat
  BY <1>1, DetectionAssumption
<1>4. CASE r.verdict # "Clean" /\ Len(i.findings) < MaxFindings
  <2> DEFINE j == [i EXCEPT !.findings = Append(i.findings, r)]
  <2>1. record_finding(i, r) = j
    BY <1>4 DEF record_finding
  <2>2. j \in InspType
    BY <1>2 DEF InspType
  <2>3. /\ j.scanned = i.scanned /\ j.expanded = i.expanded /\ j.limit = i.limit
        /\ j.incomplete = i.incomplete /\ j.late = i.late
    BY DEF InspType
  <2>4. j.findings = Append(i.findings, r)
    BY DEF InspType
  <2> HIDE DEF j
  <2> QED BY <1>4, <2>1, <2>2, <2>3, <2>4
<1>5. CASE ~(r.verdict # "Clean" /\ Len(i.findings) < MaxFindings)
  <2>1. record_finding(i, r) = i
    BY <1>5 DEF record_finding
  <2> QED BY <1>3, <1>5, <2>1
<1> QED BY <1>4, <1>5

\* What is noted when a container is opened.
LEMMA Remarks ==
  ASSUME NEW i \in InspType, NEW n \in BOOLEAN, NEW m \in BOOLEAN
  PROVE  LET j == [i EXCEPT !.incomplete = @ \/ n, !.malformed = @ \/ m] IN
         Remarked(i, j) /\ (n => j.incomplete) /\ j.late = i.late
<1> DEFINE p == i.incomplete \/ n
           q == i.malformed \/ m
           j == [i EXCEPT !.incomplete = p, !.malformed = q]
<1>1. p \in BOOLEAN /\ q \in BOOLEAN
  OBVIOUS
<1>2. (i.incomplete => p) /\ (n => p)
  OBVIOUS
<1> HIDE DEF p, q
<1>3. j \in InspType
  BY <1>1 DEF InspType
<1>4. /\ j.findings = i.findings /\ j.scanned = i.scanned /\ j.expanded = i.expanded /\ j.limit = i.limit
      /\ j.late = i.late
  BY DEF InspType
<1>5. j.incomplete = p
  BY DEF InspType
<1>6. j = [i EXCEPT !.incomplete = @ \/ n, !.malformed = @ \/ m]
  BY DEF p, q
<1> HIDE DEF j
<1>7. Remarked(i, j) /\ (n => j.incomplete) /\ j.late = i.late
  BY <1>2, <1>3, <1>4, <1>5 DEF Remarked, Silent
<1> QED BY <1>6, <1>7

TooManyEntries(kind, i, b) ==
  /\ Blob[b].opens
  /\ \/ kind = "Zip" /\ Len(Blob[b].entries) > MaxEntries - i.scanned
     \/ kind = "OleCompound" /\ Len(Blob[b].entries) > MaxEntries

\* Opening a container notes that its time was up, or that it holds more entries
\* than are looked at, and leaves the rest alone.
LEMMA ContainersOpened ==
  ASSUME NEW i \in InspType, NEW b \in Blobs, NEW kind
  PROVE  LET j == Opened(kind, i, b) IN
         /\ Remarked(i, j) /\ j.late = i.late
         /\ kind = "Zip" /\ i.late => j.incomplete
         /\ TooManyEntries(kind, i, b) => j.incomplete
         /\ kind = "Zip" => j = OpenedZip(i, b)
         /\ kind = "OleCompound" => j = OpenedOle(i, b)
<1>1. Blob[b].opens \in BOOLEAN /\ Len(Blob[b].entries) \in Nat /\ i.late \in BOOLEAN
  BY EntryFacts DEF InspType
<1>2. CASE kind = "Zip"
  <2> DEFINE n == i.late \/ (~i.late /\ Blob[b].opens /\ Len(Blob[b].entries) > MaxEntries - i.scanned)
             m == ~i.late /\ ~Blob[b].opens
             j == [i EXCEPT !.incomplete = @ \/ n, !.malformed = @ \/ m]
  <2>1. n \in BOOLEAN /\ m \in BOOLEAN
    OBVIOUS
  <2>2. Opened(kind, i, b) = j /\ Opened(kind, i, b) = OpenedZip(i, b)
    BY <1>2 DEF Opened, OpenedZip
  <2>3. TooManyEntries(kind, i, b) \/ i.late => n
    BY <1>2 DEF TooManyEntries
  <2> HIDE DEF n, m
  <2>4. Remarked(i, j) /\ (n => j.incomplete) /\ j.late = i.late
    BY <2>1, Remarks
  <2> HIDE DEF j
  <2> QED BY <1>2, <2>2, <2>3, <2>4
<1>3. CASE kind = "OleCompound"
  <2> DEFINE n == Blob[b].opens /\ Len(Blob[b].entries) > MaxEntries
             m == ~Blob[b].opens
             j == [i EXCEPT !.incomplete = @ \/ n, !.malformed = @ \/ m]
  <2>1. n \in BOOLEAN /\ m \in BOOLEAN
    OBVIOUS
  <2>2. Opened(kind, i, b) = j /\ Opened(kind, i, b) = OpenedOle(i, b)
    BY <1>3 DEF Opened, OpenedOle
  <2>3. TooManyEntries(kind, i, b) => n
    BY <1>3 DEF TooManyEntries
  <2> HIDE DEF n, m
  <2>4. Remarked(i, j) /\ (n => j.incomplete) /\ j.late = i.late
    BY <2>1, Remarks
  <2> HIDE DEF j
  <2> QED BY <1>3, <2>2, <2>3, <2>4
<1>4. CASE kind # "Zip" /\ kind # "OleCompound"
  <2>1. Opened(kind, i, b) = i
    BY <1>4 DEF Opened
  <2>2. Silent(i, i)
    BY DEF Silent
  <2> QED BY <1>4, <2>1, <2>2 DEF Remarked, TooManyEntries
<1> QED BY <1>2, <1>3, <1>4

\* A compound file's inspection is merged into the archive's.
LEMMA Merged ==
  ASSUME NEW i \in InspType, NEW n \in InspType
  PROVE  LET j == merge_nested_inspection(i, n)
             all == i.findings \o n.findings IN
         /\ j \in InspType /\ j.scanned = i.scanned + n.scanned /\ j.expanded = i.expanded + n.expanded
         /\ (i.limit \/ n.limit => j.limit) /\ (i.incomplete \/ n.incomplete => j.incomplete)
         /\ j.findings \in Seq(ReportType) /\ Len(j.findings) <= MaxFindings
         /\ Len(j.findings) <= Len(i.findings) + Len(n.findings)
         /\ Len(i.findings) + Len(n.findings) <= MaxFindings =>
              Len(j.findings) = Len(i.findings) + Len(n.findings)
         /\ \A k \in 1..Len(j.findings) :
              j.findings[k] = IF k <= Len(i.findings) THEN i.findings[k]
                              ELSE n.findings[k - Len(i.findings)]
<1> DEFINE all == i.findings \o n.findings
           kept == SubSeq(all, 1, AtMost(Len(all), MaxFindings))
           j == merge_nested_inspection(i, n)
<1>1. /\ i.findings \in Seq(ReportType) /\ n.findings \in Seq(ReportType)
      /\ MaxFindings \in Nat
  BY DetectionAssumption DEF InspType
<1>2. /\ all \in Seq(ReportType) /\ Len(all) = Len(i.findings) + Len(n.findings)
      /\ \A k \in 1..Len(all) :
           all[k] = IF k <= Len(i.findings) THEN i.findings[k] ELSE n.findings[k - Len(i.findings)]
  BY <1>1, ConcatProperties
<1> HIDE DEF all
<1>3. /\ AtMost(Len(all), MaxFindings) \in 0..Len(all) /\ AtMost(Len(all), MaxFindings) <= MaxFindings
      /\ Len(all) <= MaxFindings => AtMost(Len(all), MaxFindings) = Len(all)
  <2> DEFINE l == Len(all)
  <2>1. l \in Nat
    BY ONLY <1>2, LenProperties
  <2> HIDE DEF l
  <2>2. /\ AtMost(l, MaxFindings) \in 0..l /\ AtMost(l, MaxFindings) <= MaxFindings
        /\ l <= MaxFindings => AtMost(l, MaxFindings) = l
    BY <1>1, <2>1 DEF AtMost
  <2> QED BY <2>2 DEF l
<1>4. /\ kept \in Seq(ReportType) /\ Len(kept) = AtMost(Len(all), MaxFindings)
      /\ \A k \in 1..Len(kept) : kept[k] = all[k]
  BY <1>2, <1>3, FirstFew
<1> HIDE DEF kept
<1>5. /\ i.scanned + n.scanned \in Nat /\ i.expanded + n.expanded \in Nat /\ i.macros + n.macros \in Nat
      /\ i.attachments + n.attachments \in Nat /\ i.external + n.external \in Nat
      /\ i.rejected + n.rejected \in Nat
  <2>1. /\ i.scanned \in Nat /\ i.expanded \in Nat /\ i.macros \in Nat /\ i.attachments \in Nat
        /\ i.external \in Nat /\ i.rejected \in Nat
    BY DEF InspType
  <2>2. /\ n.scanned \in Nat /\ n.expanded \in Nat /\ n.macros \in Nat /\ n.attachments \in Nat
        /\ n.external \in Nat /\ n.rejected \in Nat
    BY DEF InspType
  <2> QED BY <2>1, <2>2
<1>6. /\ (i.limit \/ n.limit) \in BOOLEAN /\ (i.incomplete \/ n.incomplete) \in BOOLEAN
      /\ (i.malformed \/ n.malformed) \in BOOLEAN
  OBVIOUS
<1>7. j = [i EXCEPT !.scanned = i.scanned + n.scanned, !.expanded = i.expanded + n.expanded,
                    !.macros = i.macros + n.macros, !.attachments = i.attachments + n.attachments,
                    !.external = i.external + n.external, !.rejected = i.rejected + n.rejected,
                    !.limit = i.limit \/ n.limit, !.incomplete = i.incomplete \/ n.incomplete,
                    !.malformed = i.malformed \/ n.malformed, !.findings = kept]
  BY DEF merge_nested_inspection, kept, all
<1> DEFINE scanned == i.scanned + n.scanned
           expanded == i.expanded + n.expanded
           macros == i.macros + n.macros
           attachments == i.attachments + n.attachments
           external == i.external + n.external
           rejected == i.rejected + n.rejected
           limit == i.limit \/ n.limit
           incomplete == i.incomplete \/ n.incomplete
           malformed == i.malformed \/ n.malformed
<1>8. j = [i EXCEPT !.scanned = scanned, !.expanded = expanded, !.macros = macros,
                    !.attachments = attachments, !.external = external, !.rejected = rejected,
                    !.limit = limit, !.incomplete = incomplete, !.malformed = malformed,
                    !.findings = kept]
  BY <1>7
<1>9. /\ scanned \in Nat /\ expanded \in Nat /\ macros \in Nat /\ attachments \in Nat /\ external \in Nat
      /\ rejected \in Nat /\ limit \in BOOLEAN /\ incomplete \in BOOLEAN /\ malformed \in BOOLEAN
  BY <1>5, <1>6
<1> HIDE DEF j, scanned, expanded, macros, attachments, external, rejected, limit, incomplete, malformed
<1>10. j \in InspType
  <2> DEFINE k == [i EXCEPT !.scanned = scanned, !.expanded = expanded, !.macros = macros,
                            !.attachments = attachments, !.external = external]
  <2>1. k \in InspType
    BY <1>9 DEF InspType
  <2>2. j = [k EXCEPT !.rejected = rejected, !.limit = limit, !.incomplete = incomplete,
                      !.malformed = malformed, !.findings = kept]
    BY <1>8
  <2> HIDE DEF k
  <2> QED BY <1>4, <1>9, <2>1, <2>2 DEF InspType
<1>11. j.scanned = scanned /\ j.expanded = expanded
  BY <1>8 DEF InspType
<1>12. j.limit = limit /\ j.incomplete = incomplete /\ j.findings = kept
  BY <1>8 DEF InspType
<1>13. Len(kept) \in Nat /\ Len(all) \in Nat
  BY ONLY <1>2, <1>4, LenProperties
<1>14. \A k \in 1..Len(kept) : k \in 1..Len(all)
  <2>1. Len(kept) <= Len(all)
    BY <1>3, <1>4, <1>13
  <2> QED BY <1>13, <2>1
<1>15. \A k \in 1..Len(j.findings) :
         j.findings[k] = IF k <= Len(i.findings) THEN i.findings[k] ELSE n.findings[k - Len(i.findings)]
  <2> SUFFICES ASSUME NEW k \in 1..Len(kept)
               PROVE  kept[k] = IF k <= Len(i.findings) THEN i.findings[k]
                                ELSE n.findings[k - Len(i.findings)]
    BY <1>12
  <2>1. k \in 1..Len(all) /\ kept[k] = all[k]
    BY <1>4, <1>14
  <2> QED BY <1>2, <2>1
<1>16. /\ Len(j.findings) <= MaxFindings /\ Len(j.findings) <= Len(i.findings) + Len(n.findings)
       /\ Len(i.findings) + Len(n.findings) <= MaxFindings =>
            Len(j.findings) = Len(i.findings) + Len(n.findings)
  <2> DEFINE a == AtMost(Len(all), MaxFindings)
  <2>1. Len(j.findings) = a
    BY <1>4, <1>12
  <2>2. Len(all) = Len(i.findings) + Len(n.findings)
    BY <1>2
  <2>3. a <= Len(all) /\ a <= MaxFindings /\ (Len(all) <= MaxFindings => a = Len(all))
    BY <1>3, <1>13
  <2> HIDE DEF a
  <2> QED BY <2>1, <2>2, <2>3
<1> QED BY <1>4, <1>10, <1>11, <1>12, <1>15, <1>16 DEF j, scanned, expanded, limit, incomplete

\* The report on the sample under analysis.
LEMMA ResolvedReport ==
  ASSUME TypeInv, stage = "amsi", NEW amsi
  PROVE  IsLeafReport(Resolved(amsi))
<1>1. leaf \in LeafType /\ leaf.static = ScanOf(leaf.blob, leaf.origin)
  BY DEF TypeInv
<1>2. leaf.blob \in Blobs /\ leaf.origin \in Origins
  BY <1>1 DEF LeafType
<1> DEFINE e == [static |-> leaf.static, native |-> leaf.native, rules |-> leaf.rules,
                 shard |-> Blob[leaf.blob].shard /\ leaf.static.sha256,
                 similar |-> leaf.similar, amsi |-> amsi]
           shape == Blob[leaf.blob].shape
<1>3. IsStatic(leaf.static, shape) /\ leaf.static.confidence \in Confidences
  <2>1. leaf.static \in Statics
    BY <1>1, <1>2 DEF Statics
  <2> QED BY <1>1, <1>2, <2>1, ScanFacts DEF Confidences
<1>4. /\ leaf.native \in Natives /\ leaf.rules \in SUBSET RuleMatches /\ leaf.similar \in SUBSET Nat
  BY <1>1 DEF LeafType
<1>5. IsEvidence(e, shape)
  BY <1>3, <1>4 DEF IsEvidence
<1> HIDE DEF e, shape
<1>6. IsLeafReport(resolve(e))
  BY <1>5, ResolveFacts
<1>7. Resolved(amsi) = record_rule_failure(resolve(e), leaf.failed)
  BY DEF Resolved, e
<1> DEFINE r == resolve(e)
<1> HIDE DEF r
<1>8. IsLeafReport(r)
  BY <1>6 DEF r
<1>9. CASE leaf.failed
  <2> DEFINE f == [r EXCEPT !.completeness = "TimedOut"]
  <2>1. "TimedOut" \in Completenesses
    BY DEF Completenesses
  <2>2. r \in ReportType
    BY <1>8 DEF IsLeafReport
  <2>3. f \in ReportType
    BY <2>1, <2>2 DEF ReportType
  <2>4. /\ f.verdict = r.verdict /\ f.quarantine = r.quarantine /\ f.truncated = r.truncated
        /\ f.completeness = "TimedOut"
    BY <2>2 DEF ReportType
  <2>5. Resolved(amsi) = f
    BY <1>7, <1>9 DEF record_rule_failure, r
  <2> HIDE DEF f
  <2> QED BY <1>8, <2>3, <2>4, <2>5 DEF IsLeafReport
<1>10. CASE ~leaf.failed
  BY <1>7, <1>8, <1>10 DEF record_rule_failure, r
<1> QED BY <1>9, <1>10

-----------------------------------------------------------------------------
(* Reports.                                                                *)

\* What makes one report as good as another for those that keep it.
Judged(r, s) == /\ s \in ReportType
                /\ s.completeness = r.completeness /\ s.truncated = r.truncated /\ s.sha256 = r.sha256
                /\ (s.verdict = "Error" <=> r.verdict = "Error")
                /\ s.verdict = "Clean" => r.verdict = "Clean"
                /\ r.verdict = "Malicious" => s.verdict = "Malicious"

\* A risk is a percentage; so are the two confidences a report is raised to.
LEMMA Raised ==
  ASSUME NEW a \in 0..100, NEW b \in 0..100 PROVE Highest(a, b) \in 0..100
BY DEF Highest

\* A confidence that is raised stays one.
LEMMA RaisedConfidence ==
  ASSUME NEW a \in Confidences, NEW b \in Nat PROVE Highest(a, b) \in Confidences
BY DEF Highest, Confidences

Risks == 0..100
Revised(r, v, n, c) == [r EXCEPT !.verdict = v, !.risk = n, !.confidence = c]
\* A report whose verdict, risk and confidence change.
LEMMA Changed ==
  ASSUME NEW r \in ReportType, NEW v \in Verdicts, NEW n \in Risks, NEW c \in Confidences
  PROVE  LET s == Revised(r, v, n, c) IN
         /\ s \in ReportType /\ s.verdict = v /\ s.completeness = r.completeness
         /\ s.truncated = r.truncated /\ s.sha256 = r.sha256 /\ s.quarantine = r.quarantine
         /\ s.block = r.block
<1> DEFINE s == [r EXCEPT !.verdict = v, !.risk = n, !.confidence = c]
<1>1. s \in ReportType
  BY DEF ReportType, Risks
<1>2. s.verdict = v /\ s.completeness = r.completeness /\ s.truncated = r.truncated
  BY DEF ReportType
<1>3. s.sha256 = r.sha256 /\ s.quarantine = r.quarantine /\ s.block = r.block
  BY DEF ReportType
<1> QED BY <1>1, <1>2, <1>3 DEF Revised

\* An error is a report.
LEMMA ErrorReport == error \in ReportType /\ error.verdict = "Error" /\ ~error.quarantine
<1>1. 0 \in 0..100 /\ 0 \in Confidences /\ FALSE \in BOOLEAN
  BY DEF Confidences
<1>2. "Error" \in Verdicts /\ "ResourceLimitReached" \in Completenesses
  BY DEF Verdicts, Completenesses
<1>3. error \in ReportType
  BY <1>1, <1>2 DEF error, ReportType
<1> QED BY <1>3 DEF error

\* What a script submitted for a verdict is judged on in the end.
LEMMA Submitted ==
  ASSUME NEW r \in ReportType, NEW rules
  PROVE  LET s == amsi_submission(r, rules) IN Judged(r, s) /\ s.quarantine = r.quarantine
<1> DEFINE given == \E m \in rules : m.namespace = Builtin /\ m.identifier \in AmsiConvicting
<1> HIDE DEF given
<1>1. r.risk \in 0..100 /\ r.confidence \in Confidences /\ r.verdict \in Verdicts
  BY DEF ReportType
<1>2. CASE r.verdict \in {"Clean", "Suspicious"} /\ given
  <2> DEFINE n == Highest(r.risk, 95)
             c == Highest(r.confidence, 95)
             v == "Malicious"
             s == Revised(r, v, n, c)
  <2>1. n \in Risks /\ c \in Confidences /\ v \in Verdicts
    <3>1. 95 \in 0..100 /\ 95 \in Nat
      OBVIOUS
    <3> QED BY <1>1, <3>1, Raised, RaisedConfidence DEF Verdicts, Risks
  <2>2. amsi_submission(r, rules) = s
    BY <1>2 DEF amsi_submission, given, Revised
  <2> HIDE DEF n, c, v
  <2>3. /\ s \in ReportType /\ s.verdict = v /\ s.completeness = r.completeness
        /\ s.truncated = r.truncated /\ s.sha256 = r.sha256 /\ s.quarantine = r.quarantine
    BY <2>1, Changed
  <2> HIDE DEF s
  <2> QED BY <1>2, <2>2, <2>3 DEF Judged, v
<1>3. CASE ~(r.verdict \in {"Clean", "Suspicious"} /\ given)
  <2>1. amsi_submission(r, rules) = r
    BY <1>3 DEF amsi_submission, given
  <2> QED BY <2>1 DEF Judged
<1> QED BY <1>2, <1>3

\* How strongly a finding counts.
Strength(f) == verdict_rank(f.verdict) * 1000 + f.risk
Strengths == 0..3100

\* Only a malicious finding counts three thousand or more.
LEMMA StrengthFacts ==
  ASSUME NEW f \in ReportType
  PROVE  /\ Strength(f) \in Strengths
         /\ f.verdict = "Malicious" <=> Strength(f) >= 3000
<1>1. f.risk \in 0..100 /\ f.verdict \in Verdicts
  BY DEF ReportType
<1>2. /\ verdict_rank(f.verdict) \in 0..3
      /\ f.verdict = "Malicious" <=> verdict_rank(f.verdict) = 3
  BY <1>1 DEF verdict_rank, Verdicts
<1> QED BY <1>1, <1>2 DEF Strength, Strengths

\* The strongest finding is one of them, and none is stronger.
LEMMA StrongestFacts ==
  ASSUME NEW s \in Seq(ReportType), s # <<>>
  PROVE  \E b \in 1..Len(s) : /\ Strongest(s) = s[b]
                              /\ \A j \in 1..Len(s) : Strength(s[j]) <= Strength(s[b])
<1>1. Len(s) \in Nat /\ Len(s) # 0 /\ DOMAIN s = 1..Len(s) /\ \A j \in 1..Len(s) : s[j] \in ReportType
  OBVIOUS
<1> DEFINE n == Len(s)
           t == {Strength(s[j]) : j \in 1..n}
           m == Max(t)
           u == {j \in 1..n : Strength(s[j]) = m}
<1> HIDE DEF n
<1>2. n \in Nat /\ n # 0 /\ DOMAIN s = 1..n /\ \A j \in 1..n : s[j] \in ReportType
  BY <1>1 DEF n
<1>3. t \in SUBSET Strengths
  <2>1. ASSUME NEW j \in 1..n PROVE Strength(s[j]) \in Strengths
    <3>1. s[j] \in ReportType
      BY <1>2
    <3> QED BY <3>1, StrengthFacts
  <2> QED BY <2>1
<1>4. t # {}
  <2>1. 1 \in 1..n
    BY <1>2
  <2> QED BY <2>1
<1> HIDE DEF t
<1>5. m \in t /\ \A y \in t : y <= m
  <2> DEFINE most == 3100
  <2>1. most \in Nat /\ t \in SUBSET (0..most)
    BY <1>3 DEF Strengths
  <2> HIDE DEF most
  <2> QED BY <1>4, <2>1, BoundedMax
<1> HIDE DEF m
<1>6. u # {}
  BY <1>5 DEF t
<1>7. u \in SUBSET (0..n)
  BY <1>2
<1> HIDE DEF u
<1>8. Max(u) \in u /\ \A y \in u : y <= Max(u)
  BY <1>2, <1>6, <1>7, BoundedMax
<1> DEFINE Greatest(i) == /\ \A j \in DOMAIN s : Strength(s[j]) <= Strength(s[i])
                          /\ \A j \in DOMAIN s : j > i => Strength(s[j]) < Strength(s[i])
<1>9. Max(u) \in 1..n /\ Greatest(Max(u))
  <2>1. Max(u) \in 1..n /\ Strength(s[Max(u)]) = m
    BY <1>8 DEF u
  <2>2. \A j \in 1..n : Strength(s[j]) \in t
    BY DEF t
  <2>3. \A j \in 1..n : Strength(s[j]) <= m
    BY <1>5, <2>2
  <2>4. ASSUME NEW j \in 1..n, j > Max(u) PROVE Strength(s[j]) < m
    <3>1. j \notin u
      BY <1>2, <1>8, <2>1, <2>4
    <3>2. Strength(s[j]) # m
      BY <3>1 DEF u
    <3>3. Strength(s[j]) \in t /\ m \in t
      BY <1>5, <2>2
    <3>4. Strength(s[j]) \in Strengths /\ m \in Strengths
      BY <1>3, <3>3
    <3>5. Strength(s[j]) <= m
      BY <2>3
    <3> DEFINE x == Strength(s[j])
    <3>6. x \in Int /\ m \in Int /\ x # m /\ x <= m
      <4>1. \A y \in Strengths : y \in Int
        BY DEF Strengths
      <4> QED BY <3>2, <3>4, <3>5, <4>1
    <3> HIDE DEF x
    <3>7. x < m
      BY <3>6
    <3> QED BY <3>7 DEF x
  <2> QED BY <1>2, <2>1, <2>3, <2>4
<1>10. \E i \in DOMAIN s : Greatest(i)
  BY <1>2, <1>9
<1> DEFINE b == CHOOSE i \in DOMAIN s : Greatest(i)
<1>11. b \in DOMAIN s /\ Greatest(b)
  BY <1>10
<1>12. Strongest(s) = s[b]
  BY DEF Strongest, Strength
<1> HIDE DEF b
<1>13. b \in 1..Len(s) /\ \A j \in 1..Len(s) : Strength(s[j]) <= Strength(s[b])
  BY <1>1, <1>11
<1> QED BY <1>12, <1>13

\* A report's right to quarantine and to block.
Entitled(r, q, b) == [r EXCEPT !.quarantine = q, !.block = b]

\* Only those two fields change.
LEMMA EntitledReport ==
  ASSUME NEW r \in ReportType, NEW q, q \in BOOLEAN, NEW b, b \in BOOLEAN
  PROVE  LET s == Entitled(r, q, b) IN
         /\ s \in ReportType /\ s.verdict = r.verdict /\ s.completeness = r.completeness
         /\ s.truncated = r.truncated /\ s.sha256 = r.sha256 /\ s.quarantine = q
<1> DEFINE s == Entitled(r, q, b)
<1>1. s \in ReportType
  BY DEF ReportType, Entitled
<1>2. s.verdict = r.verdict /\ s.completeness = r.completeness /\ s.truncated = r.truncated
  BY DEF ReportType, Entitled
<1>3. s.sha256 = r.sha256 /\ s.quarantine = q
  BY DEF ReportType, Entitled
<1> QED BY <1>1, <1>2, <1>3

Convicts(s) == \E j \in 1..Len(s) : s[j].verdict = "Malicious"

\* The report takes over the strongest finding: it is malicious exactly when the
\* file was or a finding is.
LEMMA AdoptedFacts ==
  ASSUME NEW r \in ReportType, NEW s \in Seq(ReportType)
  PROVE  LET a == Adopted(r, s) IN
         /\ a \in ReportType /\ (Judged(r, a) \/ (r.verdict = "Error" /\ s # <<>>))
         /\ a.verdict = "Malicious" <=> r.verdict = "Malicious" \/ Convicts(s)
         /\ a.quarantine => r.quarantine \/ \E j \in 1..Len(s) : s[j].quarantine
<1>1. CASE s = <<>>
  <2>1. Adopted(r, s) = r
    BY <1>1 DEF Adopted
  <2>2. ~Convicts(s)
    BY <1>1 DEF Convicts
  <2> QED BY <2>1, <2>2 DEF Judged
<1>2. CASE s # <<>>
  <2> DEFINE f == Strongest(s)
             q == f.quarantine /\ r.sha256 /\ ~r.truncated
             v == f.verdict
             n == Highest(r.risk, f.risk)
             surest == Highest(r.confidence, 95)
             surer == Highest(r.confidence, 80)
             judged == IF v = "Malicious" THEN Revised(r, v, n, surest)
                       ELSE IF v = "Suspicious" /\ r.verdict = "Clean" THEN Revised(r, v, n, surer) ELSE r
             quarantine == judged.quarantine \/ q
             block == judged.block \/ f.block \/ r.quarantine \/ q
  <2>1. PICK b \in 1..Len(s) : f = s[b] /\ \A j \in 1..Len(s) : Strength(s[j]) <= Strength(f)
    BY <1>2, StrongestFacts
  <2> HIDE DEF f
  <2>2. f \in ReportType /\ \A j \in 1..Len(s) : s[j] \in ReportType
    BY <2>1
  <2>3. v = "Malicious" <=> Convicts(s)
    <3>1. v = "Malicious" => Convicts(s)
      BY <2>1 DEF Convicts
    <3>2. ASSUME NEW j \in 1..Len(s), s[j].verdict = "Malicious" PROVE v = "Malicious"
      <4>1. s[j] \in ReportType /\ Strength(s[j]) <= Strength(f)
        BY <2>1, <2>2
      <4>2. Strength(s[j]) >= 3000 /\ Strength(s[j]) \in Strengths /\ Strength(f) \in Strengths
        BY <2>2, <3>2, <4>1, StrengthFacts
      <4>3. Strength(f) >= 3000
        <5>1. \A x, y \in Strengths : x <= y /\ x >= 3000 => y >= 3000
          BY DEF Strengths
        <5> QED BY <4>1, <4>2, <5>1
      <4> QED BY <2>2, <4>3, StrengthFacts
    <3> QED BY <3>1, <3>2 DEF Convicts
  <2>4. v \in Verdicts /\ n \in Risks /\ surest \in Confidences /\ surer \in Confidences
    <3>1. /\ r.risk \in 0..100 /\ f.risk \in 0..100 /\ v \in Verdicts /\ r.confidence \in Confidences
      BY <2>2 DEF ReportType
    <3>2. 95 \in Nat /\ 80 \in Nat
      OBVIOUS
    <3> QED BY <3>1, <3>2, Raised, RaisedConfidence DEF Risks
  <2>5. Adopted(r, s) = Entitled(judged, quarantine, block)
    BY <1>2 DEF Adopted, Entitled, Revised, f
  <2> HIDE DEF v, n, surest, surer
  <2>6. /\ judged \in ReportType /\ judged.completeness = r.completeness
        /\ judged.truncated = r.truncated /\ judged.sha256 = r.sha256 /\ judged.quarantine = r.quarantine
        /\ judged.verdict = IF v = "Malicious" \/ (v = "Suspicious" /\ r.verdict = "Clean") THEN v
                            ELSE r.verdict
    BY <2>4, Changed
  <2>7. quarantine \in BOOLEAN /\ block \in BOOLEAN
    OBVIOUS
  <2>8. quarantine => r.quarantine \/ f.quarantine
    BY <2>6
  <2> HIDE DEF judged, quarantine, block
  <2> DEFINE a == Entitled(judged, quarantine, block)
  <2>9. /\ a \in ReportType /\ a.verdict = judged.verdict /\ a.completeness = judged.completeness
        /\ a.truncated = judged.truncated /\ a.sha256 = judged.sha256 /\ a.quarantine = quarantine
    BY <2>6, <2>7, EntitledReport
  <2> HIDE DEF a
  <2>10. Judged(r, a) \/ (r.verdict = "Error" /\ s # <<>>)
    BY <1>2, <2>4, <2>6, <2>9 DEF Judged, Verdicts
  <2>11. a.verdict = "Malicious" <=> r.verdict = "Malicious" \/ Convicts(s)
    BY <2>3, <2>6, <2>9
  <2>12. a.quarantine => r.quarantine \/ \E j \in 1..Len(s) : s[j].quarantine
    BY <2>1, <2>8, <2>9
  <2> QED BY <2>5, <2>9, <2>10, <2>11, <2>12 DEF a
<1> QED BY <1>1, <1>2

\* What a container's structure adds: suspicion, never a conviction.
LEMMA StructuredFacts ==
  ASSUME NEW r \in ReportType, NEW i \in InspType
  PROVE  LET s == Structured(r, i) IN
         /\ s \in ReportType /\ s.truncated = r.truncated /\ s.sha256 = r.sha256
         /\ s.quarantine = r.quarantine
         /\ s.verdict = r.verdict \/ (r.verdict = "Clean" /\ s.verdict = "Suspicious")
         /\ s.verdict = "Clean" => ~i.limit
         /\ s.completeness = "Complete" => r.completeness = "Complete" /\ ~i.incomplete
<1> DEFINE n == structural_risk_score(i)
           v == "Suspicious"
           c == 75
           up == n >= Threshold /\ r.verdict = "Clean"
           raised == IF up THEN Revised(r, v, n, c) ELSE r
<1>1. n \in Risks /\ v \in Verdicts /\ c \in Confidences
  BY DEF structural_risk_score, Risks, Verdicts, Confidences
<1>2. i.limit => n >= Threshold
  BY DEF structural_risk_score, Threshold
<1>3. Structured(r, i) = IF i.incomplete /\ raised.completeness = "Complete"
                         THEN [raised EXCEPT !.completeness = "ResourceLimitReached"] ELSE raised
  <2>1. raised.completeness = r.completeness
    BY <1>1, Changed
  <2> QED BY <2>1 DEF Structured, Revised
<1> HIDE DEF n, v, c
<1>4. /\ raised \in ReportType /\ raised.truncated = r.truncated /\ raised.sha256 = r.sha256
      /\ raised.quarantine = r.quarantine /\ raised.completeness = r.completeness
      /\ raised.verdict = IF up THEN v ELSE r.verdict
  BY <1>1, Changed
<1>5. /\ raised.verdict = r.verdict \/ (r.verdict = "Clean" /\ raised.verdict = "Suspicious")
      /\ raised.verdict = "Clean" => ~i.limit
  BY <1>2, <1>4 DEF v
<1> HIDE DEF raised
<1>6. CASE i.incomplete /\ raised.completeness = "Complete"
  <2> DEFINE s == [raised EXCEPT !.completeness = "ResourceLimitReached"]
  <2>1. "ResourceLimitReached" \in Completenesses
    BY DEF Completenesses
  <2>2. s \in ReportType
    BY <1>4, <2>1 DEF ReportType
  <2>3. s.truncated = raised.truncated /\ s.sha256 = raised.sha256 /\ s.quarantine = raised.quarantine
    BY <1>4 DEF ReportType
  <2>4. s.verdict = raised.verdict /\ s.completeness = "ResourceLimitReached"
    BY <1>4 DEF ReportType
  <2>5. Structured(r, i) = s
    BY <1>3, <1>6
  <2> HIDE DEF s
  <2> QED BY <1>4, <1>5, <2>2, <2>3, <2>4, <2>5
<1>7. CASE ~(i.incomplete /\ raised.completeness = "Complete")
  <2>1. Structured(r, i) = raised
    BY <1>3, <1>7
  <2> QED BY <1>4, <1>5, <1>7, <2>1
<1> QED BY <1>6, <1>7

-----------------------------------------------------------------------------
(* The steps of a walk.                                                    *)

\* A sample that is about to be analysed.
LEMMA NewLeaf ==
  ASSUME NEW b \in Blobs, NEW origin \in Origins, NEW part \in {"outer", "entry", "macro"}
  PROVE  LET l == Leaf(b, origin, part) IN
         /\ l \in LeafType /\ l.blob = b /\ l.origin = origin /\ l.part = part /\ l.native = "none"
         /\ l.fresh /\ l.md5 = (origin # "file" \/ wants_file_md5(Size(b)))
<1> DEFINE l == Leaf(b, origin, part)
           m == origin # "file" \/ wants_file_md5(Size(b))
<1>1. m \in BOOLEAN /\ TRUE \in BOOLEAN /\ FALSE \in BOOLEAN /\ {} \in SUBSET RuleMatches /\ {} \in SUBSET Nat
  OBVIOUS
<1>2. "none" \in Natives /\ None \in Statics \cup {None}
  BY DEF Natives
<1>3. l = [blob |-> b, origin |-> origin, part |-> part, md5 |-> m, fresh |-> TRUE, static |-> None,
           native |-> "none", rules |-> {}, failed |-> FALSE, similar |-> {}]
  BY DEF Leaf
<1> HIDE DEF l, m
<1>4. l \in LeafType
  BY <1>1, <1>2, <1>3 DEF LeafType
<1>5. /\ l.blob = b /\ l.origin = origin /\ l.part = part /\ l.native = "none" /\ l.fresh = TRUE
      /\ l.md5 = m
  BY <1>3
<1> QED BY <1>4, <1>5 DEF l, m

\* A container that is about to be walked.
LEMMA NewFrames ==
  ASSUME NEW kind \in Containers, NEW b \in Blobs, NEW depth \in Nat, NEW limit \in Nat
  PROVE  LET f == NewFrame(kind, b, depth, limit) IN
         /\ f \in FrameType /\ f.kind = kind /\ f.blob = b /\ f.next = 1 /\ f.depth = depth
         /\ f.limit = limit
<1>1. 1 \in Nat \ {0}
  OBVIOUS
<1> QED BY <1>1 DEF NewFrame, FrameType

\* An entry was analysed: it is left at that only if there is nothing in it, or
\* if the report says so.
Covered(j, b) ==
  Frame.kind = "Zip" /\ Kind(b) \in {"Zip", "OleCompound"} => j.limit \/ j.incomplete \/ ~Blob[b].opens
Descended(i, b) ==
  \E j :
    /\ Remarked(i, j)
    /\ \/ frames' = frames /\ insp' = Upd(j) /\ Covered(j, b)
       \/ /\ Frame.kind = "Zip" /\ Kind(b) = "Zip" /\ Frame.depth < MaxDepth /\ Blob[b].opens
          /\ insp' = Upd(j) /\ frames' = Append(frames, NewFrame("Zip", b, Frame.depth + 1, MaxExpanded))
       \/ /\ Frame.kind = "Zip" /\ Kind(b) = "OleCompound" /\ NestedLimit(i) # 0 /\ j = i
          /\ insp' = Append(Upd(i), OpenedOle(NewInspection, b))
          /\ frames' = Append(frames, NewFrame("OleCompound", b, 1, NestedLimit(i)))

\* So it is whenever the walk may descend.
LEMMA DescendFacts ==
  ASSUME NEW i \in InspType, NEW b \in Blobs, Descend(i, b)
  PROVE  Descended(i, b)
<1>1. Remarked(i, i)
  BY SilentNotes DEF Remarked
<1>2. CASE Frame.kind = "Zip" /\ Kind(b) = "Zip" /\ insp' = Upd([i EXCEPT !.limit = TRUE]) /\ UNCHANGED frames
  <2> DEFINE j == [i EXCEPT !.limit = TRUE]
  <2>1. Remarked(i, j) /\ j.limit
    BY SilentNotes DEF Remarked
  <2> HIDE DEF j
  <2> QED BY <1>2, <2>1 DEF Descended, Covered, j
<1>3. CASE /\ Frame.kind = "Zip" /\ Kind(b) = "Zip" /\ Frame.depth < MaxDepth /\ insp' = Upd(OpenedZip(i, b))
           /\ frames' = IF i.late \/ ~Blob[b].opens THEN frames
                        ELSE Append(frames, NewFrame("Zip", b, Frame.depth + 1, MaxExpanded))
  <2> DEFINE j == OpenedZip(i, b)
  <2>1. Remarked(i, j) /\ (i.late => j.incomplete)
    <3>1. Opened("Zip", i, b) = j
      BY DEF Opened
    <3> HIDE DEF j
    <3> QED BY <3>1, ContainersOpened
  <2> HIDE DEF j
  <2> QED BY <1>3, <2>1 DEF Descended, Covered, j
<1>4. CASE Frame.kind = "Zip" /\ Kind(b) = "OleCompound" /\ insp' = Upd([i EXCEPT !.incomplete = TRUE])
           /\ UNCHANGED frames
  <2> DEFINE j == [i EXCEPT !.incomplete = TRUE]
  <2>1. Remarked(i, j) /\ j.incomplete
    BY SilentNotes DEF Remarked
  <2> HIDE DEF j
  <2> QED BY <1>4, <2>1 DEF Descended, Covered, j
<1>5. CASE /\ Frame.kind = "Zip" /\ Kind(b) = "OleCompound" /\ NestedLimit(i) # 0
           /\ insp' = Append(Upd(i), OpenedOle(NewInspection, b))
           /\ frames' = Append(frames, NewFrame("OleCompound", b, 1, NestedLimit(i)))
  BY <1>1, <1>5 DEF Descended
<1>6. CASE ~(Frame.kind = "Zip" /\ Kind(b) \in {"Zip", "OleCompound"}) /\ insp' = Upd(i) /\ UNCHANGED frames
  BY <1>1, <1>6 DEF Descended, Covered
<1> QED BY <1>2, <1>3, <1>4, <1>5, <1>6 DEF Descend, Kind

\* A container is left: if something in it is left over, the report says so.
Left == \E i :
  /\ Remarked(Top, i) /\ (Ended \/ i.incomplete)
  /\ insp' = IF Len(insp) > 1 /\ Frame.kind = "OleCompound"
             THEN <<merge_nested_inspection(insp[1], i)>> ELSE Upd(i)

\* So every container is left.
LEMMA LeaveFacts ==
  ASSUME TypeInv, Len(insp) # 0, LeaveContainer PROVE Left
<1>1. Top \in InspType
  BY Innermost
<1> DEFINE i == IF ~Ended /\ Stopped THEN Cut(Top) ELSE Top
<1>2. Remarked(Top, i) /\ (Ended \/ i.incomplete)
  <2>1. CASE ~Ended /\ Stopped
    BY <1>1, <2>1, SilentNotes DEF Cut, Remarked
  <2>2. CASE ~(~Ended /\ Stopped)
    BY <1>1, <2>2, SilentNotes DEF LeaveContainer, Remarked
  <2> QED BY <2>1, <2>2
<1>3. insp' = IF Len(insp) > 1 /\ Frame.kind = "OleCompound"
              THEN <<merge_nested_inspection(insp[1], i)>> ELSE Upd(i)
  BY DEF LeaveContainer
<1> HIDE DEF i
<1> QED BY <1>2, <1>3 DEF Left

\* Time runs out: nothing else changes in the inspections.
LEMMA LapseFacts ==
  ASSUME TypeInv, Lapse
  PROVE  /\ insp' \in Seq(InspType) /\ Len(insp') = Len(insp)
         /\ \A k \in 1..Len(insp) : Remarked(insp[k], insp'[k])
<1>1. insp \in Seq(InspType) /\ DOMAIN insp = 1..Len(insp) /\ Len(insp) \in Nat
  BY DEF TypeInv
<1>2. PICK k \in DOMAIN insp :
        insp' = [j \in DOMAIN insp |-> IF j <= k THEN [insp[j] EXCEPT !.late = TRUE] ELSE insp[j]]
  BY DEF Lapse
<1>3. \A j \in 1..Len(insp) : insp'[j] = IF j <= k THEN [insp[j] EXCEPT !.late = TRUE] ELSE insp[j]
  BY <1>1, <1>2
<1>4. ASSUME NEW i \in InspType PROVE Remarked(i, [i EXCEPT !.late = TRUE]) /\ Remarked(i, i)
  <2>1. [i EXCEPT !.late = TRUE] \in InspType
    BY DEF InspType
  <2>2. Remarked(i, [i EXCEPT !.late = TRUE])
    BY <2>1 DEF Remarked, Silent, InspType
  <2> QED BY <2>2, SilentNotes DEF Remarked
<1>5. \A j \in 1..Len(insp) : insp[j] \in InspType
  BY <1>1
<1>6. \A j \in 1..Len(insp) : Remarked(insp[j], insp'[j])
  BY <1>3, <1>4, <1>5
<1>7. \A j \in 1..Len(insp) : insp'[j] \in InspType
  BY <1>6 DEF Remarked, Silent
<1>8. insp' \in [1..Len(insp) -> InspType]
  BY <1>1, <1>2, <1>7
<1> DEFINE n == Len(insp)
           s == insp'
<1> HIDE DEF n, s
<1>9. n \in Nat /\ s \in [1..n -> InspType]
  BY <1>1, <1>8 DEF n, s
<1>10. s \in Seq(InspType) /\ Len(s) = n
  BY <1>9
<1> QED BY <1>6, <1>10 DEF n, s

\* A container is opened, or there is none to be opened and the report stands.
WalkBegins(r) ==
  \E kind \in Containers :
    /\ stage' = "walk" /\ outer' = r /\ ~r.truncated
    /\ kind = Kind(leaf.blob) \/ (kind = "Zip" /\ Kind(leaf.blob) \notin Containers /\ Blob[leaf.blob].trailing)
    /\ insp' = <<Opened(kind, NewInspection, leaf.blob)>>
    /\ frames' = <<NewFrame(kind, leaf.blob, 1, MaxExpanded)>>
ReportStands(r) ==
  /\ Report(r, leaf.rules) /\ UNCHANGED <<frames, insp>>
  /\ \/ r.truncated
     \/ Kind(leaf.blob) \notin Containers /\ ~Blob[leaf.blob].trailing

\* One or the other is how the walk begins.
LEMMA StartFacts ==
  ASSUME TypeInv, stage = "amsi", NEW r, StartInspection(r)
  PROVE  WalkBegins(r) \/ ReportStands(r)
<1>1. leaf \in LeafType /\ leaf.static = ScanOf(leaf.blob, leaf.origin) /\ leaf.blob \in Blobs
  BY DEF TypeInv, LeafType
<1>2. leaf.static.content_type \in Containers \/ Kind(leaf.blob) \in Containers =>
        leaf.static.content_type = Kind(leaf.blob)
  BY <1>1, ScanFacts DEF IsStatic, Kind
<1> DEFINE shown == leaf.static.content_type
           kind == IF shown \notin Containers /\ Blob[leaf.blob].trailing THEN "Zip" ELSE shown
<1>3. CASE r.truncated \/ kind \notin Containers
  <2>1. Report(r, leaf.rules) /\ UNCHANGED <<frames, insp>>
    BY <1>3 DEF StartInspection
  <2> QED BY <1>2, <1>3, <2>1 DEF ReportStands, Containers
<1>4. CASE ~(r.truncated \/ kind \notin Containers)
  <2>1. /\ stage' = "walk" /\ outer' = r
        /\ insp' = <<Opened(kind, NewInspection, leaf.blob)>>
        /\ frames' = <<NewFrame(kind, leaf.blob, 1, MaxExpanded)>>
    BY <1>4 DEF StartInspection
  <2>2. kind \in Containers /\ ~r.truncated
    BY <1>4
  <2>3. kind = Kind(leaf.blob) \/ (kind = "Zip" /\ Kind(leaf.blob) \notin Containers /\ Blob[leaf.blob].trailing)
    BY <1>2, <2>2
  <2> HIDE DEF kind
  <2> QED BY <2>1, <2>2, <2>3 DEF WalkBegins
<1> QED BY <1>3, <1>4

-----------------------------------------------------------------------------
(* The walk keeps to its shape.                                            *)

ShapeInv == TypeInv /\ StageInv /\ StackInv

\* What an analysis has seen of the files before it: nothing.
LEMMA NothingSeen == Nothing \in SeenType
<1>1. {} \in SUBSET Blobs /\ FALSE \in BOOLEAN /\ 0 \in Nat
  OBVIOUS
<1> QED BY <1>1 DEF Nothing, SeenType

\* It starts like that.
LEMMA ShapeInit ==
  ASSUME Init PROVE ShapeInv
<1>1. /\ stage = "idle" /\ outer = None /\ frames = <<>> /\ insp = <<>> /\ seen = Nothing
  BY DEF Init
<1>2. <<>> \in Seq(FrameType) /\ <<>> \in Seq(InspType) /\ Len(<<>>) = 0
  OBVIOUS
<1>3. TypeInv
  BY <1>1, <1>2, NothingSeen DEF TypeInv, Stages
<1>4. StageInv
  BY <1>1 DEF StageInv, Sampling
<1>5. StackInv
  BY <1>1, <1>2 DEF StackInv
<1> QED BY <1>3, <1>4, <1>5 DEF ShapeInv

\* An analysis begins.
LEMMA ShapeSubmit ==
  ASSUME ShapeInv, NEW b \in Files, NEW origin \in Origins, Submit(b, origin)
  PROVE  ShapeInv'
<1>1. /\ job' = [blob |-> b, origin |-> origin, rules |-> {}] /\ leaf' = Leaf(b, origin, "outer")
      /\ stage' \in {"reading", "static"} /\ seen' = Nothing /\ outer' = None /\ frames' = <<>>
      /\ insp' = <<>>
  BY DEF Submit
<1>2. b \in Blobs /\ {} \in SUBSET RuleMatches
  BY DetectionAssumption
<1>3. leaf' \in LeafType /\ leaf'.blob = b /\ leaf'.part = "outer"
  BY <1>1, <1>2, NewLeaf
<1>4. job' \in JobType /\ job'.blob = b
  BY <1>1, <1>2 DEF JobType
<1>5. <<>> \in Seq(FrameType) /\ <<>> \in Seq(InspType) /\ Len(<<>>) = 0
  OBVIOUS
<1>6. TypeInv'
  BY <1>1, <1>3, <1>4, <1>5, NothingSeen DEF TypeInv, Stages, Sampling
<1>7. StageInv'
  BY <1>1, <1>3, <1>4 DEF StageInv, Sampling
<1>8. StackInv'
  BY <1>1, <1>5 DEF StackInv
<1> QED BY <1>6, <1>7, <1>8 DEF ShapeInv

\* An analysis ends.
LEMMA ShapeReport ==
  ASSUME ShapeInv, stage # "idle", NEW r, r \in ReportType, NEW rules, Report(r, rules),
         UNCHANGED <<leaf, frames, insp>>, job' \in JobType, seen' \in SeenType
  PROVE  ShapeInv'
<1>1. stage' = "done" /\ (outer' = amsi_submission(r, rules) \/ outer' = r)
  BY DEF Report
<1>2. outer' \in ReportType
  BY <1>1, Submitted DEF Judged
<1>3. leaf \in LeafType /\ frames \in Seq(FrameType) /\ insp \in Seq(InspType)
  BY DEF ShapeInv, TypeInv
<1>4. TypeInv'
  BY <1>1, <1>2, <1>3 DEF TypeInv, Stages, Sampling
<1>5. StageInv'
  BY <1>1, <1>2 DEF StageInv, Sampling
<1>6. StackInv'
  BY <1>1 DEF StackInv
<1> QED BY <1>4, <1>5, <1>6 DEF ShapeInv

\* It fails.
LEMMA ShapeFails ==
  ASSUME ShapeInv, ReadFails \/ Panic
  PROVE  ShapeInv'
<1>1. /\ stage # "idle" /\ Report(error, {}) /\ UNCHANGED <<job, leaf, frames, insp, seen>>
  BY DEF ReadFails, Panic
<1>2. job \in JobType /\ seen \in SeenType
  BY <1>1 DEF ShapeInv, TypeInv
<1>3. job' \in JobType /\ seen' \in SeenType
  BY <1>1, <1>2
<1>4. error \in ReportType
  BY ErrorReport
<1> QED BY <1>1, <1>3, <1>4, ShapeReport

\* Its report is handed over.
LEMMA ShapeDeliver ==
  ASSUME ShapeInv, Deliver
  PROVE  ShapeInv'
<1>1. stage' = "idle" /\ outer' = None /\ frames' = <<>> /\ insp' = <<>> /\ seen' = Nothing
  BY DEF Deliver
<1>2. <<>> \in Seq(FrameType) /\ <<>> \in Seq(InspType) /\ Len(<<>>) = 0
  OBVIOUS
<1>3. TypeInv'
  BY <1>1, <1>2, NothingSeen DEF TypeInv, Stages
<1>4. StageInv'
  BY <1>1 DEF StageInv, Sampling
<1>5. StackInv'
  BY <1>1, <1>2 DEF StackInv
<1> QED BY <1>3, <1>4, <1>5 DEF ShapeInv

\* The evidence about the sample grows.
LEMMA ShapeGathers ==
  ASSUME ShapeInv, Gathering
  PROVE  ShapeInv'
<1>1. Gathers /\ (stage # "idle" => LeafStays)
  BY GatherSteps DEF ShapeInv
<1>2. UNCHANGED <<job, outer, frames, insp, seen>>
  BY <1>1 DEF Gathers
<1>3. "idle" \notin Sampling /\ "done" \notin Sampling /\ "walk" \notin Sampling /\ "macro" \notin Sampling
      /\ {"index", "search", "rules", "amsi"} \subseteq Sampling /\ Sampling \subseteq Stages
  BY DEF Sampling, Stages
<1>4. TypeInv'
  <2>1. stage' \in Stages /\ (stage' = "idle" <=> stage = "idle")
    BY <1>1, <1>3 DEF Gathers, ShapeInv, TypeInv
  <2>2. stage' # "idle" => leaf' \in LeafType
    BY <1>1, <2>1 DEF LeafStays
  <2>3. stage' \in {"index", "search", "rules", "amsi"} => leaf'.static = ScanOf(leaf'.blob, leaf'.origin)
    BY <1>1, <2>1 DEF LeafStays
  <2> QED BY <1>2, <2>1, <2>2, <2>3 DEF TypeInv, ShapeInv
<1>5. StageInv'
  <2>1. /\ stage' \in Sampling <=> stage \in Sampling
        /\ stage' \notin Sampling => stage' = stage
        /\ stage' = "reading" => stage = "reading"
    BY <1>1 DEF Gathers
  <2>2. CASE stage' \in Sampling
    <3>1. stage # "idle" /\ stage \in Sampling /\ stage' # "idle" /\ stage' # "done" /\ stage' # "walk"
          /\ stage' # "macro"
      BY <1>3, <2>1, <2>2
    <3>2. leaf'.blob = leaf.blob /\ leaf'.part = leaf.part
      BY <1>1, <3>1 DEF Gathers
    <3>3. Frame' = Frame
      BY <1>2 DEF Frame
    <3> QED BY <1>2, <2>1, <2>2, <3>1, <3>2, <3>3 DEF StageInv, ShapeInv
  <2>3. CASE stage' \notin Sampling
    <3>1. stage' = stage /\ stage \notin Sampling /\ stage # "reading"
      BY <2>1, <2>3 DEF Sampling
    <3>2. Frame' = Frame
      BY <1>2 DEF Frame
    <3>3. stage # "idle" => leaf'.blob = leaf.blob
      BY <1>1 DEF Gathers
    <3> QED BY <1>2, <3>1, <3>2, <3>3 DEF StageInv, ShapeInv
  <2> QED BY <2>2, <2>3
<1>6. StackInv'
  <2>1. stage' # "done" => stage # "done"
    BY <1>1, <1>3 DEF Gathers
  <2>2. Frame' = Frame
    BY <1>2 DEF Frame
  <2> QED BY <1>2, <2>1, <2>2 DEF StackInv, ShapeInv
<1> QED BY <1>4, <1>5, <1>6 DEF ShapeInv

\* The containers that are open stay the same.
SameStack == /\ frames' \in Seq(FrameType) /\ Len(frames') = Len(frames)
             /\ insp' \in Seq(InspType) /\ Len(insp') = Len(insp)
             /\ \A k \in 1..Len(frames) : /\ frames'[k].kind = frames[k].kind
                                          /\ frames'[k].blob = frames[k].blob
                                          /\ frames'[k].depth = frames[k].depth

\* Then what is nested in what stays the same.
LEMMA StackStays ==
  ASSUME ShapeInv, stage # "done", SameStack
  PROVE  /\ StackInv'
         /\ Len(frames) # 0 => Frame'.kind = Frame.kind
<1>1. frames \in Seq(FrameType) /\ Len(frames) \in Nat
  BY DEF ShapeInv, TypeInv
<1>2. Len(frames) # 0 => Len(frames) \in 1..Len(frames)
  BY <1>1
<1>3. Len(frames) # 0 => Frame'.kind = Frame.kind /\ Frame'.blob = Frame.blob
  BY <1>2 DEF SameStack, Frame
<1>4. /\ Len(insp) <= 2
      /\ \A i \in 1..Len(frames) : frames[i].kind = "Zip" => frames[i].depth = i /\ i <= MaxDepth
      /\ \A i \in 1..Len(frames) : i < Len(frames) => frames[i].kind = "Zip"
      /\ Len(frames) # 0 => Len(insp) # 0 /\ (Frame.kind = "Gzip" => Len(frames) = 1 /\ Kind(Frame.blob) = "Gzip")
      /\ Len(insp) = 2 <=> Len(frames) > 1 /\ Frame.kind = "OleCompound"
  BY DEF ShapeInv, StackInv
<1>5. Len(frames) > 1 => Len(frames) # 0
  BY <1>1
<1>6. Kind(Frame'.blob) = Blob[Frame'.blob].shape.kind /\ Kind(Frame.blob) = Blob[Frame.blob].shape.kind
  BY DEF Kind
<1>7. StackInv'
  BY <1>3, <1>4, <1>5 DEF StackInv, SameStack, Kind
<1> QED BY <1>3, <1>7

\* A macro's source is taken up, if it can be decompressed.
LEMMA MacroTaken ==
  ASSUME DecompressMacro, leaf.blob \in Blobs
  PROVE  \/ leaf' = leaf /\ stage' = "walk" /\ ~decompresses(leaf.blob)
         \/ /\ leaf' = Leaf(Blob[leaf.blob].macro, "bytes", "macro") /\ stage' = "static"
            /\ Blob[leaf.blob].macro \in Blobs /\ decompresses(leaf.blob)
<1>1. Blob[leaf.blob].macro \in Blobs \cup {None}
  BY BlobAssumption
<1> QED BY <1>1 DEF DecompressMacro, decompresses

\* So the walk keeps its shape.
LEMMA ShapeMacro ==
  ASSUME ShapeInv, DecompressMacro
  PROVE  ShapeInv'
<1>1. stage = "macro" /\ UNCHANGED <<job, outer, frames, insp, seen>>
  BY DEF DecompressMacro
<1>2. leaf \in LeafType /\ leaf.blob \in Blobs
  BY <1>1 DEF ShapeInv, TypeInv, LeafType
<1>3. \/ leaf' = leaf /\ stage' = "walk"
      \/ /\ leaf' = Leaf(Blob[leaf.blob].macro, "bytes", "macro") /\ stage' = "static"
         /\ Blob[leaf.blob].macro \in Blobs
  BY <1>2, MacroTaken
<1>4. leaf' \in LeafType /\ (stage' = "static" => leaf'.part = "macro")
  BY <1>2, <1>3, NewLeaf DEF Origins
<1>5. TypeInv'
  BY <1>1, <1>3, <1>4 DEF ShapeInv, TypeInv, Stages, Sampling
<1>6. Frame' = Frame /\ "macro" \notin Sampling /\ "walk" \notin Sampling
  BY <1>1 DEF Frame, Sampling
<1>7. StageInv'
  BY <1>1, <1>3, <1>4, <1>6 DEF ShapeInv, StageInv, Sampling
<1>8. StackInv'
  BY <1>1, <1>6 DEF ShapeInv, StackInv
<1> QED BY <1>5, <1>7, <1>8 DEF ShapeInv

\* Time runs out.
LEMMA ShapeLapse ==
  ASSUME ShapeInv, Lapse
  PROVE  ShapeInv'
<1>1. stage = "walk" /\ UNCHANGED <<job, stage, leaf, outer, frames, seen>>
  BY DEF Lapse
<1>2. insp' \in Seq(InspType) /\ Len(insp') = Len(insp)
  BY LapseFacts DEF ShapeInv
<1>3. frames \in Seq(FrameType)
  BY DEF ShapeInv, TypeInv
<1>4. SameStack
  BY <1>1, <1>2, <1>3 DEF SameStack
<1>5. TypeInv'
  BY <1>1, <1>2 DEF ShapeInv, TypeInv
<1>6. StageInv'
  <2>1. stage \notin Sampling /\ stage \notin {"idle", "reading", "macro", "done"}
    BY <1>1 DEF Sampling
  <2> QED BY <1>1, <1>2, <2>1 DEF ShapeInv, StageInv
<1>7. StackInv'
  BY <1>1, <1>4, StackStays
<1> QED BY <1>5, <1>6, <1>7 DEF ShapeInv

\* The walk takes a step.
LEMMA ShapeWalk ==
  ASSUME ShapeInv, WalkStep
  PROVE  ShapeInv'
<1>1. /\ stage = "walk" /\ Len(frames) # 0 /\ Len(insp) # 0 /\ UNCHANGED <<job, outer, seen>>
      /\ frames' = Advanced
  BY DEF WalkStep
<1>2. PICK i : Progress(i) /\ insp' = Upd(i) /\ (Passed(i) \/ Taken(i))
  BY DEF WalkStep
<1>3. insp' \in Seq(InspType) /\ Len(insp') = Len(insp)
  BY <1>1, <1>2, UpdFacts DEF ShapeInv, Progress
<1>4. TypeInv /\ frames \in Seq(FrameType) /\ Len(frames) \in 1..Len(frames)
  BY <1>1, Innermost DEF ShapeInv, TypeInv
<1>5. SameStack
  <2>1. /\ Advanced \in Seq(FrameType) /\ Len(Advanced) = Len(frames) /\ Advanced[Len(frames)] = NextFrame
        /\ \A k \in 1..Len(frames) : k # Len(frames) => Advanced[k] = frames[k]
        /\ NextFrame.kind = Frame.kind /\ NextFrame.blob = Frame.blob /\ NextFrame.depth = Frame.depth
    BY <1>1, <1>4, AdvancedFacts
  <2> QED BY <1>1, <1>3, <2>1 DEF SameStack, Frame
<1>6. \/ leaf' = leaf /\ stage' = "walk"
      \/ leaf' = Leaf(Entry.blob, "bytes", "entry") /\ stage' = "static" /\ Entry.blob \in Blobs
  BY <1>1, <1>2 DEF Passed, Taken
<1>7. leaf' \in LeafType /\ (stage' = "static" => leaf'.part = "entry")
  BY <1>1, <1>4, <1>6, NewLeaf DEF TypeInv, Origins
<1>8. job \in JobType /\ outer \in ReportType /\ seen \in SeenType
  BY <1>1 DEF ShapeInv, TypeInv, StageInv
<1>9. TypeInv'
  BY <1>1, <1>3, <1>5, <1>6, <1>7, <1>8 DEF TypeInv, Stages, Sampling, SameStack
<1>10. StageInv'
  <2>1. Len(frames') # 0 /\ Len(insp') # 0
    BY <1>1, <1>5 DEF SameStack
  <2> QED BY <1>1, <1>6, <1>7, <1>8, <2>1 DEF StageInv, Sampling
<1>11. StackInv'
  BY <1>1, <1>5, StackStays
<1> QED BY <1>9, <1>10, <1>11 DEF ShapeInv

\* A container's loop ends.
LEMMA ShapeLeave ==
  ASSUME ShapeInv, LeaveContainer
  PROVE  ShapeInv'
<1>1. /\ stage = "walk" /\ frames # <<>> /\ UNCHANGED <<job, stage, leaf, outer, seen>>
      /\ frames' = SubSeq(frames, 1, Len(frames) - 1)
  BY DEF LeaveContainer
<1>2. frames \in Seq(FrameType) /\ insp \in Seq(InspType) /\ Len(insp) # 0 /\ outer \in ReportType
  BY <1>1 DEF ShapeInv, TypeInv, StageInv
<1>3. Len(frames) # 0 /\ Len(frames) \in Nat /\ Len(insp) \in Nat
  BY <1>1, <1>2
<1>4. /\ frames' \in Seq(FrameType) /\ Len(frames') = Len(frames) - 1
      /\ \A k \in 1..Len(frames') : frames'[k] = frames[k]
  BY <1>1, <1>2, <1>3, DropLast
<1>5. PICK i : /\ Remarked(Top, i)
               /\ insp' = IF Len(insp) > 1 /\ Frame.kind = "OleCompound"
                          THEN <<merge_nested_inspection(insp[1], i)>> ELSE Upd(i)
  BY <1>2, LeaveFacts DEF ShapeInv, Left
<1>6. i \in InspType /\ insp[1] \in InspType
  BY <1>2, <1>3, <1>5 DEF Remarked, Silent
<1>7. insp' \in Seq(InspType) /\ Len(insp') = 1
  <2>1. CASE Len(insp) > 1 /\ Frame.kind = "OleCompound"
    <3> DEFINE m == merge_nested_inspection(insp[1], i)
    <3>1. m \in InspType
      BY <1>6, Merged
    <3> HIDE DEF m
    <3>2. insp' = <<m>>
      BY <1>5, <2>1 DEF m
    <3> QED BY <3>1, <3>2
  <2>2. CASE ~(Len(insp) > 1 /\ Frame.kind = "OleCompound")
    <3>1. Len(insp) = 1
      <4>1. Len(insp) <= 2 /\ (Len(insp) = 2 => Frame.kind = "OleCompound")
        BY <1>1 DEF ShapeInv, StackInv
      <4> DEFINE n == Len(insp)
      <4>2. n \in Nat /\ n # 0 /\ n <= 2 /\ n # 2
        <5>1. n = 2 => n > 1
          OBVIOUS
        <5> QED BY <1>2, <1>3, <2>2, <4>1, <5>1
      <4> HIDE DEF n
      <4>3. n = 1
        BY <4>2
      <4> QED BY <4>3 DEF n
    <3>2. Upd(i) \in Seq(InspType) /\ Len(Upd(i)) = Len(insp)
      BY <1>2, <1>6, UpdFacts DEF ShapeInv
    <3> QED BY <1>5, <2>2, <3>1, <3>2
  <2> QED BY <2>1, <2>2
<1>8. TypeInv'
  BY <1>1, <1>4, <1>7 DEF ShapeInv, TypeInv
<1>9. StageInv'
  BY <1>1, <1>2, <1>7 DEF StageInv, Sampling
<1>10. StackInv'
  <2>1. /\ \A k \in 1..Len(frames) : frames[k].kind = "Zip" => frames[k].depth = k /\ k <= MaxDepth
        /\ \A k \in 1..Len(frames) : k < Len(frames) => frames[k].kind = "Zip"
    BY <1>1 DEF ShapeInv, StackInv
  <2>2. \A k \in 1..Len(frames') : k \in 1..Len(frames) /\ k < Len(frames)
    BY <1>3, <1>4
  <2>3. \A k \in 1..Len(frames') : /\ frames'[k].kind = "Zip"
                                   /\ frames'[k].depth = k /\ k <= MaxDepth
    BY <1>4, <2>1, <2>2
  <2>4. Len(frames') # 0 => Frame'.kind = "Zip"
    <3>1. Len(frames') # 0 => Len(frames') \in 1..Len(frames')
      BY <1>3, <1>4
    <3> QED BY <2>3, <3>1 DEF Frame
  <2>5. Len(frames') > 1 => Len(frames') # 0
    BY <1>3, <1>4
  <2> QED BY <1>7, <2>3, <2>4, <2>5 DEF StackInv
<1> QED BY <1>8, <1>9, <1>10 DEF ShapeInv

\* The walk is over.
LEMMA ShapeEnds ==
  ASSUME ShapeInv, EndInspection
  PROVE  ShapeInv'
<1>1. /\ stage = "walk" /\ UNCHANGED <<job, leaf, frames, insp, seen>>
      /\ Report(Structured(Adopted(outer, insp[1].findings), insp[1]), job.rules)
  BY DEF EndInspection
<1>2. insp \in Seq(InspType) /\ Len(insp) # 0 /\ outer \in ReportType /\ job \in JobType /\ seen \in SeenType
  BY <1>1 DEF ShapeInv, TypeInv, StageInv
<1>3. insp[1] \in InspType
  BY <1>2
<1>4. insp[1].findings \in Seq(ReportType)
  BY <1>3 DEF InspType
<1> DEFINE a == Adopted(outer, insp[1].findings)
           r == Structured(a, insp[1])
<1>5. a \in ReportType
  BY <1>2, <1>4, AdoptedFacts
<1> HIDE DEF a
<1>6. r \in ReportType
  BY <1>3, <1>5, StructuredFacts
<1>7. stage # "idle" /\ Report(r, job.rules) /\ job' \in JobType /\ seen' \in SeenType
  BY <1>1, <1>2 DEF a
<1> HIDE DEF r
<1> QED BY <1>1, <1>6, <1>7, ShapeReport

\* The end of one sample's analysis, as its report has it.
Noticed(r) ==
  seen' = [blobs |-> seen.blobs \cup {leaf.blob},
           malicious |-> seen.malicious \/ r.verdict = "Malicious",
           flagged |-> seen.flagged + IF leaf.part # "outer" /\ r.verdict # "Clean" THEN 1 ELSE 0,
           identified |-> seen.identified \/ r.quarantine]
OuterEnds(r) == /\ leaf.part = "outer" /\ (WalkBegins(r) \/ ReportStands(r))
                /\ job' = [job EXCEPT !.rules = leaf.rules]
EntryEnds(r) == /\ leaf.part = "entry" /\ Descended(record_finding(Top, r), leaf.blob)
                /\ stage' = IF Frame.kind = "OleCompound" /\ is_vba(LastEntry) THEN "macro" ELSE "walk"
                /\ UNCHANGED <<outer, job>>
MacroEnds(r) == /\ leaf.part = "macro" /\ insp' = Upd(record_finding(Top, r)) /\ stage' = "walk"
                /\ UNCHANGED <<outer, job, frames>>

\* One sample ends in one of these ways, with a report of its own.
LEMMA LeafEnds ==
  ASSUME ShapeInv, FinishLeaf
  PROVE  /\ stage = "amsi" /\ leaf' = leaf /\ leaf \in LeafType /\ leaf.blob \in Blobs
         /\ leaf.part # "outer" => Len(frames) # 0 /\ Len(insp) # 0 /\ Top \in InspType /\ outer \in ReportType
         /\ \E r : /\ IsLeafReport(r) /\ Noticed(r) /\ seen' \in SeenType
                   /\ OuterEnds(r) \/ EntryEnds(r) \/ MacroEnds(r)
<1>1. stage = "amsi" /\ leaf' = leaf
  BY DEF FinishLeaf
<1>2. TypeInv /\ leaf \in LeafType /\ leaf.blob \in Blobs /\ seen \in SeenType
  BY <1>1 DEF ShapeInv, TypeInv, LeafType
<1>3. leaf.part # "outer" => Len(frames) # 0 /\ Len(insp) # 0 /\ outer \in ReportType
  BY <1>1 DEF ShapeInv, StageInv, Sampling
<1>4. leaf.part # "outer" => Top \in InspType
  BY <1>2, <1>3, Innermost
<1>5. PICK amsi : LET r == Resolved(amsi) IN
       /\ Noticed(r)
       /\ \/ /\ leaf.part = "outer" /\ StartInspection(r)
             /\ job' = [job EXCEPT !.rules = leaf.rules]
          \/ /\ leaf.part = "entry"
             /\ Descend(record_finding(Top, r), leaf.blob)
             /\ stage' = IF Frame.kind = "OleCompound" /\ is_vba(LastEntry) THEN "macro" ELSE "walk"
             /\ UNCHANGED <<outer, job>>
          \/ /\ leaf.part = "macro"
             /\ insp' = Upd(record_finding(Top, r)) /\ stage' = "walk"
             /\ UNCHANGED <<outer, job, frames>>
  BY DEF FinishLeaf, Noticed
<1> DEFINE r == Resolved(amsi)
<1>6. IsLeafReport(r)
  BY <1>1, <1>2, ResolvedReport
<1> HIDE DEF r
<1>7. Noticed(r)
  BY <1>5 DEF r
<1>8. seen' \in SeenType
  <2> DEFINE m == seen.malicious \/ r.verdict = "Malicious"
             q == seen.identified \/ r.quarantine
             n == seen.flagged + IF leaf.part # "outer" /\ r.verdict # "Clean" THEN 1 ELSE 0
  <2>1. m \in BOOLEAN /\ q \in BOOLEAN /\ n \in Nat /\ seen.blobs \cup {leaf.blob} \in SUBSET Blobs
    BY <1>2 DEF SeenType
  <2>2. seen' = [blobs |-> seen.blobs \cup {leaf.blob}, malicious |-> m, flagged |-> n, identified |-> q]
    BY <1>7 DEF Noticed
  <2> HIDE DEF m, q, n
  <2> QED BY <2>1, <2>2 DEF SeenType
<1>9. CASE leaf.part = "outer" /\ StartInspection(r) /\ job' = [job EXCEPT !.rules = leaf.rules]
  <2>1. WalkBegins(r) \/ ReportStands(r)
    BY <1>1, <1>2, <1>9, StartFacts
  <2>2. OuterEnds(r)
    BY <1>9, <2>1 DEF OuterEnds
  <2> QED BY <1>1, <1>2, <1>3, <1>4, <1>6, <1>7, <1>8, <2>2
<1>10. CASE /\ leaf.part = "entry"
            /\ Descend(record_finding(Top, r), leaf.blob)
            /\ stage' = IF Frame.kind = "OleCompound" /\ is_vba(LastEntry) THEN "macro" ELSE "walk"
            /\ UNCHANGED <<outer, job>>
  <2> DEFINE i == record_finding(Top, r)
  <2>1. i \in InspType
    BY <1>4, <1>6, <1>10, FindingRecorded DEF IsLeafReport
  <2> HIDE DEF i
  <2>2. Descended(i, leaf.blob)
    BY <1>2, <1>10, <2>1, DescendFacts DEF i
  <2>3. EntryEnds(r)
    BY <1>10, <2>2 DEF EntryEnds, i
  <2> QED BY <1>1, <1>2, <1>3, <1>4, <1>6, <1>7, <1>8, <2>3
<1>11. CASE /\ leaf.part = "macro"
            /\ insp' = Upd(record_finding(Top, r)) /\ stage' = "walk"
            /\ UNCHANGED <<outer, job, frames>>
  <2>1. MacroEnds(r)
    BY <1>11 DEF MacroEnds
  <2> QED BY <1>1, <1>2, <1>3, <1>4, <1>6, <1>7, <1>8, <2>1
<1> QED BY <1>5, <1>9, <1>10, <1>11 DEF r

\* The file itself has been looked at.
LEMMA ShapeOuter ==
  ASSUME ShapeInv, stage = "amsi", leaf' = leaf, NEW r, IsLeafReport(r), OuterEnds(r),
         seen' \in SeenType
  PROVE  ShapeInv'
<1>1. leaf \in LeafType /\ leaf.blob \in Blobs /\ job \in JobType
  BY DEF ShapeInv, TypeInv, LeafType
<1>2. job' \in JobType
  <2>1. leaf.rules \in SUBSET RuleMatches
    BY <1>1 DEF LeafType
  <2> QED BY <1>1, <2>1 DEF OuterEnds, JobType
<1>3. r \in ReportType
  BY DEF IsLeafReport
<1>4. CASE ReportStands(r)
  <2>1. Report(r, leaf.rules) /\ UNCHANGED <<leaf, frames, insp>>
    BY <1>4 DEF ReportStands
  <2> QED BY <1>2, <1>3, <2>1, ShapeReport
<1>5. CASE WalkBegins(r)
  <2>1. PICK kind \in Containers :
    /\ stage' = "walk" /\ outer' = r
    /\ kind = Kind(leaf.blob) \/ (kind = "Zip" /\ Kind(leaf.blob) \notin Containers /\ Blob[leaf.blob].trailing)
    /\ insp' = <<Opened(kind, NewInspection, leaf.blob)>>
    /\ frames' = <<NewFrame(kind, leaf.blob, 1, MaxExpanded)>>
    BY <1>5 DEF WalkBegins
  <2> DEFINE i == Opened(kind, NewInspection, leaf.blob)
             f == NewFrame(kind, leaf.blob, 1, MaxExpanded)
  <2>2. i \in InspType
    BY <1>1, NewInspections, ContainersOpened DEF Remarked, Silent
  <2>3. f \in FrameType /\ f.kind = kind /\ f.blob = leaf.blob /\ f.depth = 1
    <3>1. 1 \in Nat /\ MaxExpanded \in Nat
      BY DetectionAssumption
    <3> DEFINE first == 1
    <3>2. first \in Nat
      OBVIOUS
    <3> HIDE DEF first
    <3>3. LET g == NewFrame(kind, leaf.blob, first, MaxExpanded) IN
          g \in FrameType /\ g.kind = kind /\ g.blob = leaf.blob /\ g.depth = first
      BY <1>1, <3>1, <3>2, NewFrames
    <3> QED BY <3>3 DEF first
  <2> HIDE DEF i, f
  <2>4. insp' = <<i>> /\ frames' = <<f>>
    BY <2>1 DEF i, f
  <2>5. /\ insp' \in Seq(InspType) /\ Len(insp') = 1 /\ frames' \in Seq(FrameType) /\ Len(frames') = 1
        /\ \A k \in 1..Len(frames') : k = 1 /\ frames'[k] = f
    BY <2>2, <2>3, <2>4
  <2>6. Frame' = f
    BY <2>4 DEF Frame
  <2>7. TypeInv'
    BY <1>1, <1>2, <1>3, <2>1, <2>5 DEF TypeInv, Stages
  <2>8. StageInv'
    BY <1>3, <2>1, <2>5 DEF StageInv, Sampling
  <2>9. StackInv'
    <3>1. 1 <= MaxDepth
      BY DetectionAssumption
    <3> QED BY <2>1, <2>3, <2>5, <2>6, <3>1 DEF StackInv, Kind, Containers
  <2> QED BY <2>7, <2>8, <2>9 DEF ShapeInv
<1> QED BY <1>4, <1>5 DEF OuterEnds

\* A macro's source has been looked at.
LEMMA ShapeMacroEnds ==
  ASSUME ShapeInv, stage = "amsi", leaf' = leaf, NEW r, IsLeafReport(r), MacroEnds(r),
         seen' \in SeenType,
         Len(frames) # 0, Len(insp) # 0, Top \in InspType, outer \in ReportType
  PROVE  ShapeInv'
<1> DEFINE i == record_finding(Top, r)
<1>1. i \in InspType
  BY FindingRecorded DEF IsLeafReport
<1>2. insp' = Upd(i) /\ stage' = "walk" /\ UNCHANGED <<outer, job, frames>>
  BY DEF MacroEnds
<1> HIDE DEF i
<1>3. insp' \in Seq(InspType) /\ Len(insp') = Len(insp)
  BY <1>1, <1>2, UpdFacts DEF ShapeInv
<1>4. leaf \in LeafType /\ job \in JobType /\ frames \in Seq(FrameType)
  BY DEF ShapeInv, TypeInv
<1>5. TypeInv'
  BY <1>2, <1>3, <1>4 DEF TypeInv, Stages
<1>6. StageInv'
  BY <1>2, <1>3 DEF StageInv, Sampling
<1>7. SameStack
  BY <1>2, <1>3, <1>4 DEF SameStack
<1>8. StackInv'
  BY <1>7, StackStays
<1> QED BY <1>5, <1>6, <1>8 DEF ShapeInv

Grown(f) == frames' = Append(frames, f)
\* The stack grows by one container.
LEMMA ShapeEntryEnds ==
  ASSUME ShapeInv, stage = "amsi", leaf' = leaf, NEW r, IsLeafReport(r), EntryEnds(r),
         seen' \in SeenType,
         Len(frames) # 0, Len(insp) # 0, Top \in InspType, outer \in ReportType
  PROVE  ShapeInv'
<1> DEFINE i == record_finding(Top, r)
           b == leaf.blob
           n == Len(frames)
<1>1. i \in InspType
  BY FindingRecorded DEF IsLeafReport
<1>2. UNCHANGED <<outer, job>> /\ Descended(i, b)
      /\ stage' = IF Frame.kind = "OleCompound" /\ is_vba(LastEntry) THEN "macro" ELSE "walk"
  BY DEF EntryEnds
<1> HIDE DEF i
<1>3. leaf \in LeafType /\ b \in Blobs /\ job \in JobType /\ frames \in Seq(FrameType) /\ insp \in Seq(InspType)
  BY DEF ShapeInv, TypeInv, LeafType
<1>4. Frame \in FrameType /\ n \in Nat /\ n # 0 /\ n \in 1..n /\ Frame = frames[n]
  BY Innermost DEF ShapeInv
<1>5. /\ \A k \in 1..n : frames[k].kind = "Zip" => frames[k].depth = k /\ k <= MaxDepth
      /\ \A k \in 1..n : k < n => frames[k].kind = "Zip"
      /\ Len(insp) <= 2 /\ (Len(insp) = 2 => Frame.kind = "OleCompound")
  BY DEF ShapeInv, StackInv
<1> HIDE DEF n
<1>6. ASSUME NEW j, Remarked(i, j), frames' = frames, insp' = Upd(j) PROVE ShapeInv'
  <2>1. j \in InspType
    BY <1>6 DEF Remarked, Silent
  <2>2. insp' \in Seq(InspType) /\ Len(insp') = Len(insp)
    BY <1>6, <2>1, UpdFacts DEF ShapeInv
  <2>3. TypeInv'
    BY <1>2, <1>3, <1>6, <2>2 DEF TypeInv, Stages
  <2>4. Frame' = Frame
    BY <1>6 DEF Frame
  <2>5. StageInv'
    BY <1>2, <1>6, <2>2, <2>4 DEF StageInv, Sampling
  <2>6. SameStack
    BY <1>3, <1>6, <2>2 DEF SameStack
  <2>7. StackInv'
    BY <2>6, StackStays
  <2> QED BY <2>3, <2>5, <2>7 DEF ShapeInv
<1>7. ASSUME NEW f \in FrameType, Grown(f), insp' \in Seq(InspType), Frame.kind = "Zip",
             f.kind = "Zip" => f.depth = Frame.depth + 1 /\ Frame.depth < MaxDepth,
             f.kind # "Gzip", Len(insp') \in {1, 2}, Len(insp') = 2 <=> f.kind = "OleCompound"
      PROVE  ShapeInv'
  <2>1. /\ frames' \in Seq(FrameType) /\ Len(frames') = n + 1 /\ frames'[n + 1] = f
        /\ \A k \in 1..n : frames'[k] = frames[k]
    BY <1>3, <1>7, AddLast DEF n, Grown
  <2>2. Frame' = f
    BY <2>1 DEF Frame
  <2>3. \A k \in 1..(n + 1) : k \in 1..n \/ k = n + 1
    BY <1>4
  <2>4. stage' = "walk" /\ Len(insp') # 0
    <3>1. Frame.kind # "OleCompound"
      BY <1>7
    <3>2. Len(insp') # 0
      BY <1>7
    <3> QED BY <1>2, <3>1, <3>2
  <2>5. TypeInv'
    BY <1>2, <1>3, <1>7, <2>1, <2>4 DEF TypeInv, Stages
  <2>6. StageInv'
    BY <1>2, <2>4 DEF StageInv, Sampling
  <2>7. Frame.depth = n /\ n <= MaxDepth
    BY <1>4, <1>5, <1>7
  <2>8. f.kind = "Zip" => f.depth = n + 1 /\ n + 1 <= MaxDepth
    <3>1. MaxDepth \in Nat
      BY DetectionAssumption
    <3> QED BY <1>4, <1>7, <2>7, <3>1
  <2>9. \A k \in 1..Len(frames') : frames'[k].kind = "Zip" => frames'[k].depth = k /\ k <= MaxDepth
    BY <1>5, <2>1, <2>3, <2>8
  <2>10. \A k \in 1..Len(frames') : k < Len(frames') => frames'[k].kind = "Zip"
    <3>1. \A k \in 1..(n + 1) : k < n + 1 => k \in 1..n
      BY <1>4
    <3>2. \A k \in 1..n : frames[k].kind = "Zip"
      <4>1. \A k \in 1..n : k < n \/ k = n
        BY <1>4
      <4> QED BY <1>4, <1>5, <1>7, <4>1
    <3> QED BY <2>1, <3>1, <3>2
  <2>11. Len(frames') > 1 /\ Len(frames') # 0
    BY <1>4, <2>1
  <2>12. StackInv'
    <3>1. f.kind # "Gzip" /\ Len(insp') <= 2
      <4> DEFINE m == Len(insp')
      <4>1. f.kind # "Gzip" /\ m \in {1, 2}
        BY <1>7
      <4> HIDE DEF m
      <4>2. m <= 2
        BY <4>1
      <4> QED BY <4>1, <4>2 DEF m
    <3>2. Len(insp') = 2 <=> f.kind = "OleCompound"
      BY <1>7
    <3> QED BY <2>2, <2>4, <2>9, <2>10, <2>11, <3>1, <3>2 DEF StackInv
  <2> QED BY <2>5, <2>6, <2>12 DEF ShapeInv
<1>8. PICK j : /\ Remarked(i, j)
    /\ \/ frames' = frames /\ insp' = Upd(j) /\ Covered(j, b)
       \/ /\ Frame.kind = "Zip" /\ Kind(b) = "Zip" /\ Frame.depth < MaxDepth /\ Blob[b].opens
          /\ insp' = Upd(j) /\ frames' = Append(frames, NewFrame("Zip", b, Frame.depth + 1, MaxExpanded))
       \/ /\ Frame.kind = "Zip" /\ Kind(b) = "OleCompound" /\ NestedLimit(i) # 0 /\ j = i
          /\ insp' = Append(Upd(i), OpenedOle(NewInspection, b))
          /\ frames' = Append(frames, NewFrame("OleCompound", b, 1, NestedLimit(i)))
  BY <1>2 DEF Descended
<1>9. j \in InspType
  BY <1>8 DEF Remarked, Silent
<1>10. Upd(j) \in Seq(InspType) /\ Len(Upd(j)) = Len(insp)
  BY <1>9, UpdFacts DEF ShapeInv
<1>11. Frame.kind = "Zip" => Len(insp) = 1
  <2> DEFINE m == Len(insp)
  <2>1. m \in Nat /\ m # 0 /\ m <= 2 /\ (Frame.kind = "Zip" => m # 2)
    BY <1>3, <1>5
  <2> HIDE DEF m
  <2>2. Frame.kind = "Zip" => m = 1
    BY <2>1
  <2> QED BY <2>2 DEF m
<1>12. CASE frames' = frames /\ insp' = Upd(j)
  BY <1>6, <1>8, <1>12
<1>13. CASE /\ Frame.kind = "Zip" /\ Frame.depth < MaxDepth
            /\ insp' = Upd(j) /\ frames' = Append(frames, NewFrame("Zip", b, Frame.depth + 1, MaxExpanded))
  <2> DEFINE d == Frame.depth + 1
             kind == "Zip"
             f == NewFrame(kind, b, d, MaxExpanded)
  <2>1. d \in Nat /\ MaxExpanded \in Nat /\ kind \in Containers
    BY <1>4, DetectionAssumption DEF FrameType, Containers
  <2> HIDE DEF d, kind
  <2>2. f \in FrameType /\ f.kind = kind /\ f.depth = d
    BY <1>3, <2>1, NewFrames
  <2>3. frames' = Append(frames, f)
    BY <1>13 DEF d, kind
  <2> HIDE DEF f
  <2>4. insp' \in Seq(InspType) /\ Len(insp') = 1
    BY <1>10, <1>11, <1>13
  <2>5. Grown(f)
    BY <2>3 DEF Grown
  <2> QED BY <1>7, <1>13, <2>2, <2>4, <2>5 DEF d, kind
<1>14. CASE /\ Frame.kind = "Zip" /\ j = i
            /\ insp' = Append(Upd(i), OpenedOle(NewInspection, b))
            /\ frames' = Append(frames, NewFrame("OleCompound", b, 1, NestedLimit(i)))
  <2> DEFINE limit == NestedLimit(i)
             first == 1
             kind == "OleCompound"
             f == NewFrame(kind, b, first, limit)
             o == OpenedOle(NewInspection, b)
  <2>1. limit \in Nat /\ first \in Nat /\ kind \in Containers
    <3>1. i.expanded \in Nat /\ MaxExpanded \in Nat
      BY <1>1, DetectionAssumption DEF InspType
    <3> QED BY <3>1 DEF NestedLimit, Containers
  <2>2. o \in InspType
    <3>1. Opened("OleCompound", NewInspection, b) = o
      BY DEF Opened
    <3> HIDE DEF o
    <3> QED BY <1>3, <3>1, NewInspections, ContainersOpened DEF Remarked, Silent
  <2>3. frames' = Append(frames, f) /\ insp' = Append(Upd(i), o)
    BY <1>14
  <2> HIDE DEF limit, first, o, kind, b
  <2>4. f \in FrameType /\ f.kind = kind
    BY <1>3, <2>1, NewFrames
  <2> HIDE DEF f
  <2>5. insp' \in Seq(InspType) /\ Len(insp') = 2
    <3> DEFINE u == Upd(i)
    <3>1. u \in Seq(InspType) /\ Len(u) = 1
      BY <1>10, <1>11, <1>14
    <3>2. insp' = Append(u, o)
      BY <2>3
    <3> HIDE DEF u
    <3>3. 1 + 1 = 2
      OBVIOUS
    <3> QED BY ONLY <2>2, <3>1, <3>2, <3>3, AddLast
  <2>6. Grown(f)
    BY <2>3 DEF Grown
  <2> QED BY <1>7, <1>14, <2>4, <2>5, <2>6 DEF kind
<1> QED BY <1>8, <1>12, <1>13, <1>14

\* Every step keeps it.
LEMMA ShapeNext ==
  ASSUME ShapeInv, [Next]_vars
  PROVE  ShapeInv'
<1>1. CASE Gathering
  BY <1>1, ShapeGathers
<1>2. CASE \E b \in Files, origin \in {"file", "bytes", "amsi"} : Submit(b, origin)
  BY <1>2, ShapeSubmit DEF Origins
<1>3. CASE ReadFails \/ Panic
  BY <1>3, ShapeFails
<1>4. CASE FinishLeaf
  <2>1. /\ stage = "amsi" /\ leaf' = leaf
        /\ leaf.part # "outer" => Len(frames) # 0 /\ Len(insp) # 0 /\ Top \in InspType /\ outer \in ReportType
    BY <1>4, LeafEnds
  <2>2. PICK r : IsLeafReport(r) /\ seen' \in SeenType /\ (OuterEnds(r) \/ EntryEnds(r) \/ MacroEnds(r))
    BY <1>4, LeafEnds
  <2>3. CASE OuterEnds(r)
    BY <2>1, <2>2, <2>3, ShapeOuter
  <2>4. CASE EntryEnds(r)
    <3>1. leaf.part # "outer"
      BY <2>4 DEF EntryEnds
    <3> QED BY <2>1, <2>2, <2>4, <3>1, ShapeEntryEnds
  <2>5. CASE MacroEnds(r)
    <3>1. leaf.part # "outer"
      BY <2>5 DEF MacroEnds
    <3> QED BY <2>1, <2>2, <2>5, <3>1, ShapeMacroEnds
  <2> QED BY <2>2, <2>3, <2>4, <2>5
<1>5. CASE DecompressMacro
  BY <1>5, ShapeMacro
<1>6. CASE Lapse
  BY <1>6, ShapeLapse
<1>7. CASE WalkZip \/ WalkOle \/ WalkGzip
  BY <1>7, Walks, ShapeWalk DEF ShapeInv
<1>8. CASE LeaveContainer
  BY <1>8, ShapeLeave
<1>9. CASE EndInspection
  BY <1>9, ShapeEnds
<1>10. CASE Deliver
  BY <1>10, ShapeDeliver
<1> QED BY <1>1, <1>2, <1>3, <1>4, <1>5, <1>6, <1>7, <1>8, <1>9, <1>10 DEF Next, Gathering

\* The walk keeps to its shape in every behaviour: types, where an analysis is,
\* and which containers are open (archive.rs walk_zip, inspect_ole_with_limit).
THEOREM ShapeHolds == Spec => []ShapeInv
<1>1. Init => ShapeInv
  BY ShapeInit
<1>2. ShapeInv /\ [Next]_vars => ShapeInv'
  BY ShapeNext
<1> QED BY <1>1, <1>2, PTL DEF Spec

\* A program never looks worse for having been read only in part (StaticAgrees).
THEOREM StaticAlwaysAgrees == Spec => []StaticAgrees
<1>1. ShapeInv => StaticAgrees
  <2> SUFFICES ASSUME ShapeInv, stage = "index"
               PROVE  PrefixesMilder(Blob[leaf.blob].shape, Size(leaf.blob))
                      /\ NearMeansNear(Blob[leaf.blob].shape)
    BY DEF StaticAgrees
  <2>1. leaf.blob \in Blobs
    BY DEF ShapeInv, TypeInv, LeafType
  <2>2. IsShape(Blob[leaf.blob].shape) /\ Size(leaf.blob) \in Nat
    BY <2>1, BlobAssumption, EntryFacts
  <2> QED BY <2>2, StaticFacts
<1> QED BY <1>1, ShapeHolds, PTL

-----------------------------------------------------------------------------
(* The budgets.                                                            *)

BudgetShape == ShapeInv /\ BudgetInv

\* The constants are numbers.
LEMMA Limits ==
  /\ MaxDepth \in Nat /\ MaxEntries \in Nat /\ MaxEntryBytes \in Nat /\ MaxExpanded \in Nat
  /\ MaxFindings \in Nat /\ MaxDepth # 0 /\ MaxEntries # 0 /\ MaxEntryBytes <= MaxExpanded
BY DetectionAssumption

\* The numbers of an inspection.
LEMMA InspNumbers ==
  ASSUME NEW i \in InspType
  PROVE  i.scanned \in Nat /\ i.expanded \in Nat /\ i.findings \in Seq(ReportType) /\ Len(i.findings) \in Nat
BY DEF InspType

\* An inspection that was only remarked upon is as modest as before.
LEMMA StaysModest ==
  ASSUME NEW i, NEW j, Remarked(i, j), Modest(i)
  PROVE  Modest(j)
BY DEF Remarked, Silent, Modest

\* A new one is modest.
LEMMA StartsModest ==
  ASSUME NEW j, Remarked(NewInspection, j)
  PROVE  Modest(j) /\ j.expanded = 0 /\ j.scanned = 0
<1>1. j.expanded = 0 /\ j.scanned = 0 /\ j.findings = <<>>
  BY NewInspections DEF Remarked, Silent
<1>2. Len(j.findings) = 0
  BY <1>1
<1> QED BY <1>1, <1>2, Limits DEF Modest

\* A finding fits in.
LEMMA FindsModestly ==
  ASSUME NEW i \in InspType, NEW r \in ReportType, Modest(i)
  PROVE  /\ Modest(record_finding(i, r))
         /\ record_finding(i, r).expanded = i.expanded /\ record_finding(i, r).scanned = i.scanned
<1> DEFINE j == record_finding(i, r)
<1>1. /\ j.scanned = i.scanned /\ j.expanded = i.expanded
      /\ \/ j.findings = i.findings
         \/ Len(i.findings) < MaxFindings /\ j.findings = Append(i.findings, r)
  BY FindingRecorded
<1> HIDE DEF j
<1>2. Len(Append(i.findings, r)) = Len(i.findings) + 1
  BY InspNumbers, AddLast
<1>3. Len(j.findings) <= MaxFindings
  BY <1>1, <1>2, InspNumbers, Limits DEF Modest
<1> QED BY <1>1, <1>3 DEF Modest, j

\* Each inspection is within its budget, and so are two.
LEMMA Inspections ==
  ASSUME ShapeInv, WithinBudget, Len(insp) # 0
  PROVE  /\ Top \in InspType /\ Modest(Top) /\ insp[1] \in InspType /\ Modest(insp[1])
         /\ stage # "done" => Len(insp) = 1 \/ Len(insp) = 2
         /\ Len(insp) = 1 => Top = insp[1]
         /\ Len(insp) = 2 => Top = insp[2] /\ insp[2] \in InspType
         /\ stage # "done" => /\ Len(insp) = 2 => Len(frames) > 1 /\ Frame.kind = "OleCompound"
                              /\ Len(frames) > 1 /\ Frame.kind = "OleCompound" => Len(insp) = 2
<1>1. insp \in Seq(InspType) /\ Len(insp) \in Nat
  BY DEF ShapeInv, TypeInv
<1>2. Len(insp) \in 1..Len(insp) /\ 1 \in 1..Len(insp)
  BY <1>1
<1>3. Top \in InspType /\ Top = insp[Len(insp)] /\ insp[1] \in InspType
  BY <1>2, Innermost DEF ShapeInv
<1>4. Modest(Top) /\ Modest(insp[1])
  BY <1>2, <1>3 DEF WithinBudget
<1>5. stage # "done" => /\ Len(insp) <= 2
                        /\ Len(insp) = 2 <=> Len(frames) > 1 /\ Frame.kind = "OleCompound"
  BY DEF ShapeInv, StackInv
<1>6. stage # "done" => Len(insp) = 1 \/ Len(insp) = 2
  <2> DEFINE n == Len(insp)
  <2>1. n \in Nat /\ n # 0 /\ (stage # "done" => n <= 2)
    BY <1>1, <1>5
  <2> HIDE DEF n
  <2>2. stage # "done" => n = 1 \/ n = 2
    BY <2>1
  <2> QED BY <2>2 DEF n
<1>7. Len(insp) = 1 => Top = insp[1]
  BY <1>3
<1>8. Len(insp) = 2 => Top = insp[2] /\ insp[2] \in InspType
  BY <1>3
<1> QED BY <1>3, <1>4, <1>5, <1>6, <1>7, <1>8

\* The budgets at the start, and when nothing is open.
LEMMA BudgetEmpty ==
  ASSUME frames = <<>>, insp = <<>>
  PROVE  BudgetInv
<1>1. Len(frames) = 0 /\ Len(insp) = 0
  OBVIOUS
<1>2. WithinBudget
  BY <1>1, Limits DEF WithinBudget
<1>3. Bounded
  BY <1>1 DEF Bounded
<1> QED BY <1>2, <1>3 DEF BudgetInv

\* The same after a step that empties them.
LEMMA BudgetEmptied ==
  ASSUME frames' = <<>>, insp' = <<>>
  PROVE  BudgetInv'
<1>1. Len(frames') = 0 /\ Len(insp') = 0
  OBVIOUS
<1>2. WithinBudget'
  BY <1>1, Limits DEF WithinBudget
<1>3. Bounded'
  BY <1>1 DEF Bounded
<1> QED BY <1>2, <1>3 DEF BudgetInv

\* An analysis ends with the walk as it is.
LEMMA BudgetReport ==
  ASSUME BudgetInv, stage' = "done", UNCHANGED <<frames, insp>>
  PROVE  BudgetInv'
BY DEF BudgetInv, WithinBudget

\* A step that leaves the walk alone.
LEMMA BudgetStays ==
  ASSUME BudgetInv, stage # "done", UNCHANGED <<frames, insp>>,
         stage' \in Sampling => stage \in Sampling \/ Frame.kind # "Zip"
  PROVE  BudgetInv'
<1>1. Frame' = Frame /\ Top' = Top
  BY DEF Frame, Top
<1>2. WithinBudget'
  BY DEF BudgetInv, WithinBudget
<1>3. Bounded'
  BY <1>1 DEF BudgetInv, Bounded
<1> QED BY <1>2, <1>3 DEF BudgetInv

\* The innermost inspection is remarked upon.
LEMMA BudgetRemarked ==
  ASSUME ShapeInv, BudgetInv, stage # "done", Len(insp) # 0, stage' \notin Sampling, NEW j,
         j \in InspType,
         Modest(j), j.expanded = Top.expanded, j.scanned = Top.scanned, insp' = Upd(j), frames' = frames
  PROVE  BudgetInv'
<1>1. TypeInv /\ WithinBudget /\ Bounded
  BY DEF ShapeInv, BudgetInv
<1>2. /\ Len(insp') = Len(insp) /\ insp'[Len(insp)] = j
      /\ \A k \in 1..Len(insp) : k # Len(insp) => insp'[k] = insp[k]
  BY <1>1, UpdFacts
<1>3. /\ Len(insp) = 1 \/ Len(insp) = 2
      /\ Len(insp) = 1 => Top = insp[1]
      /\ Len(insp) = 2 => Top = insp[2]
  BY <1>1, Inspections
<1>4. /\ \A k \in 1..Len(insp) : insp'[k].expanded = insp[k].expanded /\ insp'[k].scanned = insp[k].scanned
      /\ \A k \in 1..Len(insp) : Modest(insp'[k])
  <2>1. \A k \in 1..Len(insp) : k # Len(insp) \/ (k = Len(insp) /\ Top = insp[k])
    BY DEF Top
  <2> QED BY <1>1, <1>2, <2>1 DEF WithinBudget
<1>5. 1 \in 1..Len(insp) /\ (Len(insp) = 2 => 2 \in 1..Len(insp))
  BY <1>3
<1>6. WithinBudget'
  BY <1>1, <1>2, <1>4, <1>5 DEF WithinBudget
<1>7. Frame' = Frame /\ Top' = j
  BY <1>2 DEF Frame, Top
<1>8. Bounded'
  BY <1>1, <1>2, <1>4, <1>5, <1>7 DEF Bounded
<1> QED BY <1>6, <1>8 DEF BudgetInv

\* Time runs out: nothing is spent.
LEMMA BudgetLapse ==
  ASSUME ShapeInv, BudgetInv, Lapse
  PROVE  BudgetInv'
<1>1. TypeInv /\ WithinBudget /\ Bounded /\ stage = "walk" /\ stage' = stage /\ frames' = frames
  BY DEF ShapeInv, BudgetInv, Lapse
<1>2. /\ insp' \in Seq(InspType) /\ Len(insp') = Len(insp)
      /\ \A k \in 1..Len(insp) : Remarked(insp[k], insp'[k])
  BY <1>1, LapseFacts
<1>3. \A k \in 1..Len(insp) : Modest(insp'[k]) /\ insp'[k].expanded = insp[k].expanded
                              /\ insp'[k].scanned = insp[k].scanned
  <2> SUFFICES ASSUME NEW k \in 1..Len(insp)
               PROVE  Modest(insp'[k]) /\ insp'[k].expanded = insp[k].expanded
                      /\ insp'[k].scanned = insp[k].scanned
    OBVIOUS
  <2>1. Modest(insp[k]) /\ Remarked(insp[k], insp'[k])
    BY <1>1, <1>2 DEF WithinBudget
  <2> QED BY <2>1, StaysModest DEF Remarked, Silent
<1>4. Len(insp) = 2 => 1 \in 1..Len(insp) /\ 2 \in 1..Len(insp)
  OBVIOUS
<1>5. WithinBudget'
  BY <1>1, <1>2, <1>3, <1>4 DEF WithinBudget
<1>6. Frame' = Frame
  BY <1>1 DEF Frame
<1>7. Len(frames) # 0 => Top'.scanned = Top.scanned
  <2> SUFFICES ASSUME Len(frames) # 0 PROVE Top'.scanned = Top.scanned
    OBVIOUS
  <2>1. Len(insp) # 0
    BY <1>1 DEF ShapeInv, StackInv
  <2>2. Len(insp) \in 1..Len(insp)
    BY <1>1, <2>1, Innermost
  <2> QED BY <1>2, <1>3, <2>2 DEF Top
<1>8. Bounded'
  BY <1>1, <1>2, <1>3, <1>4, <1>6, <1>7 DEF Bounded, Sampling
<1> QED BY <1>5, <1>8 DEF BudgetInv

\* What an inspection may have spent, besides what was found.
LEMMA SpendsModestly ==
  ASSUME NEW i \in InspType, NEW t \in InspType, Modest(t), i.findings = t.findings,
         i.expanded <= MaxExpanded, i.scanned <= 2 * MaxEntries
  PROVE  Modest(i)
BY DEF Modest

\* The walk takes a step: within what is left.
LEMMA BudgetWalk ==
  ASSUME ShapeInv, BudgetInv, WalkStep
  PROVE  BudgetInv'
<1>1. /\ TypeInv /\ WithinBudget /\ Bounded /\ stage = "walk" /\ Len(frames) # 0 /\ Len(insp) # 0
      /\ frames' = Advanced /\ Frame.next \in 1..Len(Entries(Frame))
      /\ Frame.kind = "Zip" => Top.scanned < MaxEntries
      /\ Frame.kind = "OleCompound" => Frame.next <= MaxEntries
  BY DEF ShapeInv, BudgetInv, WalkStep
<1>2. PICK i : Progress(i) /\ insp' = Upd(i) /\ (Passed(i) \/ Taken(i))
  BY DEF WalkStep
<1>3. i \in InspType /\ i.findings = Top.findings /\ i.scanned <= Top.scanned + 1
  BY <1>2 DEF Progress
<1>4. /\ Top \in InspType /\ Modest(Top) /\ insp[1] \in InspType /\ Modest(insp[1])
      /\ Len(insp) = 1 \/ Len(insp) = 2
      /\ Len(insp) = 1 => Top = insp[1]
      /\ Len(insp) = 2 => Top = insp[2] /\ insp[2] \in InspType /\ Len(frames) > 1 /\ Frame.kind = "OleCompound"
      /\ Len(frames) > 1 /\ Frame.kind = "OleCompound" => Len(insp) = 2
  BY <1>1, Inspections
<1>5. /\ Len(insp') = Len(insp) /\ insp'[Len(insp)] = i
      /\ \A k \in 1..Len(insp) : k # Len(insp) => insp'[k] = insp[k]
  BY <1>1, <1>2, <1>3, UpdFacts
<1>6. /\ Len(frames') = Len(frames) /\ Frame' = NextFrame
      /\ NextFrame.kind = Frame.kind /\ NextFrame.next = Frame.next + 1 /\ NextFrame.limit = Frame.limit
  BY <1>1, AdvancedFacts DEF Frame
<1>7. Frame \in FrameType /\ Frame.kind \in Containers /\ Frame.next \in Nat /\ Frame.next # 0 /\ Frame.limit \in Nat
  BY <1>1, Innermost DEF FrameType
<1>8. Top' = i
  BY <1>5 DEF Top
<1>9. Frame.kind = "Gzip" => Frame.next = 1
  <2> SUFFICES ASSUME Frame.kind = "Gzip" PROVE Frame.next = 1
    OBVIOUS
  <2>1. Kind(Frame.blob) = "Gzip" /\ Frame.blob \in Blobs
    BY <1>1, <1>7 DEF ShapeInv, StackInv, FrameType
  <2>2. Len(Entries(Frame)) = 1
    BY <2>1, BlobAssumption DEF Kind, Entries
  <2> QED BY <1>1, <2>2
<1>10. i.scanned \in Nat /\ Top.scanned \in Nat /\ i.expanded \in Nat /\ Top.expanded \in Nat
       /\ insp[1].expanded \in Nat /\ insp[1].scanned \in Nat
  BY <1>3, <1>4, InspNumbers
<1>11. Frame.kind # "Zip" => i.scanned < Frame.next + 1
  BY <1>1, <1>3, <1>7, <1>10 DEF Bounded
<1>12. i.scanned <= MaxEntries
  <2>1. CASE Frame.kind = "Zip"
    BY <1>1, <1>3, <1>10, <2>1, Limits
  <2>2. CASE Frame.kind = "OleCompound"
    BY <1>1, <1>7, <1>10, <1>11, <2>2, Limits
  <2>3. CASE Frame.kind = "Gzip"
    <3>1. i.scanned < 1 + 1
      BY <1>9, <1>11, <2>3
    <3> QED BY <1>10, <3>1, Limits
  <2> QED BY <1>7, <2>1, <2>2, <2>3 DEF Containers
<1>13. i.expanded <= MaxExpanded /\ (Len(insp) = 2 => insp[1].expanded + i.expanded <= MaxExpanded)
  <2>1. CASE i.expanded = Top.expanded
    <3>1. i.expanded <= MaxExpanded
      BY <1>4, <2>1 DEF Modest
    <3>2. Len(insp) = 2 => insp[1].expanded + i.expanded <= MaxExpanded
      BY <1>1, <1>4, <2>1 DEF WithinBudget
    <3> QED BY <3>1, <3>2
  <2>2. CASE i.expanded <= Allowance
    <3>1. CASE Len(insp) = 2
      <4>1. Allowance = MaxExpanded - insp[1].expanded
        BY <1>1, <1>4, <3>1 DEF Bounded, Allowance
      <4> QED BY <1>10, <2>2, <4>1, Limits
    <3>2. CASE Len(insp) = 1
      <4>1. Frame.kind = "OleCompound" => Len(frames) = 1
        <5> DEFINE n == Len(frames)
        <5>1. n \in Nat /\ n # 0 /\ (Frame.kind = "OleCompound" => ~(n > 1))
          BY <1>1, <1>4, <3>2, Innermost
        <5> HIDE DEF n
        <5>2. Frame.kind = "OleCompound" => n = 1
          BY <5>1
        <5> QED BY <5>2 DEF n
      <4>2. Allowance = MaxExpanded
        BY <1>1, <4>1 DEF Bounded, Allowance
      <4> QED BY <2>2, <3>2, <4>2
    <3> QED BY <1>4, <3>1, <3>2
  <2> QED BY <1>2, <2>1, <2>2 DEF Passed, Taken
<1>14. Modest(i)
  <2>1. i.scanned <= 2 * MaxEntries
    BY <1>10, <1>12, Limits
  <2> QED BY <1>3, <1>4, <1>13, <2>1, SpendsModestly
<1>15. WithinBudget'
  <2>1. \A k \in 1..Len(insp) : Modest(insp'[k])
    BY <1>1, <1>5, <1>14 DEF WithinBudget
  <2>2. Len(insp) = 2 => insp'[1] = insp[1] /\ insp'[2] = i
    BY <1>5
  <2> QED BY <1>1, <1>5, <1>6, <1>13, <2>1, <2>2 DEF WithinBudget
<1>16. Bounded'
  <2>1. Len(insp) = 2 => insp'[1] = insp[1]
    BY <1>5
  <2>2. Len(insp) = 1 => insp'[1] = i
    BY <1>5
  <2>3. Frame.kind = "OleCompound" => Frame.next + 1 <= MaxEntries + 1
    BY <1>1, <1>7, Limits
  <2>4. Frame.kind = "Zip" => Len(insp) = 1
    BY <1>4
  <2> QED BY <1>1, <1>5, <1>6, <1>8, <1>11, <1>12, <2>1, <2>2, <2>3, <2>4 DEF Bounded
<1> QED BY <1>15, <1>16 DEF BudgetInv

\* A container is opened with its whole allowance.
LEMMA BudgetBegins ==
  ASSUME NEW r, WalkBegins(r), leaf.blob \in Blobs
  PROVE  BudgetInv'
<1>1. PICK kind \in Containers :
        /\ stage' = "walk" /\ insp' = <<Opened(kind, NewInspection, leaf.blob)>>
        /\ frames' = <<NewFrame(kind, leaf.blob, 1, MaxExpanded)>>
  BY DEF WalkBegins
<1> DEFINE o == Opened(kind, NewInspection, leaf.blob)
           f == NewFrame(kind, leaf.blob, 1, MaxExpanded)
<1>2. Remarked(NewInspection, o)
  BY NewInspections, ContainersOpened
<1>3. f.next = 1 /\ f.limit = MaxExpanded
  BY DEF NewFrame
<1> HIDE DEF o, f
<1>4. Modest(o) /\ o.expanded = 0 /\ o.scanned = 0
  BY <1>2, StartsModest
<1>5. insp' = <<o>> /\ frames' = <<f>>
  BY <1>1 DEF o, f
<1>6. Len(insp') = 1 /\ insp'[1] = o /\ Len(frames') = 1 /\ Frame' = f /\ Top' = o
  BY <1>5 DEF Frame, Top
<1>7. WithinBudget'
  BY <1>4, <1>6, Limits DEF WithinBudget
<1>8. Bounded'
  BY <1>1, <1>3, <1>4, <1>6, Limits DEF Bounded, Sampling
<1> QED BY <1>7, <1>8 DEF BudgetInv

\* A container is left: what a compound file inside an archive spent is added
\* to what the archive did.
LEMMA BudgetLeave ==
  ASSUME ShapeInv, BudgetInv, LeaveContainer
  PROVE  BudgetInv'
<1>1. /\ TypeInv /\ WithinBudget /\ Bounded /\ stage = "walk" /\ stage' = stage /\ Len(frames) # 0
      /\ frames' = SubSeq(frames, 1, Len(frames) - 1)
  BY DEF ShapeInv, BudgetInv, LeaveContainer, TypeInv
<1>2. Len(insp) # 0
  BY <1>1 DEF ShapeInv, StackInv
<1>3. PICK i : /\ Remarked(Top, i)
               /\ insp' = IF Len(insp) > 1 /\ Frame.kind = "OleCompound"
                          THEN <<merge_nested_inspection(insp[1], i)>> ELSE Upd(i)
  BY <1>1, <1>2, LeaveFacts DEF Left
<1>4. /\ Top \in InspType /\ Modest(Top) /\ insp[1] \in InspType /\ Modest(insp[1])
      /\ Len(insp) = 1 \/ Len(insp) = 2
      /\ Len(insp) = 1 => Top = insp[1]
      /\ Len(insp) = 2 => Top = insp[2] /\ insp[2] \in InspType /\ Len(frames) > 1 /\ Frame.kind = "OleCompound"
  BY <1>1, <1>2, Inspections
<1>5. i \in InspType /\ i.expanded = Top.expanded /\ i.scanned = Top.scanned /\ Modest(i)
  BY <1>3, <1>4, StaysModest DEF Remarked, Silent
<1>6. /\ Len(frames') = Len(frames) - 1 /\ Len(frames') \in Nat
      /\ \A k \in 1..Len(frames') : frames'[k].kind = "Zip"
  <2>1. frames \in Seq(FrameType)
    BY <1>1 DEF TypeInv
  <2>2. Len(frames') = Len(frames) - 1 /\ \A k \in 1..(Len(frames) - 1) : frames'[k] = frames[k]
    BY <1>1, <2>1, DropLast
  <2>3. \A k \in 1..Len(frames) : k < Len(frames) => frames[k].kind = "Zip"
    BY <1>1 DEF ShapeInv, StackInv
  <2>4. Len(frames) \in Nat
    BY <1>1, Innermost
  <2>5. Len(frames') \in Nat
    BY <1>1, <2>2, <2>4
  <2>6. \A k \in 1..(Len(frames) - 1) : k \in 1..Len(frames) /\ k < Len(frames)
    BY <2>4
  <2> QED BY <2>2, <2>3, <2>5, <2>6
<1>7. Len(frames') # 0 => Frame'.kind = "Zip"
  <2> DEFINE n == Len(frames')
  <2>1. n \in Nat
    BY <1>6
  <2>2. Frame' = frames'[n]
    BY DEF Frame
  <2>3. n # 0 => n \in 1..n
    <3> HIDE DEF n
    <3> QED BY <2>1
  <2> QED BY <1>6, <2>2, <2>3
<1>8. Len(insp') = 1 /\ Modest(insp'[1])
  <2>1. CASE Len(insp) = 2
    <3> DEFINE j == merge_nested_inspection(insp[1], i)
    <3>1. insp' = <<j>>
      BY <1>3, <1>4, <2>1
    <3>2. /\ j.scanned = insp[1].scanned + i.scanned /\ j.expanded = insp[1].expanded + i.expanded
          /\ Len(j.findings) <= MaxFindings
      BY <1>4, <1>5, Merged
    <3> HIDE DEF j
    <3>3. j.expanded <= MaxExpanded
      BY <1>1, <1>4, <1>5, <2>1, <3>2 DEF WithinBudget
    <3>4. Top.scanned <= MaxEntries
      <4>1. Top.scanned < Frame.next /\ Frame.next <= MaxEntries + 1
        BY <1>1, <1>4, <2>1 DEF Bounded
      <4>2. Frame.next \in Nat
        BY <1>1, Innermost DEF FrameType
      <4> QED BY <1>4, <4>1, <4>2, InspNumbers, Limits
    <3>5. insp[1].scanned <= MaxEntries
      BY <1>1, <2>1 DEF Bounded
    <3>6. insp[1].scanned \in Nat /\ Top.scanned \in Nat
      BY <1>4, InspNumbers
    <3>7. j.scanned <= 2 * MaxEntries
      BY <1>5, <3>2, <3>4, <3>5, <3>6, Limits
    <3> QED BY <3>1, <3>2, <3>3, <3>7 DEF Modest
  <2>2. CASE Len(insp) = 1
    <3>1. insp' = Upd(i)
      BY <1>3, <2>2
    <3>2. Len(insp') = 1 /\ insp'[1] = i
      BY <1>1, <1>2, <1>5, <2>2, <3>1, UpdFacts
    <3> QED BY <1>5, <3>2
  <2> QED BY <1>4, <2>1, <2>2
<1>9. WithinBudget'
  <2>1. Len(frames') <= MaxDepth + 1
    <3>1. Len(frames) <= MaxDepth + 1 /\ Len(frames) \in Nat
      BY <1>1, Innermost DEF WithinBudget
    <3> QED BY <1>6, <3>1, Limits
  <2> QED BY <1>8, <2>1 DEF WithinBudget
<1>10. Bounded'
  BY <1>1, <1>7, <1>8 DEF Bounded, Sampling
<1> QED BY <1>9, <1>10 DEF BudgetInv

\* A macro's source has been looked at.
LEMMA BudgetMacro ==
  ASSUME ShapeInv, BudgetInv, stage = "amsi", NEW r, IsLeafReport(r), MacroEnds(r), Len(insp) # 0
  PROVE  BudgetInv'
<1>1. WithinBudget /\ r \in ReportType /\ "walk" \notin Sampling /\ stage # "done"
  BY DEF BudgetInv, IsLeafReport, Sampling
<1>2. Top \in InspType /\ Modest(Top)
  BY <1>1, Inspections
<1> DEFINE j == record_finding(Top, r)
<1>3. j \in InspType
  BY <1>1, <1>2, FindingRecorded
<1>4. Modest(j) /\ j.expanded = Top.expanded /\ j.scanned = Top.scanned
  BY <1>1, <1>2, FindsModestly
<1>5. insp' = Upd(j) /\ frames' = frames /\ stage' = "walk"
  BY DEF MacroEnds
<1> HIDE DEF j
<1> QED BY <1>1, <1>3, <1>4, <1>5, BudgetRemarked

\* An entry has been looked at: what is in it is walked within what is left.
LEMMA BudgetEntry ==
  ASSUME ShapeInv, BudgetInv, stage = "amsi", NEW r, IsLeafReport(r), EntryEnds(r),
         Len(frames) # 0, Len(insp) # 0
  PROVE  BudgetInv'
<1>1. /\ TypeInv /\ WithinBudget /\ Bounded /\ r \in ReportType /\ stage \in Sampling /\ stage # "done"
      /\ stage' \notin Sampling /\ stage' # "done"
  BY DEF ShapeInv, BudgetInv, IsLeafReport, Sampling, EntryEnds
<1>2. /\ Top \in InspType /\ Modest(Top)
      /\ Len(insp) = 1 \/ Len(insp) = 2
      /\ Len(insp) = 1 => Top = insp[1]
      /\ Len(insp) = 2 => Frame.kind = "OleCompound"
  BY <1>1, Inspections
<1> DEFINE i == record_finding(Top, r)
           b == leaf.blob
<1>3. i \in InspType
  BY <1>1, <1>2, FindingRecorded
<1>4. Modest(i) /\ i.expanded = Top.expanded /\ i.scanned = Top.scanned
  BY <1>1, <1>2, FindsModestly
<1>5. b \in Blobs
  BY <1>1 DEF TypeInv, LeafType, Sampling
<1>6. Descended(i, b)
  BY DEF EntryEnds
<1> HIDE DEF i, b
<1>7. PICK j : /\ Remarked(i, j)
    /\ \/ frames' = frames /\ insp' = Upd(j) /\ Covered(j, b)
       \/ /\ Frame.kind = "Zip" /\ Kind(b) = "Zip" /\ Frame.depth < MaxDepth /\ Blob[b].opens
          /\ insp' = Upd(j) /\ frames' = Append(frames, NewFrame("Zip", b, Frame.depth + 1, MaxExpanded))
       \/ /\ Frame.kind = "Zip" /\ Kind(b) = "OleCompound" /\ NestedLimit(i) # 0 /\ j = i
          /\ insp' = Append(Upd(i), OpenedOle(NewInspection, b))
          /\ frames' = Append(frames, NewFrame("OleCompound", b, 1, NestedLimit(i)))
  BY <1>6 DEF Descended
<1>8. j \in InspType /\ Modest(j) /\ j.expanded = Top.expanded /\ j.scanned = Top.scanned
  BY <1>4, <1>7, StaysModest DEF Remarked, Silent
<1>9. CASE frames' = frames /\ insp' = Upd(j)
  BY <1>1, <1>8, <1>9, BudgetRemarked
<1>10. ASSUME Frame.kind = "Zip" PROVE /\ Len(insp) = 1 /\ insp[1] = Top /\ Len(frames) <= MaxDepth
                                       /\ Frame.depth = Len(frames)
  <2>1. Len(insp) = 1 /\ insp[1] = Top
    BY <1>2, <1>10
  <2>2. Len(frames) \in 1..Len(frames) /\ Frame = frames[Len(frames)]
    BY <1>1, Innermost
  <2>3. \A k \in 1..Len(frames) : frames[k].kind = "Zip" => frames[k].depth = k /\ k <= MaxDepth
    BY <1>1 DEF ShapeInv, StackInv
  <2> QED BY <1>10, <2>1, <2>2, <2>3
<1>11. frames \in Seq(FrameType) /\ Len(frames) \in Nat
  BY <1>1, Innermost DEF TypeInv
<1>12. ASSUME NEW f \in FrameType, Grown(f)
       PROVE  Len(frames') = Len(frames) + 1 /\ Frame' = f
  <2>1. Len(frames') = Len(frames) + 1 /\ frames'[Len(frames) + 1] = f
    BY <1>11, <1>12, AddLast DEF Grown
  <2> QED BY <2>1 DEF Frame
<1>13. ASSUME /\ Frame.kind = "Zip" /\ Kind(b) = "Zip" /\ Frame.depth < MaxDepth
              /\ insp' = Upd(j) /\ frames' = Append(frames, NewFrame("Zip", b, Frame.depth + 1, MaxExpanded))
       PROVE  BudgetInv'
  <2> DEFINE d == Frame.depth + 1
             kind == "Zip"
             f == NewFrame(kind, b, d, MaxExpanded)
  <2>1. d \in Nat /\ kind \in Containers
    BY <1>1, Innermost DEF FrameType, Containers
  <2> HIDE DEF d, kind
  <2>2. f \in FrameType /\ f.kind = kind
    BY <1>5, <2>1, NewFrames, Limits
  <2>3. Grown(f)
    BY <1>13 DEF Grown, d, kind
  <2> HIDE DEF f
  <2>4. Len(frames') = Len(frames) + 1 /\ Frame'.kind = "Zip"
    BY <1>12, <2>2, <2>3 DEF kind
  <2>5. Len(insp') = 1 /\ insp'[1] = j
    BY <1>1, <1>8, <1>10, <1>13, UpdFacts
  <2>6. Len(frames) + 1 <= MaxDepth
    BY <1>10, <1>11, <1>13, Limits
  <2>7. WithinBudget'
    <3>1. Len(frames') <= MaxDepth + 1
      BY <1>11, <2>4, <2>6, Limits
    <3> QED BY <1>8, <2>5, <3>1 DEF WithinBudget
  <2>8. Bounded'
    BY <1>1, <2>4, <2>5 DEF Bounded
  <2> QED BY <2>7, <2>8 DEF BudgetInv
<1>14. ASSUME /\ Frame.kind = "Zip" /\ j = i
              /\ insp' = Append(Upd(i), OpenedOle(NewInspection, b))
              /\ frames' = Append(frames, NewFrame("OleCompound", b, 1, NestedLimit(i)))
       PROVE  BudgetInv'
  <2> DEFINE limit == NestedLimit(i)
             first == 1
             kind == "OleCompound"
             f == NewFrame(kind, b, first, limit)
             o == OpenedOle(NewInspection, b)
  <2>1. limit \in Nat /\ first \in Nat /\ kind \in Containers
    <3>1. i.expanded \in Nat /\ MaxExpanded \in Nat
      BY <1>3, InspNumbers, Limits
    <3> QED BY <3>1 DEF NestedLimit, Containers
  <2>2. limit = MaxExpanded - i.expanded
    <3>1. i.expanded <= MaxExpanded /\ i.expanded \in Nat
      BY <1>3, <1>4, InspNumbers DEF Modest
    <3> QED BY <3>1, Limits DEF NestedLimit
  <2>3. Remarked(NewInspection, o)
    <3>1. Opened("OleCompound", NewInspection, b) = o
      BY DEF Opened
    <3> HIDE DEF o
    <3> QED BY <1>5, <3>1, NewInspections, ContainersOpened
  <2>4. frames' = Append(frames, f) /\ insp' = Append(Upd(i), o)
    BY <1>14
  <2> HIDE DEF limit, first, o, kind
  <2>5. f \in FrameType /\ f.kind = kind /\ f.limit = limit /\ f.next = 1
    BY <1>5, <2>1, NewFrames
  <2> HIDE DEF f
  <2>6. Grown(f)
    BY <2>4 DEF Grown
  <2>7. Len(frames') = Len(frames) + 1 /\ Frame' = f
    BY <1>12, <2>5, <2>6
  <2>8. o \in InspType /\ Modest(o) /\ o.expanded = 0 /\ o.scanned = 0
    BY <2>3, StartsModest DEF Remarked, Silent
  <2>9. Len(insp') = 2 /\ insp'[1] = i /\ insp'[2] = o
    <3> DEFINE u == Upd(i)
    <3>1. u \in Seq(InspType) /\ Len(u) = 1 /\ u[1] = i
      BY <1>1, <1>3, <1>10, <1>14, UpdFacts
    <3>2. insp' = Append(u, o)
      BY <2>4
    <3> HIDE DEF u
    <3>3. /\ Len(insp') = Len(u) + 1 /\ insp'[Len(u) + 1] = o
          /\ \A k \in 1..Len(u) : insp'[k] = u[k]
      <4>1. /\ Len(Append(u, o)) = Len(u) + 1 /\ Append(u, o)[Len(u) + 1] = o
            /\ \A k \in 1..Len(u) : Append(u, o)[k] = u[k]
        <5> DEFINE S == InspType
        <5>1. u \in Seq(S) /\ o \in S
          BY <2>8, <3>1
        <5> HIDE DEF S
        <5> QED BY ONLY <5>1, AddLast
      <4> QED BY <3>2, <4>1
    <3>4. 1 + 1 = 2 /\ 1 \in 1..Len(u)
      BY <3>1
    <3> QED BY <3>1, <3>3, <3>4
  <2>10. Top' = o
    BY <2>9 DEF Top
  <2>11. i.scanned <= MaxEntries
    BY <1>1, <1>4, <1>10, <1>14 DEF Bounded
  <2>12. Len(frames) + 1 <= MaxDepth + 1 /\ ~(Len(frames) + 1 = 1)
    BY <1>10, <1>11, <1>14, Limits
  <2>13. i.expanded \in Nat /\ i.expanded <= MaxExpanded
    BY <1>3, <1>4, InspNumbers DEF Modest
  <2>14. WithinBudget'
    <3>1. \A k \in 1..2 : Modest(insp'[k])
      <4>1. \A k \in 1..2 : k = 1 \/ k = 2
        OBVIOUS
      <4> QED BY <1>4, <2>8, <2>9, <4>1
    <3>2. insp'[1].expanded + insp'[2].expanded <= MaxExpanded
      BY <2>8, <2>9, <2>13
    <3> QED BY <2>7, <2>9, <2>12, <3>1, <3>2 DEF WithinBudget
  <2>15. Bounded'
    <3>1. insp'[1].scanned <= MaxEntries /\ Frame'.limit = MaxExpanded - insp'[1].expanded
      BY <2>2, <2>5, <2>7, <2>9, <2>11
    <3>2. Frame'.next = 1 /\ Frame'.kind = "OleCompound" /\ Top'.scanned = 0
      BY <2>5, <2>7, <2>8, <2>10 DEF kind
    <3>3. Len(frames') # 1
      BY <2>7, <2>12
    <3> QED BY <3>1, <3>2, <3>3, Limits DEF Bounded
  <2> QED BY <2>14, <2>15 DEF BudgetInv
<1> QED BY <1>7, <1>9, <1>13, <1>14

\* Every step keeps within the budgets.
LEMMA BudgetNext ==
  ASSUME ShapeInv, BudgetInv, [Next]_vars
  PROVE  BudgetInv'
<1>1. CASE Gathering
  <2>1. /\ stage' = stage \/ (stage \in Sampling /\ stage' \in Sampling \ {"reading"})
        /\ UNCHANGED <<frames, insp>>
    BY <1>1, GatherSteps DEF ShapeInv, Gathers
  <2>2. CASE stage = "done"
    <3>1. stage' = "done"
      BY <2>1, <2>2 DEF Sampling
    <3> QED BY <2>1, <3>1, BudgetReport
  <2>3. CASE stage # "done"
    BY <2>1, <2>3, BudgetStays
  <2> QED BY <2>2, <2>3
<1>2. CASE \E b \in Files, origin \in {"file", "bytes", "amsi"} : Submit(b, origin)
  BY <1>2, BudgetEmptied DEF Submit
<1>3. CASE ReadFails \/ Panic
  BY <1>3, BudgetReport DEF ReadFails, Panic, Report
<1>4. CASE FinishLeaf
  <2>1. /\ stage = "amsi" /\ leaf' = leaf /\ leaf.blob \in Blobs
        /\ leaf.part # "outer" => Len(frames) # 0 /\ Len(insp) # 0
    BY <1>4, LeafEnds
  <2>2. PICK r : IsLeafReport(r) /\ (OuterEnds(r) \/ EntryEnds(r) \/ MacroEnds(r))
    BY <1>4, LeafEnds
  <2>3. CASE OuterEnds(r)
    <3>1. CASE WalkBegins(r)
      BY <2>1, <3>1, BudgetBegins
    <3>2. CASE ReportStands(r)
      BY <3>2, BudgetReport DEF ReportStands, Report
    <3> QED BY <2>3, <3>1, <3>2 DEF OuterEnds
  <2>4. CASE EntryEnds(r)
    <3>1. leaf.part # "outer"
      BY <2>4 DEF EntryEnds
    <3> QED BY <2>1, <2>2, <2>4, <3>1, BudgetEntry
  <2>5. CASE MacroEnds(r)
    <3>1. leaf.part # "outer"
      BY <2>5 DEF MacroEnds
    <3> QED BY <2>1, <2>2, <2>5, <3>1, BudgetMacro
  <2> QED BY <2>2, <2>3, <2>4, <2>5
<1>5. CASE DecompressMacro
  <2>1. stage = "macro" /\ Frame.kind = "OleCompound" /\ UNCHANGED <<frames, insp>>
    BY <1>5 DEF DecompressMacro, ShapeInv, StageInv
  <2> QED BY <2>1, BudgetStays
<1>6. CASE Lapse
  BY <1>6, BudgetLapse
<1>7. CASE WalkZip \/ WalkOle \/ WalkGzip
  BY <1>7, Walks, BudgetWalk DEF ShapeInv
<1>8. CASE LeaveContainer
  BY <1>8, BudgetLeave
<1>9. CASE EndInspection
  BY <1>9, BudgetReport DEF EndInspection, Report
<1>10. CASE Deliver
  BY <1>10, BudgetEmptied DEF Deliver
<1> QED BY <1>1, <1>2, <1>3, <1>4, <1>5, <1>6, <1>7, <1>8, <1>9, <1>10 DEF Next, Gathering

\* Whatever is nested in what, a walk keeps within its allowance of bytes, of
\* entries, of depth and of findings, and a PDF within its own (BudgetsHold;
\* archive.rs walk_zip, inspect_ole_with_limit, merge_nested_inspection).
THEOREM BudgetsAlwaysHold == Spec => []BudgetsHold
<1>1. Init => ShapeInv /\ BudgetInv
  BY ShapeInit, BudgetEmpty DEF Init
<1>2. ShapeInv /\ BudgetInv /\ [Next]_vars => ShapeInv' /\ BudgetInv'
  BY ShapeNext, BudgetNext
<1>3. ShapeInv /\ BudgetInv => BudgetsHold
  <2> SUFFICES ASSUME ShapeInv, BudgetInv PROVE BudgetsHold
    OBVIOUS
  <2>1. WithinBudget /\ insp \in Seq(InspType)
    BY DEF BudgetInv, ShapeInv, TypeInv
  <2>2. DOMAIN insp = 1..Len(insp)
    BY <2>1
  <2>3. stage = "index" => PdfBounded(Blob[leaf.blob].shape)
    <3> SUFFICES ASSUME stage = "index" PROVE PdfBounded(Blob[leaf.blob].shape)
      OBVIOUS
    <3>1. leaf.blob \in Blobs
      BY DEF ShapeInv, TypeInv, LeafType
    <3>2. IsShape(Blob[leaf.blob].shape)
      BY <3>1, BlobAssumption
    <3> QED BY <3>2, PdfFacts
  <2> QED BY <2>1, <2>2, <2>3 DEF BudgetsHold, WithinBudget, Modest
<1> QED BY <1>1, <1>2, <1>3, PTL DEF Spec

-----------------------------------------------------------------------------
(* What the hashes say.                                                    *)

Named(d, b) == \E e \in d.allow : e.of = b
Vouched(d, b) == \E e \in d.allow : e.of = b /\ (e.algorithm = "md5" => size_matches(e.size, Size(b)))
Listed(d, b) == \E e \in d.files : e.of = b /\ size_matches(e.size, Size(b))
Tables(l) == Parses(Blob[l.blob].shape, Len(SampleText(l.blob, l.origin)))
InSection(d, l) ==
  /\ IsPe(l.static.content_type) /\ Tables(l)
  /\ \E s \in Blob[l.blob].sections, e \in d.sections :
       /\ s.size # 0 /\ s.start + s.size <= Len(SampleText(l.blob, l.origin))
       /\ e.of = s.of /\ size_matches(e.size, s.size)
Agrees(d, l) == /\ Vouched(d, l.blob) => l.native = "none"
                /\ ~Named(d, l.blob) /\ Listed(d, l.blob) => l.native = "WholeFile"
                /\ ~Named(d, l.blob) /\ ~Listed(d, l.blob) /\ InSection(d, l) => l.native = "PeSection"

Digests(l) == IF IsPe(l.static.content_type)
              THEN section_digests(Tables(l), Blob[l.blob].sections, Len(SampleText(l.blob, l.origin))) ELSE {}
Hash(l) == evaluate(l.blob, Size(l.blob), l.md5, Digests(l))
Informed(l) == l.fresh => l.md5 = (l.origin # "file" \/ wants_file_md5(Size(l.blob)))

\* The sizes noted are those of the index; a search has begun only if no hash
\* matched and nothing vouches for the file.
HashInv ==
  /\ index \in Range(Loaded)
  /\ stage \in {"reading", "static", "index", "search"} => leaf.native = "none" /\ Informed(leaf)
  /\ stage = "search" /\ leaf.fresh => ~is_allowlisted(leaf.blob, leaf.md5) /\ Hash(leaf) = None
  /\ stage = "rules" /\ leaf.static.sha256 /\ leaf.fresh => Agrees(index, leaf)

\* What is noted of an index as it is loaded.
LEMMA IndexFacts ==
  ASSUME index \in Range(Loaded)
  PROVE  /\ index.md5_sizes = {e.size : e \in {f \in index.files \cup index.allow : f.algorithm = "md5"}}
         /\ index.section_sizes = {e.size : e \in index.sections}
         /\ \A e \in index.files \cup index.sections : e.algorithm \in {"sha256", "md5"}
<1>1. PICK n \in DOMAIN Databases : index = Loaded[n]
  BY DEF Range, Loaded
<1>2. /\ index.files = Databases[n].files /\ index.allow = Databases[n].allow
      /\ index.sections = Databases[n].sections
      /\ index.md5_sizes = md5_sizes(Databases[n]) /\ index.section_sizes = section_sizes(Databases[n])
  BY <1>1 DEF Loaded
<1>3. \A e \in Databases[n].files \cup Databases[n].sections : e.algorithm \in {"sha256", "md5"}
  BY IndexAssumption DEF IsDatabase
<1> QED BY <1>2, <1>3 DEF md5_sizes, section_sizes

\* A size an MD5 signature names is one for which the MD5 is computed.
LEMMA SizesNoted ==
  ASSUME index \in Range(Loaded), NEW l, l.fresh, Informed(l),
         NEW e \in index.files \cup index.allow, e.algorithm = "md5",
         size_matches(e.size, Size(l.blob))
  PROVE  l.md5
<1>1. e.size \in index.md5_sizes
  BY IndexFacts
<1>2. e.size \in {None, Size(l.blob)}
  BY DEF size_matches
<1> QED BY <1>1, <1>2 DEF wants_file_md5, Informed

\* A file one of whose lists vouches for it is passed over; otherwise the hashes
\* say what the lists say.
LEMMA HashFacts ==
  ASSUME index \in Range(Loaded), NEW l, l.fresh, Informed(l)
  PROVE  /\ Vouched(index, l.blob) => is_allowlisted(l.blob, l.md5)
         /\ is_allowlisted(l.blob, l.md5) => Named(index, l.blob) /\ Hash(l) = None
         /\ ~Named(index, l.blob) /\ Listed(index, l.blob) => Hash(l) = "WholeFile"
         /\ ~Named(index, l.blob) /\ ~Listed(index, l.blob) /\ InSection(index, l) => Hash(l) = "PeSection"
<1> DEFINE b == l.blob
<1>1. Vouched(index, b) => is_allowlisted(b, l.md5)
  <2> SUFFICES ASSUME NEW e \in index.allow, e.of = b, e.algorithm = "md5" => size_matches(e.size, Size(b))
               PROVE  is_allowlisted(b, l.md5)
    BY DEF Vouched
  <2>1. e.algorithm = "md5" => l.md5
    BY SizesNoted
  <2> QED BY <2>1 DEF is_allowlisted
<1>2. is_allowlisted(b, l.md5) => Named(index, b) /\ Hash(l) = None
  BY DEF is_allowlisted, Named, Hash, evaluate
<1>3. ASSUME ~Named(index, b), Listed(index, b) PROVE Hash(l) = "WholeFile"
  <2>1. PICK e \in index.files : e.of = b /\ size_matches(e.size, Size(b))
    BY <1>3 DEF Listed
  <2>2. e.algorithm \in {"sha256", "md5"}
    BY IndexFacts
  <2>3. e.algorithm = "md5" => l.md5
    BY <2>1, SizesNoted
  <2>4. lookup(index.files, "sha256", b, Size(b)) \/ (l.md5 /\ lookup(index.files, "md5", b, Size(b)))
    BY <2>1, <2>2, <2>3 DEF lookup
  <2>5. ~is_allowlisted(b, l.md5)
    BY <1>2, <1>3
  <2> QED BY <2>4, <2>5 DEF Hash, evaluate
<1>4. ASSUME ~Named(index, b), ~Listed(index, b), InSection(index, l) PROVE Hash(l) = "PeSection"
  <2>1. PICK s \in Blob[b].sections, e \in index.sections :
          /\ s.size # 0 /\ s.start + s.size <= Len(SampleText(b, l.origin))
          /\ e.of = s.of /\ size_matches(e.size, s.size)
    BY <1>4 DEF InSection
  <2>2. e.size \in index.section_sizes /\ e.size \in {None, s.size} /\ e.algorithm \in {"sha256", "md5"}
    BY <2>1, IndexFacts DEF size_matches
  <2>3. s \in Digests(l)
    BY <1>4, <2>1, <2>2 DEF InSection, Digests, section_digests
  <2>4. lookup(index.sections, e.algorithm, s.of, s.size)
    BY <2>1 DEF lookup
  <2>5. \E t \in Digests(l), a \in {"sha256", "md5"} : lookup(index.sections, a, t.of, t.size)
    BY <2>2, <2>3, <2>4
  <2>6. ~lookup(index.files, "sha256", b, Size(b)) /\ ~lookup(index.files, "md5", b, Size(b))
    BY <1>4 DEF lookup, Listed
  <2>7. ~is_allowlisted(b, l.md5)
    BY <1>2, <1>4
  <2> QED BY <2>5, <2>6, <2>7 DEF Hash, evaluate
<1> QED BY <1>1, <1>2, <1>3, <1>4

\* The invariant says of the rules' stage what the property says.
LEMMA HashSays == ASSUME HashInv PROVE HashesAgree
BY DEF HashInv, HashesAgree, Agrees, Named, Vouched, Listed, InSection, Tables

\* A sample that is begun asks the index that is there.
LEMMA HashBegins ==
  ASSUME HashInv, index' = index, NEW b, NEW origin, NEW part, leaf' = Leaf(b, origin, part),
         stage' \in {"reading", "static"}
  PROVE  HashInv'
<1>1. /\ leaf'.native = "none" /\ leaf'.blob = b /\ leaf'.origin = origin
      /\ leaf'.md5 = (origin # "file" \/ wants_file_md5(Size(b)))
  BY DEF Leaf
<1>2. Informed(leaf)'
  BY <1>1 DEF Informed, wants_file_md5
<1> QED BY <1>1, <1>2 DEF HashInv

\* Where no hash is asked.
LEMMA HashElsewhere ==
  ASSUME HashInv, index' = index, stage' \notin {"reading", "static", "index", "search", "rules"}
  PROVE  HashInv'
BY DEF HashInv

\* Where nothing moves.
LEMMA HashStays ==
  ASSUME HashInv, UNCHANGED <<index, stage, leaf>>
  PROVE  HashInv'
BY DEF HashInv, Informed, Hash, Digests, Agrees, Named, Vouched, Listed, InSection,
       Tables, wants_file_md5, is_allowlisted, evaluate, section_digests

\* The sample is looked up.
LEMMA HashLookUp ==
  ASSUME ShapeInv, HashInv, LookUp
  PROVE  HashInv'
<1>1. /\ stage = "index" /\ index' = index /\ leaf \in LeafType
      /\ index \in Range(Loaded) /\ leaf.native = "none" /\ Informed(leaf)
  BY DEF LookUp, HashInv, ShapeInv, TypeInv, BeginScan, indexVars
<1>2. \/ ~leaf.static.sha256 /\ stage' = "rules" /\ leaf' = leaf
      \/ Hash(leaf) # None /\ leaf' = [leaf EXCEPT !.native = Hash(leaf)] /\ stage' = "rules"
      \/ Hash(leaf) = None /\ is_allowlisted(leaf.blob, leaf.md5) /\ stage' = "rules" /\ leaf' = leaf
      \/ Hash(leaf) = None /\ ~is_allowlisted(leaf.blob, leaf.md5) /\ stage' = "search" /\ leaf' = leaf
  BY DEF LookUp, Hash, Digests, Tables, SampleOf
<1>3. leaf'.static = leaf.static /\ leaf'.fresh = leaf.fresh /\ leaf'.blob = leaf.blob
      /\ leaf'.origin = leaf.origin /\ leaf'.md5 = leaf.md5
  <2>1. PICK n : leaf' = leaf \/ leaf' = [leaf EXCEPT !.native = n]
    BY <1>2
  <2>2. CASE leaf' = leaf
    BY <2>2
  <2>3. CASE leaf' = [leaf EXCEPT !.native = n]
    BY <2>3
  <2> QED BY <2>1, <2>2, <2>3
<1>4. CASE stage' = "search"
  <2>1. leaf' = leaf /\ ~is_allowlisted(leaf.blob, leaf.md5) /\ Hash(leaf) = None
    BY <1>2, <1>4
  <2>2. Informed(leaf)' /\ ~is_allowlisted(leaf.blob, leaf.md5)' /\ Hash(leaf)' = None
    BY <1>1, <2>1 DEF Informed, Hash, Digests, Tables, wants_file_md5, is_allowlisted,
       evaluate, section_digests
  <2> QED BY <1>1, <1>4, <2>1, <2>2 DEF HashInv
<1>5. CASE stage' = "rules"
  <2>1. ASSUME leaf.static.sha256, leaf.fresh PROVE Agrees(index, leaf')
    <3>1. /\ Vouched(index, leaf.blob) => is_allowlisted(leaf.blob, leaf.md5)
          /\ is_allowlisted(leaf.blob, leaf.md5) => Named(index, leaf.blob) /\ Hash(leaf) = None
          /\ ~Named(index, leaf.blob) /\ Listed(index, leaf.blob) => Hash(leaf) = "WholeFile"
          /\ ~Named(index, leaf.blob) /\ ~Listed(index, leaf.blob) /\ InSection(index, leaf) =>
               Hash(leaf) = "PeSection"
      BY <1>1, <2>1, HashFacts
    <3>2. InSection(index, leaf') = InSection(index, leaf)
      BY <1>3 DEF InSection, Tables
    <3>3. CASE Hash(leaf) # None
      <4>1. leaf' = [leaf EXCEPT !.native = Hash(leaf)]
        BY <1>2, <1>5, <2>1, <3>3
      <4>2. leaf'.native = Hash(leaf)
        BY <1>1, <4>1 DEF LeafType
      <4> QED BY <1>3, <3>1, <3>2, <3>3, <4>2 DEF Agrees
    <3>4. CASE Hash(leaf) = None
      <4>1. leaf' = leaf /\ is_allowlisted(leaf.blob, leaf.md5)
        BY <1>2, <1>5, <2>1, <3>4
      <4> QED BY <1>1, <3>1, <4>1 DEF Agrees
    <3> QED BY <3>3, <3>4
  <2> QED BY <1>1, <1>3, <1>5, <2>1 DEF HashInv
<1> QED BY <1>2, <1>4, <1>5

\* A search ends: no list vouched for the file, and none named it.
LEMMA HashSearched ==
  ASSUME ShapeInv, HashInv, SearchEnds
  PROVE  HashInv'
<1>1. /\ stage = "search" /\ stage' = "rules" /\ index' = index /\ leaf \in LeafType
      /\ index \in Range(Loaded) /\ Informed(leaf)
      /\ leaf.fresh => ~is_allowlisted(leaf.blob, leaf.md5) /\ Hash(leaf) = None
  BY DEF SearchEnds, HashInv, ShapeInv, TypeInv
<1>2. PICK n : leaf' = [leaf EXCEPT !.native = n]
  BY DEF SearchEnds
<1>3. leaf'.static = leaf.static /\ leaf'.fresh = leaf.fresh /\ leaf'.blob = leaf.blob
      /\ leaf'.origin = leaf.origin
  BY <1>2
<1>4. ASSUME leaf.fresh PROVE Agrees(index, leaf')
  <2>1. /\ Vouched(index, leaf.blob) => is_allowlisted(leaf.blob, leaf.md5)
        /\ ~Named(index, leaf.blob) /\ Listed(index, leaf.blob) => Hash(leaf) = "WholeFile"
        /\ ~Named(index, leaf.blob) /\ ~Listed(index, leaf.blob) /\ InSection(index, leaf) =>
             Hash(leaf) = "PeSection"
    BY <1>1, <1>4, HashFacts
  <2>2. InSection(index, leaf') = InSection(index, leaf)
    BY <1>3 DEF InSection, Tables
  <2>3. None # "WholeFile" /\ None # "PeSection"
    BY IndexAssumption
  <2> QED BY <1>1, <1>3, <1>4, <2>1, <2>2, <2>3 DEF Agrees
<1> QED BY <1>1, <1>3, <1>4 DEF HashInv

\* The index is replaced: what was learned from the one before is history.
LEMMA HashReplaced ==
  ASSUME ShapeInv, HashInv, ReplaceIndex
  PROVE  HashInv'
<1>1. index' \in Range(Loaded) /\ stage' = stage
  BY DEF ReplaceIndex, Replace
<1>2. CASE stage = "idle"
  BY <1>1, <1>2 DEF HashInv
<1>3. CASE stage # "idle"
  <2>1. leaf \in LeafType /\ leaf' = [leaf EXCEPT !.fresh = FALSE]
    BY <1>3 DEF ReplaceIndex, ShapeInv, TypeInv
  <2>2. ~leaf'.fresh /\ leaf'.native = leaf.native
    BY <2>1 DEF LeafType
  <2> QED BY <1>1, <2>2 DEF HashInv, Informed
<1> QED BY <1>2, <1>3

\* Every step keeps it.
LEMMA HashNext ==
  ASSUME ShapeInv, HashInv, [Next]_vars
  PROVE  HashInv'
<1>1. CASE \E b \in Files, origin \in {"file", "bytes", "amsi"} : Submit(b, origin)
  <2>1. PICK b, origin : Submit(b, origin)
    BY <1>1
  <2>2. index' = index /\ leaf' = Leaf(b, origin, "outer") /\ stage' \in {"reading", "static"}
    BY <2>1 DEF Submit, indexVars
  <2> QED BY <2>2, HashBegins
<1>2. CASE ReadFile
  <2>1. stage = "reading" /\ stage' = "static" /\ index' = index /\ leaf' = leaf
    BY <1>2 DEF ReadFile, indexVars
  <2>2. leaf.native = "none" /\ Informed(leaf)
    BY <2>1 DEF HashInv
  <2>3. leaf'.native = "none" /\ Informed(leaf)'
    BY <2>1, <2>2 DEF Informed, wants_file_md5
  <2> QED BY <2>1, <2>3 DEF HashInv
<1>3. CASE ScanStatic
  <2>1. stage = "static" /\ stage' = "index" /\ index' = index
    BY <1>3 DEF ScanStatic, indexVars
  <2>2. leaf.native = "none" /\ Informed(leaf)
    BY <2>1 DEF HashInv
  <2>3. /\ leaf'.native = leaf.native /\ leaf'.fresh = leaf.fresh /\ leaf'.md5 = leaf.md5
        /\ leaf'.origin = leaf.origin /\ leaf'.blob = leaf.blob
    BY <1>3 DEF ScanStatic
  <2>4. leaf'.native = "none" /\ Informed(leaf)'
    BY <2>1, <2>2, <2>3 DEF Informed, wants_file_md5
  <2> QED BY <2>1, <2>4 DEF HashInv
<1>4. CASE LookUp
  BY <1>4, HashLookUp
<1>5. CASE Search
  <2>1. UNCHANGED <<index, stage, leaf>>
    BY <1>5 DEF Search, Hit, Judge, detectionVars
  <2> QED BY <2>1, HashStays
<1>6. CASE SearchEnds
  BY <1>6, HashSearched
<1>7. CASE ReplaceIndex
  BY <1>7, HashReplaced
<1>8. CASE ReplaceEngine \/ UNCHANGED vars
  BY <1>8, HashStays DEF ReplaceEngine, indexVars, vars, detectionVars
<1>9. CASE DecompressMacro
  <2>1. index' = index /\ stage = "macro"
    BY <1>9 DEF DecompressMacro, indexVars
  <2>2. leaf \in LeafType /\ leaf.blob \in Blobs
    BY <2>1 DEF ShapeInv, TypeInv, LeafType
  <2>3. CASE leaf' = leaf /\ stage' = "walk"
    BY <2>1, <2>3, HashElsewhere
  <2>4. CASE leaf' = Leaf(Blob[leaf.blob].macro, "bytes", "macro") /\ stage' = "static"
    BY <2>1, <2>4, HashBegins
  <2> QED BY <1>9, <2>2, <2>3, <2>4, MacroTaken
<1>10. CASE WalkZip \/ WalkOle \/ WalkGzip
  <2>1. index' = index /\ stage = "walk"
    BY <1>10 DEF WalkZip, WalkOle, WalkGzip, Walking, indexVars
  <2>2. PICK i : Passed(i) \/ Taken(i)
    BY <1>10, Walks DEF ShapeInv, WalkStep
  <2>3. CASE Passed(i)
    BY <2>1, <2>3, HashElsewhere DEF Passed
  <2>4. CASE Taken(i)
    BY <2>1, <2>4, HashBegins DEF Taken
  <2> QED BY <2>2, <2>3, <2>4
<1>11. CASE FinishLeaf
  <2>1. index' = index
    BY <1>11 DEF FinishLeaf, indexVars
  <2>2. PICK r : OuterEnds(r) \/ EntryEnds(r) \/ MacroEnds(r)
    BY <1>11, LeafEnds
  <2>3. stage' \in {"walk", "macro", "done"}
    BY <2>2 DEF OuterEnds, EntryEnds, MacroEnds, WalkBegins, ReportStands, Report
  <2> QED BY <2>1, <2>3, HashElsewhere
<1>12. CASE \/ ReadFails \/ Panic \/ (\E failed \in BOOLEAN : RunRules(failed)) \/ Lapse
            \/ LeaveContainer \/ EndInspection \/ Deliver
  <2>1. index' = index /\ stage' \in {"done", "amsi", "walk", "idle"}
    BY <1>12 DEF ReadFails, Panic, PanicScan, Report, RunRules, Lapse, LeaveContainer,
       EndInspection,
                 Deliver, indexVars
  <2> QED BY <2>1, HashElsewhere
<1> QED BY <1>1, <1>2, <1>3, <1>4, <1>5, <1>6, <1>7, <1>8, <1>9, <1>10, <1>11, <1>12 DEF Next

\* An index that is not replaced meanwhile says of a file what its lists say,
\* and the sizes that save computing digests lose none of it (HashesAgree;
\* native_index.rs wants_file_md5, section_digests, evaluate).
THEOREM HashesAlwaysAgree == Spec => []HashesAgree
<1>1. Init => ShapeInv /\ HashInv
  <2> SUFFICES ASSUME Init PROVE HashInv
    BY ShapeInit
  <2>1. index \in Range(Loaded)
    BY IndexAssumption DEF Init, IndexInit, Range, Loaded
  <2> QED BY <2>1 DEF Init, HashInv
<1>2. ShapeInv /\ HashInv /\ [Next]_vars => ShapeInv' /\ HashInv'
  BY ShapeNext, HashNext
<1> QED BY <1>1, <1>2, HashSays, PTL DEF Spec

-----------------------------------------------------------------------------
(* What was found out is kept.                                             *)

FoundIn(s) == UNION {Range(s[k].findings) : k \in DOMAIN s}
CountIn(s) == IF Len(s) = 2 THEN Len(s[1].findings) + Len(s[2].findings)
              ELSE IF Len(s) = 1 THEN Len(s[1].findings) ELSE 0
Sound(r) == /\ r.verdict # "Error"
            /\ r.verdict = "Malicious" => seen.malicious
            /\ r.quarantine => r.verdict = "Malicious" /\ seen.identified
Known ==
  /\ \A f \in FoundIn(insp) : Sound(f) /\ f.verdict # "Clean"
  /\ Sound(outer)
  /\ CountIn(insp) <= seen.flagged
  /\ seen.malicious /\ seen.flagged <= MaxFindings =>
       \/ outer.verdict = "Malicious"
       \/ \E f \in FoundIn(insp) : f.verdict = "Malicious"

\* Every finding is of something analysed, and the strongest of them is there as
\* long as none had to be dropped.
UnderWay == stage \in {"walk", "macro"} \/ (stage \in Sampling /\ leaf.part # "outer")
FindingInv == (UnderWay => Known) /\ StrongestEntryDecides

\* The findings of a sequence.
LEMMA RangeFacts ==
  ASSUME NEW S, NEW s \in Seq(S)
  PROVE  Range(s) = {s[j] : j \in 1..Len(s)}
BY DEF Range

\* The findings with one more.
LEMMA RangeGrows ==
  ASSUME NEW S, NEW s \in Seq(S), NEW x \in S
  PROVE  Range(Append(s, x)) = Range(s) \cup {x}
<1>1. Append(s, x) \in Seq(S) /\ Len(Append(s, x)) = Len(s) + 1 /\ Append(s, x)[Len(s) + 1] = x
  BY AddLast
<1>2. \A k \in 1..Len(s) : Append(s, x)[k] = s[k]
  BY AddLast
<1>3. Range(s) = {s[j] : j \in 1..Len(s)}
  BY RangeFacts
<1>4. Range(Append(s, x)) = {Append(s, x)[j] : j \in 1..(Len(s) + 1)}
  BY <1>1, RangeFacts
<1>5. Len(s) \in Nat
  OBVIOUS
<1>6. \A j \in 1..(Len(s) + 1) : j \in 1..Len(s) \/ j = Len(s) + 1
  BY <1>5
<1>7. \A j \in 1..Len(s) : j \in 1..(Len(s) + 1)
  BY <1>5
<1>8. Len(s) + 1 \in 1..(Len(s) + 1)
  BY <1>5
<1> QED BY <1>1, <1>2, <1>3, <1>4, <1>6, <1>7, <1>8

\* What one inspection found, and what two did.
LEMMA FoundFacts ==
  ASSUME NEW s \in Seq(InspType)
  PROVE  /\ Len(s) = 1 => FoundIn(s) = Range(s[1].findings) /\ CountIn(s) = Len(s[1].findings)
         /\ Len(s) = 2 => /\ FoundIn(s) = Range(s[1].findings) \cup Range(s[2].findings)
                          /\ CountIn(s) = Len(s[1].findings) + Len(s[2].findings)
         /\ Len(s) = 0 => FoundIn(s) = {} /\ CountIn(s) = 0
         /\ \A k \in 1..Len(s) : s[k].findings \in Seq(ReportType) /\ Len(s[k].findings) \in Nat
<1>1. DOMAIN s = 1..Len(s)
  OBVIOUS
<1>2. Len(s) = 1 => FoundIn(s) = Range(s[1].findings) /\ CountIn(s) = Len(s[1].findings)
  <2> SUFFICES ASSUME Len(s) = 1 PROVE FoundIn(s) = Range(s[1].findings)
    BY DEF CountIn
  <2>1. DOMAIN s = {1}
    BY <1>1
  <2> QED BY <2>1 DEF FoundIn
<1>3. Len(s) = 2 => /\ FoundIn(s) = Range(s[1].findings) \cup Range(s[2].findings)
                    /\ CountIn(s) = Len(s[1].findings) + Len(s[2].findings)
  <2> SUFFICES ASSUME Len(s) = 2 PROVE FoundIn(s) = Range(s[1].findings) \cup Range(s[2].findings)
    BY DEF CountIn
  <2>1. DOMAIN s = {1, 2}
    BY <1>1
  <2> QED BY <2>1 DEF FoundIn
<1>4. Len(s) = 0 => FoundIn(s) = {} /\ CountIn(s) = 0
  <2> SUFFICES ASSUME Len(s) = 0 PROVE FoundIn(s) = {}
    BY DEF CountIn
  <2>1. DOMAIN s = {}
    BY <1>1
  <2> QED BY <2>1 DEF FoundIn
<1>5. \A k \in 1..Len(s) : s[k].findings \in Seq(ReportType) /\ Len(s[k].findings) \in Nat
  <2> SUFFICES ASSUME NEW k \in 1..Len(s)
               PROVE  s[k].findings \in Seq(ReportType) /\ Len(s[k].findings) \in Nat
    OBVIOUS
  <2>1. s[k] \in InspType
    OBVIOUS
  <2> QED BY <2>1, InspNumbers
<1> QED BY <1>2, <1>3, <1>4, <1>5

\* Nothing is found.
LEMMA FoundSame ==
  ASSUME NEW s \in Seq(InspType), NEW t \in Seq(InspType), Len(t) = Len(s),
         \A k \in 1..Len(s) : t[k].findings = s[k].findings
  PROVE  FoundIn(t) = FoundIn(s) /\ CountIn(t) = CountIn(s)
<1>1. DOMAIN s = 1..Len(s) /\ DOMAIN t = 1..Len(s)
  OBVIOUS
<1>2. FoundIn(t) = FoundIn(s)
  BY <1>1 DEF FoundIn
<1>3. Len(s) = 2 => 1 \in 1..Len(s) /\ 2 \in 1..Len(s)
  OBVIOUS
<1>4. Len(s) = 1 => 1 \in 1..Len(s)
  OBVIOUS
<1> QED BY <1>2, <1>3, <1>4 DEF CountIn

\* The innermost inspection has one more finding.
LEMMA FoundMore ==
  ASSUME NEW s \in Seq(InspType), NEW t \in Seq(InspType), Len(t) = Len(s),
         Len(s) = 1 \/ Len(s) = 2,
         NEW r \in ReportType, t[Len(s)].findings = Append(s[Len(s)].findings, r),
         \A k \in 1..Len(s) : k # Len(s) => t[k].findings = s[k].findings
  PROVE  FoundIn(t) = FoundIn(s) \cup {r} /\ CountIn(t) = CountIn(s) + 1
<1> DEFINE last == s[Len(s)].findings
<1>1. last \in Seq(ReportType) /\ Len(last) \in Nat
  <2>1. Len(s) \in 1..Len(s)
    OBVIOUS
  <2> QED BY <2>1, FoundFacts
<1> HIDE DEF last
<1>2. Range(Append(last, r)) = Range(last) \cup {r} /\ Len(Append(last, r)) = Len(last) + 1
  BY <1>1, RangeGrows, AddLast
<1>3. CASE Len(s) = 1
  <2>1. s[1].findings = last /\ t[1].findings = Append(last, r)
    BY <1>3 DEF last
  <2> QED BY <1>2, <1>3, <2>1, FoundFacts
<1>4. CASE Len(s) = 2
  <2>1. s[2].findings = last /\ t[2].findings = Append(last, r) /\ t[1].findings = s[1].findings
    BY <1>4 DEF last
  <2>2. Len(s[1].findings) \in Nat
    BY <1>4, FoundFacts
  <2>3. /\ FoundIn(s) = Range(s[1].findings) \cup Range(last)
        /\ FoundIn(t) = Range(s[1].findings) \cup Range(Append(last, r))
        /\ CountIn(s) = Len(s[1].findings) + Len(last)
        /\ CountIn(t) = Len(s[1].findings) + Len(Append(last, r))
    BY <1>4, <2>1, FoundFacts
  <2>4. FoundIn(t) = FoundIn(s) \cup {r}
    BY <1>2, <2>3
  <2>5. CountIn(t) = CountIn(s) + 1
    <3> DEFINE n == Len(s[1].findings)
               m == Len(last)
    <3>1. n \in Nat /\ m \in Nat /\ CountIn(s) = n + m /\ CountIn(t) = n + (m + 1)
      BY <1>1, <1>2, <2>2, <2>3
    <3> HIDE DEF n, m
    <3> QED BY ONLY <3>1
  <2> QED BY <2>4, <2>5
<1> QED BY <1>3, <1>4

\* A compound file's inspection begins with nothing found.
LEMMA FoundBeside ==
  ASSUME NEW s \in Seq(InspType), Len(s) = 1, NEW o \in InspType, o.findings = <<>>
  PROVE  FoundIn(Append(s, o)) = FoundIn(s) /\ CountIn(Append(s, o)) = CountIn(s)
<1> DEFINE t == Append(s, o)
<1>1. t \in Seq(InspType) /\ Len(t) = 2 /\ t[2] = o /\ t[1] = s[1]
  <2>1. /\ Append(s, o) \in Seq(InspType) /\ Len(Append(s, o)) = Len(s) + 1
        /\ Append(s, o)[Len(s) + 1] = o /\ \A k \in 1..Len(s) : Append(s, o)[k] = s[k]
    <3> DEFINE S == InspType
    <3>1. s \in Seq(S) /\ o \in S
      OBVIOUS
    <3> HIDE DEF S
    <3>2. /\ Append(s, o) \in Seq(S) /\ Len(Append(s, o)) = Len(s) + 1
          /\ Append(s, o)[Len(s) + 1] = o /\ \A k \in 1..Len(s) : Append(s, o)[k] = s[k]
      BY ONLY <3>1, AddLast
    <3> QED BY <3>2 DEF S
  <2>2. 1 + 1 = 2 /\ 1 \in 1..Len(s)
    OBVIOUS
  <2> QED BY <2>1, <2>2
<1> HIDE DEF t
<1>2. Len(s[1].findings) \in Nat
  BY FoundFacts
<1>3. Range(o.findings) = {} /\ Len(o.findings) = 0
  BY DEF Range
<1>4. FoundIn(t) = Range(s[1].findings) \cup {} /\ CountIn(t) = Len(s[1].findings) + 0
  BY <1>1, <1>3, FoundFacts
<1>5. FoundIn(s) = Range(s[1].findings) /\ CountIn(s) = Len(s[1].findings)
  BY FoundFacts
<1> QED BY <1>2, <1>4, <1>5 DEF t

\* Two inspections are made one: nothing is made up, and nothing is dropped as
\* long as there is room.
LEMMA FoundMerged ==
  ASSUME NEW s \in Seq(InspType), Len(s) = 2, NEW n \in InspType, n.findings = s[2].findings
  PROVE  LET t == <<merge_nested_inspection(s[1], n)>> IN
         /\ FoundIn(t) \subseteq FoundIn(s) /\ CountIn(t) <= CountIn(s)
         /\ CountIn(s) <= MaxFindings => FoundIn(t) = FoundIn(s)
<1> DEFINE i == s[1]
           j == merge_nested_inspection(i, n)
           t == <<j>>
           a == i.findings
           b == n.findings
<1>1. i \in InspType /\ a \in Seq(ReportType) /\ b \in Seq(ReportType) /\ Len(a) \in Nat /\ Len(b) \in Nat
  <2>1. i \in InspType
    OBVIOUS
  <2> QED BY <2>1, InspNumbers
<1>2. /\ j \in InspType /\ j.findings \in Seq(ReportType) /\ Len(j.findings) <= Len(a) + Len(b)
      /\ Len(a) + Len(b) <= MaxFindings => Len(j.findings) = Len(a) + Len(b)
      /\ \A k \in 1..Len(j.findings) : j.findings[k] = IF k <= Len(a) THEN a[k] ELSE b[k - Len(a)]
  BY <1>1, Merged
<1>3. FoundIn(s) = Range(a) \cup Range(b) /\ CountIn(s) = Len(a) + Len(b)
  BY FoundFacts
<1> HIDE DEF j, a, b
<1>4. t \in Seq(InspType) /\ Len(t) = 1 /\ t[1] = j
  BY <1>2
<1>5. FoundIn(t) = Range(j.findings) /\ CountIn(t) = Len(j.findings)
  BY <1>4, FoundFacts
<1>6. /\ Range(a) = {a[k] : k \in 1..Len(a)} /\ Range(b) = {b[k] : k \in 1..Len(b)}
      /\ Range(j.findings) = {j.findings[k] : k \in 1..Len(j.findings)}
  BY <1>1, <1>2, RangeFacts
<1> DEFINE m == Len(j.findings)
<1>7. m \in Nat
  BY <1>2
<1>8. \A k \in 1..m : k \in 1..Len(a) \/ (~(k <= Len(a)) /\ k - Len(a) \in 1..Len(b))
  BY <1>1, <1>2, <1>7
<1>9. Range(j.findings) \subseteq Range(a) \cup Range(b)
  <2> SUFFICES ASSUME NEW k \in 1..m PROVE j.findings[k] \in Range(a) \cup Range(b)
    BY <1>6
  <2>1. CASE k \in 1..Len(a)
    <3>1. k <= Len(a)
      BY <1>1, <2>1
    <3> QED BY <1>2, <1>6, <2>1, <3>1
  <2>2. CASE ~(k <= Len(a)) /\ k - Len(a) \in 1..Len(b)
    BY <1>2, <1>6, <2>2
  <2> QED BY <1>8, <2>1, <2>2
<1>10. ASSUME Len(a) + Len(b) <= MaxFindings PROVE Range(a) \cup Range(b) \subseteq Range(j.findings)
  <2>1. m = Len(a) + Len(b)
    BY <1>2, <1>10
  <2>2. ASSUME NEW k \in 1..Len(a) PROVE a[k] \in Range(j.findings)
    <3>1. k \in 1..m /\ k <= Len(a)
      BY <1>1, <2>1
    <3> QED BY <1>2, <1>6, <3>1
  <2>3. ASSUME NEW k \in 1..Len(b) PROVE b[k] \in Range(j.findings)
    <3> DEFINE l == Len(a) + k
    <3>1. l \in 1..m /\ ~(l <= Len(a)) /\ l - Len(a) = k
      BY <1>1, <2>1
    <3> HIDE DEF l
    <3> QED BY <1>2, <1>6, <3>1
  <2> QED BY <1>6, <2>2, <2>3
<1> QED BY <1>2, <1>3, <1>5, <1>9, <1>10 DEF j

\* A step that finds nothing.
LEMMA KnownStays ==
  ASSUME Known, FoundIn(insp') = FoundIn(insp), CountIn(insp') = CountIn(insp),
         UNCHANGED <<outer, seen>>
  PROVE  Known'
BY DEF Known, Sound

Recorded(r) ==
  \/ /\ FoundIn(insp') = FoundIn(insp) /\ CountIn(insp') = CountIn(insp)
     /\ r.verdict = "Clean" \/ CountIn(insp) >= MaxFindings
  \/ /\ FoundIn(insp') = FoundIn(insp) \cup {r} /\ CountIn(insp') = CountIn(insp) + 1
     /\ r.verdict # "Clean"

\* A sample inside a container is found to be something.
LEMMA KnownGains ==
  ASSUME Known, TypeInv, CountIn(insp) \in Nat, NEW r, IsLeafReport(r), Noticed(r),
         leaf.part # "outer",
         Recorded(r), outer' = outer
  PROVE  Known'
<1>1. seen \in SeenType /\ seen.flagged \in Nat /\ seen.malicious \in BOOLEAN /\ seen.identified \in BOOLEAN
  BY DEF TypeInv, SeenType
<1>2. /\ seen'.malicious = (seen.malicious \/ r.verdict = "Malicious")
      /\ seen'.flagged = seen.flagged + IF r.verdict # "Clean" THEN 1 ELSE 0
      /\ seen'.identified = (seen.identified \/ r.quarantine)
  BY DEF Noticed
<1>3. r \in ReportType /\ r.verdict # "Error" /\ (r.quarantine => r.verdict = "Malicious")
  BY DEF IsLeafReport
<1>4. \A f : Sound(f) => Sound(f)'
  BY <1>2 DEF Sound
<1>5. Sound(r)'
  BY <1>2, <1>3 DEF Sound
<1>6. Sound(outer)'
  BY <1>4 DEF Known, Sound
<1>7. \A f \in FoundIn(insp') : (f \in FoundIn(insp) \/ (f = r /\ r.verdict # "Clean"))
  BY DEF Recorded
<1>8. \A f \in FoundIn(insp') : Sound(f)' /\ f.verdict # "Clean"
  BY <1>4, <1>5, <1>7 DEF Known
<1>9. CountIn(insp) <= seen.flagged
  BY DEF Known
<1>10. CountIn(insp') <= seen'.flagged
  <2>1. CASE r.verdict = "Clean"
    <3>1. CountIn(insp') = CountIn(insp) /\ seen'.flagged = seen.flagged + 0
      BY <1>2, <2>1 DEF Recorded
    <3> QED BY <1>1, <1>9, <3>1
  <2>2. CASE r.verdict # "Clean"
    <3>1. CountIn(insp') = CountIn(insp) \/ CountIn(insp') = CountIn(insp) + 1
      BY DEF Recorded
    <3>2. seen'.flagged = seen.flagged + 1
      BY <1>2, <2>2
    <3> QED BY <1>1, <1>9, <3>1, <3>2
  <2> QED BY <2>1, <2>2
<1>11. ASSUME seen'.malicious, seen'.flagged <= MaxFindings
       PROVE  outer'.verdict = "Malicious" \/ \E f \in FoundIn(insp') : f.verdict = "Malicious"
  <2>1. FoundIn(insp) \subseteq FoundIn(insp')
    BY DEF Recorded
  <2>2. CASE r.verdict = "Malicious"
    <3>1. seen'.flagged = seen.flagged + 1
      BY <1>2, <2>2
    <3>2. ~(CountIn(insp) >= MaxFindings)
      BY <1>1, <1>9, <1>11, <3>1, Limits
    <3>3. r \in FoundIn(insp')
      BY <2>2, <3>2 DEF Recorded
    <3> QED BY <2>2, <3>3
  <2>3. CASE r.verdict # "Malicious"
    <3>1. seen.malicious
      BY <1>1, <1>2, <1>11, <2>3
    <3>2. seen.flagged <= MaxFindings
      BY <1>1, <1>2, <1>11, Limits
    <3> QED BY <2>1, <3>1, <3>2 DEF Known
  <2> QED BY <2>2, <2>3
<1> QED BY <1>6, <1>8, <1>10, <1>11 DEF Known, Sound

\* How many findings there are.
LEMMA HowMany ==
  ASSUME ShapeInv, stage # "done"
  PROVE  CountIn(insp) \in Nat /\ (Len(insp) = 0 \/ Len(insp) = 1 \/ Len(insp) = 2)
<1>1. insp \in Seq(InspType) /\ Len(insp) \in Nat /\ Len(insp) <= 2
  BY DEF ShapeInv, TypeInv, StackInv
<1>2. Len(insp) = 0 \/ Len(insp) = 1 \/ Len(insp) = 2
  <2> DEFINE n == Len(insp)
  <2>1. n \in Nat /\ n <= 2
    BY <1>1
  <2> HIDE DEF n
  <2>2. n = 0 \/ n = 1 \/ n = 2
    BY <2>1
  <2> QED BY <2>2 DEF n
<1>3. Len(insp) = 0 => CountIn(insp) \in Nat
  BY <1>1, FoundFacts
<1>4. Len(insp) = 1 => CountIn(insp) \in Nat
  <2> SUFFICES ASSUME Len(insp) = 1 PROVE CountIn(insp) \in Nat
    OBVIOUS
  <2>1. 1 \in 1..Len(insp)
    OBVIOUS
  <2> QED BY <1>1, <2>1, FoundFacts
<1>5. Len(insp) = 2 => CountIn(insp) \in Nat
  <2> SUFFICES ASSUME Len(insp) = 2 PROVE CountIn(insp) \in Nat
    OBVIOUS
  <2>1. 1 \in 1..Len(insp) /\ 2 \in 1..Len(insp)
    OBVIOUS
  <2>2. Len(insp[1].findings) \in Nat /\ Len(insp[2].findings) \in Nat
    BY <1>1, <2>1, FoundFacts
  <2>3. CountIn(insp) = Len(insp[1].findings) + Len(insp[2].findings)
    BY <1>1, FoundFacts
  <2> DEFINE n == Len(insp[1].findings)
             m == Len(insp[2].findings)
  <2>4. n \in Nat /\ m \in Nat /\ CountIn(insp) = n + m
    BY <2>2, <2>3
  <2> HIDE DEF n, m
  <2> QED BY ONLY <2>4
<1> QED BY <1>2, <1>3, <1>4, <1>5

\* The innermost inspection is replaced.
LEMMA FoundUpdated ==
  ASSUME ShapeInv, stage # "done", Len(insp) # 0, NEW j \in InspType, insp' = Upd(j)
  PROVE  /\ j.findings = Top.findings => FoundIn(insp') = FoundIn(insp) /\ CountIn(insp') = CountIn(insp)
         /\ \A r \in ReportType : j.findings = Append(Top.findings, r) =>
              FoundIn(insp') = FoundIn(insp) \cup {r} /\ CountIn(insp') = CountIn(insp) + 1
<1>1. /\ insp' \in Seq(InspType) /\ Len(insp') = Len(insp) /\ insp'[Len(insp)] = j
      /\ \A k \in 1..Len(insp) : k # Len(insp) => insp'[k] = insp[k]
  BY UpdFacts DEF ShapeInv
<1>2. insp \in Seq(InspType) /\ Top = insp[Len(insp)]
  BY DEF ShapeInv, TypeInv, Top
<1>3. Len(insp) = 1 \/ Len(insp) = 2
  BY HowMany
<1>4. ASSUME j.findings = Top.findings
      PROVE  FoundIn(insp') = FoundIn(insp) /\ CountIn(insp') = CountIn(insp)
  <2>1. \A k \in 1..Len(insp) : insp'[k].findings = insp[k].findings
    BY <1>1, <1>2, <1>4
  <2> QED BY <1>1, <1>2, <2>1, FoundSame
<1>5. ASSUME NEW r \in ReportType, j.findings = Append(Top.findings, r)
      PROVE  FoundIn(insp') = FoundIn(insp) \cup {r} /\ CountIn(insp') = CountIn(insp) + 1
  <2>1. insp'[Len(insp)].findings = Append(insp[Len(insp)].findings, r)
    BY <1>1, <1>2, <1>5
  <2>2. \A k \in 1..Len(insp) : k # Len(insp) => insp'[k].findings = insp[k].findings
    BY <1>1
  <2> QED BY <1>1, <1>2, <1>3, <2>1, <2>2, FoundMore
<1> QED BY <1>4, <1>5

\* A finding is recorded in the innermost inspection.
LEMMA FoundRecorded ==
  ASSUME ShapeInv, stage # "done", Len(insp) # 0, NEW r \in ReportType, NEW j, j \in InspType,
         insp' = Upd(j),
         j.findings = record_finding(Top, r).findings
  PROVE  Recorded(r)
<1>1. Top \in InspType
  BY Innermost DEF ShapeInv
<1>2. \/ j.findings = Top.findings /\ (r.verdict = "Clean" \/ Len(Top.findings) >= MaxFindings)
      \/ r.verdict # "Clean" /\ j.findings = Append(Top.findings, r)
  BY <1>1, FindingRecorded
<1>3. CASE j.findings = Top.findings /\ (r.verdict = "Clean" \/ Len(Top.findings) >= MaxFindings)
  <2>1. FoundIn(insp') = FoundIn(insp) /\ CountIn(insp') = CountIn(insp)
    BY <1>3, FoundUpdated
  <2>2. Len(Top.findings) <= CountIn(insp) /\ Len(Top.findings) \in Nat /\ CountIn(insp) \in Nat
    <3>1. insp \in Seq(InspType) /\ (Len(insp) = 1 \/ Len(insp) = 2) /\ CountIn(insp) \in Nat
      BY HowMany DEF ShapeInv, TypeInv
    <3>2. CASE Len(insp) = 1
      <4>1. CountIn(insp) = Len(Top.findings)
        BY <3>1, <3>2, FoundFacts DEF Top
      <4> QED BY <3>1, <4>1
    <3>3. CASE Len(insp) = 2
      <4>1. 1 \in 1..Len(insp)
        BY <3>3
      <4>2. Len(insp[1].findings) \in Nat
        BY <3>1, <4>1, FoundFacts
      <4>3. CountIn(insp) = Len(insp[1].findings) + Len(insp[2].findings) /\ Top = insp[2]
        BY <3>1, <3>3, FoundFacts DEF Top
      <4>4. Len(Top.findings) \in Nat
        BY <1>1, InspNumbers
      <4> DEFINE n == Len(insp[1].findings)
                 m == Len(Top.findings)
      <4>5. n \in Nat /\ m \in Nat /\ CountIn(insp) = n + m
        BY <4>2, <4>3, <4>4
      <4> HIDE DEF n, m
      <4>6. m <= CountIn(insp) /\ m \in Nat
        BY ONLY <4>5
      <4> QED BY <3>1, <4>6 DEF m
    <3> QED BY <3>1, <3>2, <3>3
  <2>3. Len(Top.findings) >= MaxFindings => CountIn(insp) >= MaxFindings
    BY <2>2, Limits
  <2> QED BY <1>3, <2>1, <2>3 DEF Recorded
<1>4. CASE r.verdict # "Clean" /\ j.findings = Append(Top.findings, r)
  BY <1>4, FoundUpdated DEF Recorded
<1> QED BY <1>2, <1>3, <1>4

\* A walk that goes on.
LEMMA FindingGoesOn ==
  ASSUME Known', stage' # "done"
  PROVE  FindingInv'
BY DEF FindingInv, StrongestEntryDecides

\* An error decides nothing.
LEMMA FindingFails ==
  ASSUME NEW rules, Report(error, rules)
  PROVE  FindingInv'
<1>1. outer' = error \/ outer' = amsi_submission(error, rules)
  BY DEF Report
<1>2. error.verdict = "Error" /\ amsi_submission(error, rules).verdict = "Error"
  BY ErrorReport, Submitted DEF Judged
<1> QED BY <1>1, <1>2 DEF FindingInv, StrongestEntryDecides, Report, UnderWay, Sampling

\* A report decides what it should.
LEMMA FindingReport ==
  ASSUME NEW r \in ReportType, NEW rules, Report(r, rules), job'.origin = job.origin,
         seen'.malicious /\ seen'.flagged <= MaxFindings => r.verdict = "Malicious",
         r.verdict = "Malicious" => seen'.malicious,
         r.quarantine => r.verdict = "Malicious" /\ seen'.identified
  PROVE  FindingInv'
<1> DEFINE s == amsi_submission(r, rules)
<1>1. Judged(r, s) /\ s.quarantine = r.quarantine
  BY Submitted
<1> HIDE DEF s
<1>2. outer' = (IF job.origin = "amsi" THEN s ELSE r) /\ stage' = "done"
  BY DEF Report, s
<1>3. CASE job.origin = "amsi"
  BY <1>1, <1>2, <1>3 DEF FindingInv, StrongestEntryDecides, UnderWay, Sampling, Judged
<1>4. CASE job.origin # "amsi"
  BY <1>2, <1>4 DEF FindingInv, StrongestEntryDecides, UnderWay, Sampling
<1> QED BY <1>3, <1>4

\* The file itself has been looked at.
LEMMA FindingOuter ==
  ASSUME ShapeInv, stage = "amsi", NEW r, IsLeafReport(r), Noticed(r), OuterEnds(r),
         leaf \in LeafType
  PROVE  FindingInv'
<1>1. seen = Nothing /\ leaf.part = "outer"
  BY DEF ShapeInv, StageInv, Sampling, OuterEnds
<1>2. r \in ReportType /\ r.verdict # "Error" /\ (r.quarantine => r.verdict = "Malicious")
  BY DEF IsLeafReport
<1>3. /\ seen'.malicious = (r.verdict = "Malicious") /\ seen'.flagged = 0
      /\ seen'.identified = r.quarantine
  <2>1. r.quarantine \in BOOLEAN
    BY <1>2 DEF ReportType
  <2> QED BY <1>1, <2>1 DEF Noticed, Nothing
<1>4. CASE WalkBegins(r)
  <2>1. PICK kind \in Containers :
          /\ stage' = "walk" /\ outer' = r
          /\ insp' = <<Opened(kind, NewInspection, leaf.blob)>>
    BY <1>4 DEF WalkBegins
  <2> DEFINE o == Opened(kind, NewInspection, leaf.blob)
  <2>2. Remarked(NewInspection, o)
    <3>1. leaf.blob \in Blobs
      BY DEF LeafType
    <3> QED BY <3>1, NewInspections, ContainersOpened
  <2> HIDE DEF o
  <2>3. o \in InspType /\ o.findings = <<>>
    BY <2>2, NewInspections DEF Remarked, Silent
  <2>4. insp' = <<o>> /\ insp' \in Seq(InspType) /\ Len(insp') = 1 /\ insp'[1] = o
    BY <2>1, <2>3 DEF o
  <2>5. Range(o.findings) = {} /\ Len(o.findings) = 0
    BY <2>3 DEF Range
  <2>6. FoundIn(insp') = {} /\ CountIn(insp') = 0
    BY <2>4, <2>5, FoundFacts
  <2>7. Sound(outer)'
    BY <1>2, <1>3, <2>1 DEF Sound
  <2>8. seen'.malicious => outer'.verdict = "Malicious"
    BY <1>3, <2>1
  <2>9. Known'
    BY <1>3, <2>6, <2>7, <2>8 DEF Known, Sound
  <2> QED BY <2>1, <2>9, FindingGoesOn
<1>5. CASE ReportStands(r)
  <2>1. job'.origin = job.origin
    <3>1. job \in JobType
      BY DEF ShapeInv, TypeInv
    <3> QED BY <3>1 DEF OuterEnds, JobType
  <2> QED BY <1>2, <1>3, <1>5, <2>1, FindingReport DEF ReportStands
<1> QED BY <1>4, <1>5 DEF OuterEnds

\* An entry, or a macro's source, has been looked at.
LEMMA FindingInner ==
  ASSUME ShapeInv, FindingInv, stage = "amsi", NEW r, IsLeafReport(r), Noticed(r),
         EntryEnds(r) \/ MacroEnds(r),
         leaf \in LeafType, Len(insp) # 0
  PROVE  FindingInv'
<1>1. TypeInv /\ stage # "done" /\ leaf.part # "outer" /\ Known /\ r \in ReportType
  BY DEF ShapeInv, FindingInv, UnderWay, Sampling, EntryEnds, MacroEnds, IsLeafReport
<1>2. outer' = outer /\ stage' # "done"
  BY DEF EntryEnds, MacroEnds
<1>3. CountIn(insp) \in Nat /\ (Len(insp) = 1 \/ Len(insp) = 2)
  BY <1>1, HowMany
<1>4. Top \in InspType
  BY <1>1, Innermost
<1> DEFINE i == record_finding(Top, r)
           b == leaf.blob
<1>5. i \in InspType
  BY <1>1, <1>4, FindingRecorded
<1>6. CASE MacroEnds(r)
  <2>1. insp' = Upd(i) /\ i.findings = record_finding(Top, r).findings
    BY <1>6 DEF MacroEnds
  <2> HIDE DEF i
  <2>2. Recorded(r)
    BY <1>1, <1>5, <2>1, FoundRecorded
  <2> QED BY <1>1, <1>2, <1>3, <2>2, KnownGains, FindingGoesOn
<1>7. CASE EntryEnds(r)
  <2>1. b \in Blobs /\ Descended(i, b)
    BY <1>7 DEF EntryEnds, LeafType
  <2>2. i.findings = record_finding(Top, r).findings
    OBVIOUS
  <2> HIDE DEF i, b
  <2>3. PICK j : /\ Remarked(i, j)
    /\ \/ frames' = frames /\ insp' = Upd(j) /\ Covered(j, b)
       \/ /\ Frame.kind = "Zip" /\ Kind(b) = "Zip" /\ Frame.depth < MaxDepth /\ Blob[b].opens
          /\ insp' = Upd(j) /\ frames' = Append(frames, NewFrame("Zip", b, Frame.depth + 1, MaxExpanded))
       \/ /\ Frame.kind = "Zip" /\ Kind(b) = "OleCompound" /\ NestedLimit(i) # 0 /\ j = i
          /\ insp' = Append(Upd(i), OpenedOle(NewInspection, b))
          /\ frames' = Append(frames, NewFrame("OleCompound", b, 1, NestedLimit(i)))
    BY <2>1 DEF Descended
  <2>4. j \in InspType /\ j.findings = record_finding(Top, r).findings
    BY <2>2, <2>3 DEF Remarked, Silent
  <2>5. CASE insp' = Upd(j)
    <3>1. Recorded(r)
      BY <1>1, <2>4, <2>5, FoundRecorded
    <3> QED BY <1>1, <1>2, <1>3, <3>1, KnownGains, FindingGoesOn
  <2>6. CASE /\ Frame.kind = "Zip" /\ j = i
             /\ insp' = Append(Upd(i), OpenedOle(NewInspection, b))
    <3> DEFINE o == OpenedOle(NewInspection, b)
               u == Upd(i)
    <3>1. Remarked(NewInspection, o)
      <4>1. Opened("OleCompound", NewInspection, b) = o
        BY DEF Opened
      <4> HIDE DEF o
      <4> QED BY <2>1, <4>1, NewInspections, ContainersOpened
    <3>2. insp' = Append(u, o)
      BY <2>6
    <3> HIDE DEF o
    <3>3. o \in InspType /\ o.findings = <<>>
      BY <3>1, NewInspections DEF Remarked, Silent
    <3>4. Len(insp) = 1
      BY <1>1, <1>3, <2>6 DEF ShapeInv, StackInv
    <3>5. /\ u \in Seq(InspType) /\ Len(u) = 1 /\ u[1] = i
          /\ \A k \in 1..Len(insp) : k # Len(insp) => u[k] = insp[k]
      BY <1>1, <1>5, <3>4, UpdFacts
    <3> HIDE DEF u
    <3>6. FoundIn(insp') = FoundIn(u) /\ CountIn(insp') = CountIn(u)
      BY <3>2, <3>3, <3>5, FoundBeside
    <3>7. Recorded(r)
      <4>1. insp \in Seq(InspType) /\ Top = insp[1] /\ Top.findings \in Seq(ReportType)
        BY <1>1, <1>4, <3>4, InspNumbers DEF TypeInv, Top
      <4>2. \/ i.findings = Top.findings /\ (r.verdict = "Clean" \/ Len(Top.findings) >= MaxFindings)
            \/ r.verdict # "Clean" /\ i.findings = Append(Top.findings, r)
        BY <1>1, <1>4, FindingRecorded DEF i
      <4>3. FoundIn(insp) = Range(Top.findings) /\ CountIn(insp) = Len(Top.findings)
        BY <3>4, <4>1, FoundFacts
      <4>4. FoundIn(insp') = Range(i.findings) /\ CountIn(insp') = Len(i.findings)
        BY <3>5, <3>6, FoundFacts
      <4>5. /\ Range(Append(Top.findings, r)) = Range(Top.findings) \cup {r}
            /\ Len(Append(Top.findings, r)) = Len(Top.findings) + 1
        BY <1>1, <4>1, RangeGrows, AddLast
      <4> QED BY <4>2, <4>3, <4>4, <4>5 DEF Recorded
    <3> QED BY <1>1, <1>2, <1>3, <3>7, KnownGains, FindingGoesOn
  <2> QED BY <2>3, <2>5, <2>6
<1> QED BY <1>6, <1>7

\* Time runs out: what was found stays.
LEMMA FindingLapse ==
  ASSUME ShapeInv, FindingInv, Lapse
  PROVE  FindingInv'
<1>1. stage = "walk" /\ stage' = "walk" /\ UNCHANGED <<outer, seen>> /\ Known
  BY DEF Lapse, FindingInv, UnderWay
<1>2. insp \in Seq(InspType) /\ TypeInv
  BY DEF ShapeInv, TypeInv
<1>3. /\ insp' \in Seq(InspType) /\ Len(insp') = Len(insp)
      /\ \A k \in 1..Len(insp) : Remarked(insp[k], insp'[k])
  BY <1>2, LapseFacts
<1>4. \A k \in 1..Len(insp) : insp'[k].findings = insp[k].findings
  BY <1>3 DEF Remarked, Silent
<1>5. FoundIn(insp') = FoundIn(insp) /\ CountIn(insp') = CountIn(insp)
  BY <1>2, <1>3, <1>4, FoundSame
<1> QED BY <1>1, <1>5, KnownStays, FindingGoesOn

\* The walk takes a step: it has found nothing yet.
LEMMA FindingWalk ==
  ASSUME ShapeInv, FindingInv, WalkStep
  PROVE  FindingInv'
<1>1. stage = "walk" /\ UNCHANGED <<outer, seen>> /\ Known /\ Len(insp) # 0
  BY DEF WalkStep, FindingInv, UnderWay
<1>2. PICK i : Progress(i) /\ insp' = Upd(i) /\ (Passed(i) \/ Taken(i))
  BY DEF WalkStep
<1>3. i \in InspType /\ i.findings = Top.findings /\ stage' # "done"
  BY <1>1, <1>2 DEF Progress, Passed, Taken
<1>4. FoundIn(insp') = FoundIn(insp) /\ CountIn(insp') = CountIn(insp)
  BY <1>1, <1>2, <1>3, FoundUpdated
<1> QED BY <1>1, <1>3, <1>4, KnownStays, FindingGoesOn

\* A container is left: its findings go with the archive's.
LEMMA FindingLeave ==
  ASSUME ShapeInv, FindingInv, LeaveContainer
  PROVE  FindingInv'
<1>1. /\ stage = "walk" /\ stage' = "walk" /\ UNCHANGED <<outer, seen>> /\ Known /\ TypeInv
      /\ insp \in Seq(InspType) /\ Len(frames) # 0
  BY DEF LeaveContainer, FindingInv, UnderWay, ShapeInv, TypeInv
<1>2. Len(insp) # 0
  BY <1>1 DEF ShapeInv, StackInv
<1>3. PICK i : /\ Remarked(Top, i)
               /\ insp' = IF Len(insp) > 1 /\ Frame.kind = "OleCompound"
                          THEN <<merge_nested_inspection(insp[1], i)>> ELSE Upd(i)
  BY <1>1, <1>2, LeaveFacts DEF Left
<1>4. i \in InspType /\ i.findings = Top.findings
  BY <1>3 DEF Remarked, Silent
<1>5. CountIn(insp) \in Nat /\ (Len(insp) = 1 \/ Len(insp) = 2)
  BY <1>1, <1>2, HowMany
<1>6. CASE insp' = Upd(i)
  BY <1>1, <1>2, <1>4, <1>6, FoundUpdated, KnownStays, FindingGoesOn
<1>7. CASE Len(insp) = 2 /\ insp' = <<merge_nested_inspection(insp[1], i)>>
  <2>1. i.findings = insp[2].findings
    BY <1>4, <1>7 DEF Top
  <2>2. /\ FoundIn(insp') \subseteq FoundIn(insp) /\ CountIn(insp') <= CountIn(insp)
        /\ CountIn(insp) <= MaxFindings => FoundIn(insp') = FoundIn(insp)
    BY <1>1, <1>4, <1>7, <2>1, FoundMerged
  <2>3. CountIn(insp') \in Nat
    <3> DEFINE j == merge_nested_inspection(insp[1], i)
    <3>1. insp[1] \in InspType
      BY <1>1, <1>7
    <3>2. j \in InspType
      BY <1>4, <3>1, Merged
    <3>3. insp' = <<j>>
      BY <1>7
    <3> HIDE DEF j
    <3>4. insp' \in Seq(InspType) /\ Len(insp') = 1 /\ 1 \in 1..Len(insp')
      BY <3>2, <3>3
    <3> QED BY <3>4, FoundFacts
  <2>4. CountIn(insp) <= seen.flagged /\ seen.flagged \in Nat
    BY <1>1 DEF Known, TypeInv, SeenType
  <2>5. CountIn(insp') <= seen.flagged
    BY <1>5, <2>2, <2>3, <2>4
  <2>6. seen.flagged <= MaxFindings => FoundIn(insp') = FoundIn(insp)
    BY <1>5, <2>2, <2>4, Limits
  <2>7. Known'
    BY <1>1, <2>2, <2>5, <2>6 DEF Known, Sound
  <2> QED BY <1>1, <2>7, FindingGoesOn
<1>8. Len(insp) > 1 => Len(insp) = 2
  <2>1. ~(1 > 1)
    OBVIOUS
  <2> QED BY <1>5, <2>1
<1>9. insp' = Upd(i) \/ (Len(insp) > 1 /\ insp' = <<merge_nested_inspection(insp[1], i)>>)
  BY <1>3
<1> QED BY <1>6, <1>7, <1>8, <1>9

\* The walk is over: the report takes over the strongest finding.
LEMMA FindingEnds ==
  ASSUME ShapeInv, FindingInv, EndInspection
  PROVE  FindingInv'
<1>1. /\ stage = "walk" /\ frames = <<>> /\ seen' = seen /\ job' = job /\ Known /\ TypeInv
      /\ insp \in Seq(InspType) /\ Len(insp) # 0 /\ outer \in ReportType
      /\ Report(Structured(Adopted(outer, insp[1].findings), insp[1]), job.rules)
  BY DEF EndInspection, FindingInv, UnderWay, ShapeInv, TypeInv, StageInv
<1>2. Len(insp) = 1
  <2>1. Len(frames) = 0
    BY <1>1
  <2> QED BY <1>1, <2>1, HowMany DEF ShapeInv, StackInv
<1> DEFINE i == insp[1]
           s == i.findings
           a == Adopted(outer, s)
           r == Structured(a, i)
<1>3. i \in InspType /\ s \in Seq(ReportType) /\ FoundIn(insp) = Range(s)
  <2>1. i \in InspType
    BY <1>1, <1>2
  <2> QED BY <1>1, <1>2, <2>1, InspNumbers, FoundFacts
<1>4. Report(r, job.rules)
  BY <1>1
<1> HIDE DEF i
<1>5. /\ a \in ReportType /\ (a.verdict = "Malicious" <=> outer.verdict = "Malicious" \/ Convicts(s))
      /\ a.quarantine => outer.quarantine \/ \E j \in 1..Len(s) : s[j].quarantine
  BY <1>1, <1>3, AdoptedFacts
<1> HIDE DEF s, a
<1>6. /\ r \in ReportType /\ r.quarantine = a.quarantine
      /\ r.verdict = a.verdict \/ (a.verdict = "Clean" /\ r.verdict = "Suspicious")
  BY <1>3, <1>5, StructuredFacts
<1> HIDE DEF r
<1>7. r.verdict = "Malicious" <=> outer.verdict = "Malicious" \/ Convicts(s)
  BY <1>5, <1>6
<1>8. Range(s) = {s[j] : j \in 1..Len(s)}
  BY <1>3, RangeFacts
<1>9. /\ \A j \in 1..Len(s) : Sound(s[j])
      /\ Sound(outer)
      /\ seen.malicious /\ seen.flagged <= MaxFindings => outer.verdict = "Malicious" \/ Convicts(s)
  BY <1>1, <1>3, <1>8 DEF Known, Convicts
<1>10. r.verdict = "Malicious" => seen.malicious
  BY <1>7, <1>9 DEF Sound, Convicts
<1>11. r.quarantine => r.verdict = "Malicious" /\ seen.identified
  BY <1>5, <1>6, <1>7, <1>9 DEF Sound, Convicts
<1> QED BY <1>1, <1>4, <1>6, <1>7, <1>9, <1>10, <1>11, FindingReport

\* Every step keeps it.
LEMMA FindingNext ==
  ASSUME ShapeInv, FindingInv, [Next]_vars
  PROVE  FindingInv'
<1>1. CASE Gathering
  <2>1. Gathers
    BY <1>1, GatherSteps DEF ShapeInv
  <2>2. FoundIn(insp') = FoundIn(insp) /\ CountIn(insp') = CountIn(insp) /\ UNCHANGED <<outer, seen, job>>
    BY <2>1 DEF Gathers
  <2>3. UnderWay' => UnderWay
    BY <2>1 DEF Gathers, UnderWay, Sampling
  <2>4. stage' = "done" => stage = "done"
    BY <2>1 DEF Gathers, Sampling
  <2>5. StrongestEntryDecides'
    BY <2>2, <2>4 DEF FindingInv, StrongestEntryDecides
  <2>6. UnderWay' => Known'
    BY <2>2, <2>3, KnownStays DEF FindingInv
  <2> QED BY <2>5, <2>6 DEF FindingInv
<1>2. CASE \E b \in Files, origin \in {"file", "bytes", "amsi"} : Submit(b, origin)
  <2>1. stage' \in {"reading", "static"} /\ leaf'.part = "outer"
    BY <1>2 DEF Submit, Leaf
  <2> QED BY <2>1 DEF FindingInv, UnderWay, StrongestEntryDecides
<1>3. CASE ReadFails \/ Panic
  BY <1>3, FindingFails DEF ReadFails, Panic
<1>4. CASE FinishLeaf
  <2>1. /\ stage = "amsi" /\ leaf \in LeafType
        /\ leaf.part # "outer" => Len(insp) # 0
    BY <1>4, LeafEnds
  <2>2. PICK r : IsLeafReport(r) /\ Noticed(r) /\ (OuterEnds(r) \/ EntryEnds(r) \/ MacroEnds(r))
    BY <1>4, LeafEnds
  <2>3. CASE OuterEnds(r)
    BY <2>1, <2>2, <2>3, FindingOuter
  <2>4. CASE EntryEnds(r) \/ MacroEnds(r)
    <3>1. leaf.part # "outer"
      BY <2>4 DEF EntryEnds, MacroEnds
    <3> QED BY <2>1, <2>2, <2>4, <3>1, FindingInner
  <2> QED BY <2>2, <2>3, <2>4
<1>5. CASE DecompressMacro
  <2>1. stage = "macro" /\ stage' \in {"static", "walk"} /\ UNCHANGED <<insp, outer, seen>> /\ Known
    BY <1>5 DEF DecompressMacro, FindingInv, UnderWay
  <2>2. FoundIn(insp') = FoundIn(insp) /\ CountIn(insp') = CountIn(insp)
    BY <2>1
  <2> QED BY <2>1, <2>2, KnownStays, FindingGoesOn
<1>6. CASE Lapse
  BY <1>6, FindingLapse
<1>7. CASE WalkZip \/ WalkOle \/ WalkGzip
  BY <1>7, Walks, FindingWalk DEF ShapeInv
<1>8. CASE LeaveContainer
  BY <1>8, FindingLeave
<1>9. CASE EndInspection
  BY <1>9, FindingEnds
<1>10. CASE Deliver
  BY <1>10 DEF Deliver, FindingInv, UnderWay, Sampling, StrongestEntryDecides
<1> QED BY <1>1, <1>2, <1>3, <1>4, <1>5, <1>6, <1>7, <1>8, <1>9, <1>10 DEF Next, Gathering

\* A container is malicious exactly when it or something analysed inside it is,
\* as long as no finding was dropped for want of room; and a report that lets the
\* file be quarantined convicts it on something that was identified
\* (StrongestEntryDecides; detection.rs with_container_inspection).
THEOREM StrongestEntryAlwaysDecides == Spec => []StrongestEntryDecides
<1>1. Init => ShapeInv /\ FindingInv
  BY ShapeInit DEF Init, FindingInv, UnderWay, Sampling, StrongestEntryDecides
<1>2. ShapeInv /\ FindingInv /\ [Next]_vars => ShapeInv' /\ FindingInv'
  BY ShapeNext, FindingNext
<1>3. FindingInv => StrongestEntryDecides
  BY DEF FindingInv
<1> QED BY <1>1, <1>2, <1>3, PTL DEF Spec

-----------------------------------------------------------------------------
(* What is still to be looked at.                                          *)

Layer(f, d) == [x \in Blobs |->
  Readable(x)
    \cup (UNION {IF Blob[y].shape.kind = "Zip" /\ d < MaxDepth THEN f[d + 1][y] ELSE {} : y \in Readable(x)})
    \cup (UNION {IF Blob[y].shape.kind = "OleCompound" THEN Streams(y) ELSE {} : y \in Readable(x)})]
Levels(k) == ((MaxDepth - k) + 1)..MaxDepth
Solves(f, k) == f = [d \in Levels(k) |-> Layer(f, d)]

\* One more level of nesting is solved.
LEMMA OneLevelMore ==
  ASSUME NEW k \in Nat, k # 0, k <= MaxDepth, NEW f, Solves(f, k - 1)
  PROVE  \E g : Solves(g, k)
<1> DEFINE first == (MaxDepth - k) + 1
           g == [d \in Levels(k) |-> IF d = first THEN Layer(f, d) ELSE f[d]]
<1>1. first \in Nat /\ first <= MaxDepth /\ MaxDepth \in Nat
  BY Limits
<1>2. Levels(k) = first..MaxDepth /\ Levels(k - 1) = (first + 1)..MaxDepth
  <2>1. (MaxDepth - (k - 1)) + 1 = first + 1
    BY Limits
  <2> QED BY <2>1 DEF Levels
<1> HIDE DEF first
<1>3. f = [d \in Levels(k - 1) |-> Layer(f, d)]
  BY DEF Solves
<1>4. \A d \in Levels(k) : d < MaxDepth => g[d + 1] = f[d + 1]
  <2> SUFFICES ASSUME NEW d \in Levels(k), d < MaxDepth PROVE g[d + 1] = f[d + 1]
    OBVIOUS
  <2>1. d \in Nat /\ first <= d
    BY <1>1, <1>2
  <2>2. d + 1 \in Levels(k) /\ d + 1 # first
    BY <1>1, <1>2, <2>1
  <2> QED BY <2>2
<1>5. \A d \in Levels(k) : Layer(g, d) = Layer(f, d)
  <2> SUFFICES ASSUME NEW d \in Levels(k) PROVE Layer(g, d) = Layer(f, d)
    OBVIOUS
  <2>1. d < MaxDepth => g[d + 1] = f[d + 1]
    BY <1>4
  <2> HIDE DEF g
  <2> QED BY <2>1 DEF Layer
<1>6. \A d \in Levels(k) : d # first => d \in Levels(k - 1) /\ f[d] = Layer(f, d)
  <2> SUFFICES ASSUME NEW d \in Levels(k), d # first PROVE d \in Levels(k - 1) /\ f[d] = Layer(f, d)
    OBVIOUS
  <2>1. d \in Levels(k - 1)
    BY <1>1, <1>2
  <2> QED BY <1>3, <2>1
<1>7. \A d \in Levels(k) : g[d] = Layer(g, d)
  BY <1>5, <1>6
<1>8. g = [d \in Levels(k) |-> g[d]]
  OBVIOUS
<1>9. g = [d \in Levels(k) |-> Layer(g, d)]
  <2> HIDE DEF g
  <2> QED BY <1>7, <1>8
<1> QED BY <1>9 DEF Solves

\* Each depth of nesting contains what it says.
LEMMA WithinFacts == Within = [d \in 1..MaxDepth |-> Layer(Within, d)]
<1> DEFINE T == {k \in Nat : k <= MaxDepth /\ ~\E f : Solves(f, k)}
<1>1. T = {}
  <2> SUFFICES ASSUME T # {} PROVE FALSE
    OBVIOUS
  <2>1. T \in SUBSET Nat
    OBVIOUS
  <2> DEFINE k == Min(T)
  <2>2. k \in T /\ \A y \in T : k <= y
    <3> HIDE DEF T
    <3> QED BY <2>1, LeastNumber
  <2> HIDE DEF k
  <2>3. k \in Nat /\ k <= MaxDepth /\ ~\E f : Solves(f, k)
    BY <2>2
  <2>4. k # 0
    <3> SUFFICES ASSUME k = 0 PROVE FALSE
      OBVIOUS
    <3> DEFINE e == [d \in {} |-> {}]
    <3>1. Levels(0) = {}
      BY Limits DEF Levels
    <3>2. e = [d \in Levels(0) |-> Layer(e, d)]
      BY <3>1
    <3>3. Solves(e, 0)
      <4> HIDE DEF e
      <4> QED BY <3>2 DEF Solves
    <3> QED BY <2>3, <3>3
  <2>5. k - 1 \in Nat /\ k - 1 <= MaxDepth /\ ~(k <= k - 1)
    BY <2>3, <2>4, Limits
  <2>6. \E f : Solves(f, k - 1)
    BY <2>2, <2>5
  <2> QED BY <2>3, <2>4, <2>6, OneLevelMore
<1>2. PICK f : Solves(f, MaxDepth)
  BY <1>1, Limits
<1>3. Levels(MaxDepth) = 1..MaxDepth
  BY Limits DEF Levels
<1>4. f = [d \in 1..MaxDepth |-> Layer(f, d)]
  BY <1>2, <1>3 DEF Solves
<1>5. \E g : g = [d \in 1..MaxDepth |-> Layer(g, d)]
  BY <1>4
<1>6. Within = CHOOSE g : g = [d \in 1..MaxDepth |-> Layer(g, d)]
  BY DEF Within, Layer
<1> QED BY <1>5, <1>6

Macro(b) == IF decompresses(b) THEN {Blob[b].macro} ELSE {}
Nested(kind, depth, b) ==
  {b} \cup (IF kind = "Zip" /\ Kind(b) = "Zip" /\ depth < MaxDepth THEN Within[depth + 1][b] ELSE {})
      \cup (IF kind = "Zip" /\ Kind(b) = "OleCompound" THEN Streams(b) ELSE {})
Under(kind, depth, e) ==
  Nested(kind, depth, e.blob) \cup (IF kind = "OleCompound" /\ is_vba(e) THEN Macro(e.blob) ELSE {})
Still(f) == {j \in 1..Len(Entries(f)) : f.next <= j /\ Entries(f)[j].fault = "none"}
Rest(f) == IF Blob[f.blob].opens THEN UNION {Under(f.kind, f.depth, Entries(f)[j]) : j \in Still(f)}
           ELSE {}

\* What can be read of a content.
LEMMA ReadableFacts ==
  ASSUME NEW b \in Blobs
  PROVE  /\ \A e : e \in Intact(b) <=>
              /\ Blob[b].opens
              /\ \E j \in 1..Len(Blob[b].entries) : Blob[b].entries[j].fault = "none" /\ Blob[b].entries[j] = e
         /\ Readable(b) \subseteq Blobs /\ Streams(b) \subseteq Blobs
<1>1. Blob[b].entries \in Seq(EntryType)
  BY BlobAssumption
<1>2. Range(Blob[b].entries) = {Blob[b].entries[j] : j \in 1..Len(Blob[b].entries)}
  BY <1>1, RangeFacts
<1>3. \A e : e \in Intact(b) <=>
              /\ Blob[b].opens
              /\ \E j \in 1..Len(Blob[b].entries) : Blob[b].entries[j].fault = "none" /\ Blob[b].entries[j] = e
  BY <1>2 DEF Intact
<1>4. Intact(b) \subseteq EntryType
  <2>1. \A j \in 1..Len(Blob[b].entries) : Blob[b].entries[j] \in EntryType
    BY <1>1
  <2> QED BY <1>3, <2>1
<1>5. \A e \in Intact(b) : e.blob \in Blobs
  BY <1>4 DEF EntryType
<1>6. Readable(b) \subseteq Blobs
  BY <1>5 DEF Readable
<1>7. Sources(b) \subseteq Blobs
  BY <1>5, BlobAssumption DEF Sources, decompresses
<1> QED BY <1>3, <1>6, <1>7 DEF Streams

\* Where something still to be looked at is found.
LEMMA RestMember ==
  ASSUME NEW f, NEW x
  PROVE  x \in Rest(f) <=> /\ Blob[f.blob].opens
                           /\ \E j \in Still(f) : x \in Under(f.kind, f.depth, Entries(f)[j])
BY DEF Rest

\* A container that cannot be opened has nothing in it.
LEMMA UnopenedEmpty ==
  ASSUME NEW b \in Blobs, ~Blob[b].opens
  PROVE  /\ Readable(b) = {} /\ Streams(b) = {}
         /\ \A d \in 1..MaxDepth : Within[d][b] = {}
<1>1. Readable(b) = {}
  BY DEF Readable, Intact
<1>2. Streams(b) = {}
  BY <1>1 DEF Streams, Sources, Intact
<1>3. ASSUME NEW d \in 1..MaxDepth PROVE Within[d][b] = {}
  <2>1. Within[d] = Layer(Within, d)
    BY WithinFacts
  <2>2. Layer(Within, d)[b] = {}
    BY <1>1 DEF Layer
  <2> QED BY <2>1, <2>2
<1> QED BY <1>1, <1>2, <1>3

\* What is in an archive, by where it is found.
LEMMA WithinMember ==
  ASSUME NEW b \in Blobs, NEW d \in 1..MaxDepth, NEW x \in Within[d][b]
  PROVE  \E e \in Intact(b) : x \in Under("Zip", d, e)
<1>1. Within[d] = Layer(Within, d)
  BY WithinFacts
<1>2. x \in Layer(Within, d)[b]
  BY <1>1
<1>3. \/ x \in Readable(b)
      \/ \E y \in Readable(b) : Kind(y) = "Zip" /\ d < MaxDepth /\ x \in Within[d + 1][y]
      \/ \E y \in Readable(b) : Kind(y) = "OleCompound" /\ x \in Streams(y)
  <2> DEFINE Zips == {IF Blob[y].shape.kind = "Zip" /\ d < MaxDepth THEN Within[d + 1][y] ELSE {} :
                        y \in Readable(b)}
             Oles == {IF Blob[y].shape.kind = "OleCompound" THEN Streams(y) ELSE {} : y \in Readable(b)}
  <2>1. x \in Readable(b) \cup (UNION Zips) \cup (UNION Oles)
    BY <1>2 DEF Layer
  <2>2. x \in UNION Zips => \E y \in Readable(b) : Kind(y) = "Zip" /\ d < MaxDepth /\ x \in Within[d + 1][y]
    <3> SUFFICES ASSUME NEW z \in Zips, x \in z
                 PROVE  \E y \in Readable(b) : Kind(y) = "Zip" /\ d < MaxDepth /\ x \in Within[d + 1][y]
      OBVIOUS
    <3>1. PICK y \in Readable(b) :
            z = IF Blob[y].shape.kind = "Zip" /\ d < MaxDepth THEN Within[d + 1][y] ELSE {}
      OBVIOUS
    <3> QED BY <3>1 DEF Kind
  <2>3. x \in UNION Oles => \E y \in Readable(b) : Kind(y) = "OleCompound" /\ x \in Streams(y)
    BY DEF Kind
  <2>4. x \in Readable(b) \/ x \in UNION Zips \/ x \in UNION Oles
    <3> HIDE DEF Zips, Oles
    <3> QED BY <2>1
  <2>5. CASE x \in Readable(b)
    BY <2>5
  <2>6. CASE x \in UNION Zips
    BY <2>2, <2>6
  <2>7. CASE x \in UNION Oles
    BY <2>3, <2>7
  <2> QED BY <2>4, <2>5, <2>6, <2>7
<1>4. PICK y \in Readable(b) : x \in Nested("Zip", d, y)
  BY <1>3 DEF Nested
<1>5. PICK e \in Intact(b) : e.blob = y
  BY DEF Readable
<1> QED BY <1>4, <1>5 DEF Under

Contents(kind, d, b) == IF kind = "Zip" THEN Within[d][b]
                        ELSE IF kind = "OleCompound" THEN Streams(b) ELSE Readable(b)
\* A container that has just been opened still has everything to be looked at.
LEMMA RestFresh ==
  ASSUME NEW b \in Blobs, NEW kind \in Containers, NEW d \in Nat,
         kind = "Zip" => d \in 1..MaxDepth,
         NEW f \in FrameType, f.kind = kind, f.blob = b, f.next = 1, f.depth = d
  PROVE  Contents(kind, d, b) \subseteq Rest(f)
<1> SUFFICES ASSUME NEW x \in Contents(kind, d, b) PROVE x \in Rest(f)
  OBVIOUS
<1>1. \E e \in Intact(b) : x \in Under(kind, d, e)
  <2>1. CASE kind = "Zip"
    BY <2>1, WithinMember DEF Contents
  <2>2. CASE kind = "OleCompound"
    <3>1. x \in Streams(b)
      BY <2>2 DEF Contents
    <3>2. x \in Readable(b) \/ \E e \in Intact(b) : is_vba(e) /\ x \in Macro(e.blob)
      BY <3>1 DEF Streams, Sources, Macro
    <3> QED BY <2>2, <3>2 DEF Under, Nested, Readable
  <2>3. CASE kind = "Gzip"
    BY <2>3 DEF Contents, Under, Nested, Readable
  <2> QED BY <2>1, <2>2, <2>3 DEF Containers
<1>2. PICK e \in Intact(b) : x \in Under(kind, d, e)
  BY <1>1
<1>3. /\ Blob[b].opens
      /\ \E j \in 1..Len(Blob[b].entries) : Blob[b].entries[j].fault = "none" /\ Blob[b].entries[j] = e
  BY ReadableFacts
<1>4. PICK j \in 1..Len(Entries(f)) : Entries(f)[j].fault = "none" /\ Entries(f)[j] = e
  BY <1>3 DEF Entries
<1>5. j \in Still(f)
  <2>1. Len(Entries(f)) \in Nat
    BY EntryFacts DEF Entries
  <2>2. f.next <= j
    BY <2>1
  <2> QED BY <1>4, <2>2 DEF Still
<1> QED BY <1>2, <1>3, <1>4, <1>5, RestMember

\* The walk moves on: only the entry it was at is taken from what is left.
LEMMA RestAdvanced ==
  ASSUME TypeInv, Len(frames) # 0, NEW x \in Rest(Frame)
  PROVE  \/ x \in Rest(NextFrame)
         \/ Entry.fault = "none" /\ x \in Under(Frame.kind, Frame.depth, Entry)
<1>1. Frame \in FrameType /\ Frame.next \in Nat /\ Frame.blob \in Blobs
  BY Innermost DEF FrameType
<1>2. /\ NextFrame.kind = Frame.kind /\ NextFrame.blob = Frame.blob /\ NextFrame.next = Frame.next + 1
      /\ NextFrame.depth = Frame.depth
  BY AdvancedFacts
<1>3. PICK j \in Still(Frame) : x \in Under(Frame.kind, Frame.depth, Entries(Frame)[j])
  BY RestMember
<1>4. Blob[Frame.blob].opens /\ Entries(NextFrame) = Entries(Frame)
  BY <1>2, RestMember DEF Entries
<1>5. j \in 1..Len(Entries(Frame)) /\ Frame.next <= j /\ Entries(Frame)[j].fault = "none" /\ j \in Nat
  <2>1. Len(Entries(Frame)) \in Nat
    BY <1>1, EntryFacts DEF Entries
  <2> QED BY <2>1 DEF Still
<1>6. CASE j = Frame.next
  BY <1>3, <1>5, <1>6 DEF Entry
<1>7. CASE j # Frame.next
  <2>1. NextFrame.next <= j
    BY <1>1, <1>2, <1>5, <1>7
  <2>2. j \in Still(NextFrame)
    BY <1>4, <1>5, <2>1 DEF Still
  <2>3. x \in Under(NextFrame.kind, NextFrame.depth, Entries(NextFrame)[j])
    BY <1>2, <1>3, <1>4
  <2> QED BY <1>2, <1>4, <2>2, <2>3, RestMember
<1> QED BY <1>6, <1>7

\* Nothing is left of a container that was walked to its end, if it had no more
\* entries than are looked at.
LEMMA RestEnded ==
  ASSUME TypeInv, StackInv, stage # "done", Len(frames) # 0, Ended,
         ~(Frame.kind = "OleCompound" /\ Blob[Frame.blob].opens /\ Len(Entries(Frame)) > MaxEntries)
  PROVE  Rest(Frame) = {}
<1>1. Frame \in FrameType /\ Frame.next \in Nat /\ Frame.blob \in Blobs /\ Frame.kind \in Containers
  BY Innermost DEF FrameType
<1>2. Len(Entries(Frame)) \in Nat
  BY <1>1, EntryFacts DEF Entries
<1>3. Frame.kind = "Gzip" => Len(Entries(Frame)) = 1
  BY <1>1, BlobAssumption DEF StackInv, Kind, Entries
<1>4. ~Blob[Frame.blob].opens \/ Frame.next > Len(Entries(Frame))
  <2>1. CASE Frame.kind = "Zip"
    BY <1>1, <1>2, <2>1 DEF Ended, Remaining
  <2>2. CASE Frame.kind = "OleCompound"
    <3>1. ~Remaining \/ Frame.next > MaxEntries
      BY <2>2 DEF Ended
    <3>2. ~Blob[Frame.blob].opens \/ Len(Entries(Frame)) <= MaxEntries
      BY <1>2, <2>2, Limits
    <3> QED BY <1>1, <1>2, <3>1, <3>2, Limits DEF Remaining
  <2>3. CASE Frame.kind = "Gzip"
    <3>1. Frame.next > 1
      BY <2>3 DEF Ended
    <3> QED BY <1>3, <2>3, <3>1
  <2> QED BY <1>1, <2>1, <2>2, <2>3 DEF Containers
<1>5. ASSUME NEW x \in Rest(Frame) PROVE FALSE
  <2>1. PICK j \in Still(Frame) : Blob[Frame.blob].opens
    BY <1>5, RestMember
  <2>2. j \in 1..Len(Entries(Frame)) /\ Frame.next <= j
    BY DEF Still
  <2> QED BY <1>1, <1>2, <1>4, <2>1, <2>2
<1> QED BY <1>5

CutIn(s) == \E k \in 1..Len(s) : s[k].limit \/ s[k].incomplete
RestIn(s) == UNION {Rest(s[k]) : k \in 1..Len(s)}
Pending == IF stage \in Sampling
           THEN IF leaf.part = "entry" THEN Under(Frame.kind, Frame.depth, LastEntry) ELSE {leaf.blob}
           ELSE IF stage = "macro" THEN Macro(leaf.blob) ELSE {}
Ledger == seen.blobs \cup Pending \cup RestIn(frames)
Overfull(f) == f.kind = "OleCompound" /\ Blob[f.blob].opens /\ Len(Entries(f)) > MaxEntries
NoneOverfull == \A k \in 1..Len(frames) : ~Overfull(frames[k])
Whole == {job.blob} \cup Inside(job.blob) \subseteq Ledger /\ NoneOverfull

\* The entry being analysed is the one the walk was at last.
OnEntry == stage \in Sampling /\ leaf.part = "entry"
Placed == /\ OnEntry \/ stage = "macro" => leaf.blob = LastEntry.blob
          /\ stage = "macro" => is_vba(LastEntry)

\* Whatever a complete walk looks at was looked at or is still to be, unless the
\* inspection says that it was cut short.
OwedInv == (UnderWay => CutIn(insp) \/ Whole) /\ Placed /\ NothingUnreadIsClean

\* A walk that goes on.
LEMMA OwedGoesOn ==
  ASSUME OwedInv, UnderWay, stage' # "done", CutIn(insp) => CutIn(insp'), job'.blob = job.blob,
         Whole /\ ~CutIn(insp') => Ledger \subseteq Ledger' /\ NoneOverfull', Placed'
  PROVE  OwedInv'
BY DEF OwedInv, Whole, NothingUnreadIsClean

\* The walk is between two entries.
LEMMA PlacedBetween ==
  ASSUME stage' \in {"idle", "walk", "done"} \/ (stage' # "macro" /\ leaf'.part # "entry")
  PROVE  Placed'
BY DEF Placed, OnEntry, Sampling

\* What the innermost inspection says of the walk is kept.
LEMMA CutUpdated ==
  ASSUME TypeInv, Len(insp) # 0, NEW j \in InspType, insp' = Upd(j),
         Top.limit => j.limit, Top.incomplete => j.incomplete
  PROVE  /\ CutIn(insp) => CutIn(insp')
         /\ j.limit \/ j.incomplete => CutIn(insp')
<1>1. /\ Len(insp') = Len(insp) /\ insp'[Len(insp)] = j
      /\ \A k \in 1..Len(insp) : k # Len(insp) => insp'[k] = insp[k]
  BY UpdFacts
<1>2. Len(insp) \in 1..Len(insp) /\ Top = insp[Len(insp)]
  BY Innermost
<1>3. j.limit \/ j.incomplete => CutIn(insp')
  BY <1>1, <1>2 DEF CutIn
<1>4. CutIn(insp) => CutIn(insp')
  <2> SUFFICES ASSUME NEW k \in 1..Len(insp), insp[k].limit \/ insp[k].incomplete PROVE CutIn(insp')
    BY DEF CutIn
  <2>1. CASE k = Len(insp)
    BY <1>2, <1>3, <2>1
  <2>2. CASE k # Len(insp)
    BY <1>1, <2>2 DEF CutIn
  <2> QED BY <2>1, <2>2
<1> QED BY <1>3, <1>4

\* The walk moves on: what is owed, but for the entry it was at.
LEMMA OwedAdvanced ==
  ASSUME TypeInv, Len(frames) # 0, frames' = Advanced, NEW x \in RestIn(frames)
  PROVE  \/ x \in RestIn(frames')
         \/ Entry.fault = "none" /\ x \in Under(Frame.kind, Frame.depth, Entry)
<1>1. /\ Len(frames') = Len(frames) /\ frames'[Len(frames)] = NextFrame
      /\ \A k \in 1..Len(frames) : k # Len(frames) => frames'[k] = frames[k]
  BY AdvancedFacts
<1>2. Len(frames) \in 1..Len(frames) /\ Frame = frames[Len(frames)]
  BY Innermost
<1>3. PICK k \in 1..Len(frames) : x \in Rest(frames[k])
  BY DEF RestIn
<1>4. CASE k = Len(frames)
  <2>1. x \in Rest(Frame)
    BY <1>2, <1>3, <1>4
  <2>2. CASE x \in Rest(NextFrame)
    BY <1>1, <1>2, <2>2 DEF RestIn
  <2>3. CASE x \notin Rest(NextFrame)
    BY <2>1, <2>3, RestAdvanced
  <2> QED BY <2>2, <2>3
<1>5. CASE k # Len(frames)
  <2>1. x \in Rest(frames'[k]) /\ k \in 1..Len(frames')
    BY <1>1, <1>3, <1>5
  <2> QED BY <2>1 DEF RestIn
<1> QED BY <1>4, <1>5

\* One more container is open.
LEMMA OwedGrown ==
  ASSUME TypeInv, NEW f \in FrameType, Grown(f)
  PROVE  /\ RestIn(frames) \subseteq RestIn(frames') /\ Rest(f) \subseteq RestIn(frames')
         /\ ~Overfull(f) /\ NoneOverfull => NoneOverfull'
<1>1. frames \in Seq(FrameType) /\ Len(frames) \in Nat
  BY Innermost DEF TypeInv
<1>2. /\ Len(frames') = Len(frames) + 1 /\ frames'[Len(frames) + 1] = f
      /\ \A k \in 1..Len(frames) : frames'[k] = frames[k]
  <2> DEFINE S == FrameType
  <2>1. frames \in Seq(S) /\ f \in S
    BY <1>1
  <2> HIDE DEF S
  <2>2. /\ Len(Append(frames, f)) = Len(frames) + 1 /\ Append(frames, f)[Len(frames) + 1] = f
        /\ \A k \in 1..Len(frames) : Append(frames, f)[k] = frames[k]
    BY ONLY <2>1, AddLast
  <2>3. frames' = Append(frames, f)
    BY DEF Grown
  <2> QED BY <2>2, <2>3
<1>3. \A k \in 1..Len(frames) : k \in 1..Len(frames')
  BY <1>1, <1>2
<1>4. Len(frames) + 1 \in 1..Len(frames')
  BY <1>1, <1>2
<1>5. \A k \in 1..Len(frames') : k \in 1..Len(frames) \/ k = Len(frames) + 1
  BY <1>1, <1>2
<1>6. RestIn(frames) \subseteq RestIn(frames')
  <2> SUFFICES ASSUME NEW k \in 1..Len(frames), NEW x \in Rest(frames[k]) PROVE x \in RestIn(frames')
    BY DEF RestIn
  <2>1. x \in Rest(frames'[k]) /\ k \in 1..Len(frames')
    BY <1>2, <1>3
  <2> QED BY <2>1 DEF RestIn
<1>7. Rest(f) \subseteq RestIn(frames')
  BY <1>2, <1>4 DEF RestIn
<1>8. ~Overfull(f) /\ NoneOverfull => NoneOverfull'
  BY <1>2, <1>5 DEF NoneOverfull
<1> QED BY <1>6, <1>7, <1>8

\* A container is closed.
LEMMA OwedShrunk ==
  ASSUME TypeInv, Len(frames) # 0, frames' = SubSeq(frames, 1, Len(frames) - 1)
  PROVE  /\ RestIn(frames) \subseteq RestIn(frames') \cup Rest(Frame)
         /\ NoneOverfull => NoneOverfull'
<1>1. frames \in Seq(FrameType) /\ Len(frames) \in Nat /\ Frame = frames[Len(frames)]
  BY Innermost DEF TypeInv
<1>2. Len(frames') = Len(frames) - 1 /\ \A k \in 1..(Len(frames) - 1) : frames'[k] = frames[k]
  BY <1>1, DropLast
<1>3. \A k \in 1..Len(frames) : k = Len(frames) \/ k \in 1..Len(frames')
  BY <1>1, <1>2
<1>4. \A k \in 1..Len(frames') : k \in 1..Len(frames) /\ frames'[k] = frames[k]
  BY <1>1, <1>2
<1>5. RestIn(frames) \subseteq RestIn(frames') \cup Rest(Frame)
  <2> SUFFICES ASSUME NEW k \in 1..Len(frames), NEW x \in Rest(frames[k])
               PROVE  x \in RestIn(frames') \cup Rest(Frame)
    BY DEF RestIn
  <2>1. CASE k = Len(frames)
    BY <1>1, <2>1
  <2>2. CASE k \in 1..Len(frames')
    <3>1. x \in Rest(frames'[k])
      BY <1>4, <2>2
    <3> QED BY <2>2, <3>1 DEF RestIn
  <2> QED BY <1>3, <2>1, <2>2
<1>6. NoneOverfull => NoneOverfull'
  BY <1>4 DEF NoneOverfull
<1> QED BY <1>5, <1>6

\* An analysis that ends otherwise than clean and complete has to have seen
\* nothing in particular.
LEMMA OwedReport ==
  ASSUME NEW r \in ReportType, NEW rules, Report(r, rules), job'.blob = job.blob,
         r.verdict = "Clean" /\ r.completeness = "Complete" =>
           {job.blob} \cup Inside(job.blob) \subseteq seen'.blobs
  PROVE  OwedInv'
<1> DEFINE s == amsi_submission(r, rules)
<1>1. Judged(r, s)
  BY Submitted
<1> HIDE DEF s
<1>2. outer' = (IF job.origin = "amsi" THEN s ELSE r) /\ stage' = "done"
  BY DEF Report, s
<1>3. outer'.verdict = "Clean" /\ outer'.completeness = "Complete" =>
        r.verdict = "Clean" /\ r.completeness = "Complete"
  BY <1>1, <1>2 DEF Judged
<1> QED BY <1>2, <1>3, PlacedBetween DEF OwedInv, NothingUnreadIsClean, UnderWay, Sampling

\* The evidence about the sample grows.
LEMMA OwedGathers ==
  ASSUME OwedInv, Gathers
  PROVE  OwedInv'
<1>1. /\ stage' = stage \/ (stage \in Sampling /\ stage' \in Sampling \ {"reading"})
      /\ UNCHANGED <<job, outer, frames, insp, seen>>
      /\ stage # "idle" => leaf'.blob = leaf.blob /\ leaf'.part = leaf.part
  BY DEF Gathers
<1>2. UnderWay' => UnderWay /\ stage # "idle"
  BY <1>1 DEF UnderWay, Sampling
<1>3. stage' \in Sampling <=> stage \in Sampling
  BY <1>1
<1>4. Frame' = Frame /\ LastEntry' = LastEntry
  BY <1>1 DEF Frame, LastEntry, Entries
<1>5. stage # "idle" => Pending' = Pending
  BY <1>1, <1>3, <1>4 DEF Pending, Sampling
<1>6. UnderWay /\ stage # "idle" => (Whole => Whole')
  BY <1>1, <1>5 DEF Whole, Ledger, RestIn, NoneOverfull
<1>7. NothingUnreadIsClean'
  BY <1>1 DEF OwedInv, NothingUnreadIsClean, Sampling
<1>8. Placed'
  BY <1>1, <1>3, <1>4 DEF OwedInv, Placed, OnEntry, Sampling
<1> QED BY <1>1, <1>2, <1>6, <1>7, <1>8 DEF OwedInv

\* A macro's source is taken up, or cannot be decompressed.
LEMMA OwedMacroBegins ==
  ASSUME ShapeInv, OwedInv, DecompressMacro
  PROVE  OwedInv'
<1>1. stage = "macro" /\ UNCHANGED <<job, frames, insp, seen>>
  BY DEF DecompressMacro
<1>2. leaf \in LeafType /\ leaf.blob \in Blobs
  BY <1>1 DEF ShapeInv, TypeInv, LeafType
<1>3. Pending = Macro(leaf.blob)
  BY <1>1 DEF Pending, Sampling
<1>4. Pending' = Pending /\ Placed' /\ stage' # "done"
  <2>1. CASE leaf' = leaf /\ stage' = "walk" /\ ~decompresses(leaf.blob)
    BY <1>3, <2>1, PlacedBetween DEF Pending, Macro, Sampling
  <2>2. CASE /\ leaf' = Leaf(Blob[leaf.blob].macro, "bytes", "macro") /\ stage' = "static"
             /\ decompresses(leaf.blob)
    <3>1. leaf'.blob = Blob[leaf.blob].macro /\ leaf'.part = "macro"
      BY <2>2 DEF Leaf
    <3> QED BY <1>3, <2>2, <3>1, PlacedBetween DEF Pending, Macro, Sampling
  <2> QED BY <1>2, <2>1, <2>2, MacroTaken
<1>5. Ledger' = Ledger /\ NoneOverfull' = NoneOverfull
  BY <1>1, <1>4 DEF Ledger, NoneOverfull
<1>6. UnderWay /\ (CutIn(insp) => CutIn(insp'))
  BY <1>1 DEF UnderWay
<1> QED BY <1>1, <1>4, <1>5, <1>6, OwedGoesOn DEF Whole

\* Time runs out.
LEMMA OwedLapse ==
  ASSUME ShapeInv, OwedInv, Lapse
  PROVE  OwedInv'
<1>1. stage = "walk" /\ stage' = "walk" /\ UNCHANGED <<job, frames, seen>> /\ UnderWay
  BY DEF Lapse, UnderWay
<1>2. /\ Len(insp') = Len(insp)
      /\ \A k \in 1..Len(insp) : Remarked(insp[k], insp'[k])
  BY LapseFacts DEF ShapeInv
<1>3. CutIn(insp) => CutIn(insp')
  BY <1>2 DEF CutIn, Remarked, Silent
<1>4. Pending = {} /\ Pending' = {}
  BY <1>1 DEF Pending, Sampling
<1>5. Ledger' = Ledger /\ NoneOverfull' = NoneOverfull
  BY <1>1, <1>4 DEF Ledger, NoneOverfull
<1> QED BY <1>1, <1>3, <1>5, PlacedBetween, OwedGoesOn DEF Whole

\* The walk takes a step: the entry is passed over with a word, or is what is
\* looked at next.
LEMMA OwedWalk ==
  ASSUME ShapeInv, OwedInv, WalkStep
  PROVE  OwedInv'
<1>1. /\ TypeInv /\ stage = "walk" /\ Len(frames) # 0 /\ Len(insp) # 0 /\ frames' = Advanced
      /\ UNCHANGED <<job, seen>> /\ UnderWay
  BY DEF ShapeInv, WalkStep, UnderWay
<1>2. PICK i : Progress(i) /\ insp' = Upd(i) /\ (Passed(i) \/ Taken(i))
  BY DEF WalkStep
<1>3. i \in InspType /\ (Top.limit => i.limit) /\ (Top.incomplete => i.incomplete)
  BY <1>2 DEF Progress
<1>4. (CutIn(insp) => CutIn(insp')) /\ (i.limit \/ i.incomplete => CutIn(insp'))
  BY <1>1, <1>2, <1>3, CutUpdated
<1>5. Pending = {}
  BY <1>1 DEF Pending, Sampling
<1>6. Frame' = NextFrame /\ NextFrame.kind = Frame.kind /\ NextFrame.depth = Frame.depth
      /\ NextFrame.blob = Frame.blob
      /\ Len(frames') = Len(frames) /\ frames'[Len(frames)] = NextFrame
      /\ \A k \in 1..Len(frames) : k # Len(frames) => frames'[k] = frames[k]
  BY <1>1, AdvancedFacts DEF Frame
<1>7. NoneOverfull => NoneOverfull'
  <2> SUFFICES ASSUME NoneOverfull, NEW k \in 1..Len(frames) PROVE ~Overfull(frames'[k])
    BY <1>6 DEF NoneOverfull
  <2>1. ~Overfull(frames[k])
    BY DEF NoneOverfull
  <2>2. CASE k = Len(frames)
    <3>1. frames[k] = Frame
      BY <2>2 DEF Frame
    <3> QED BY <1>6, <2>1, <2>2, <3>1 DEF Overfull, Entries
  <2>3. CASE k # Len(frames)
    BY <1>6, <2>1, <2>3
  <2> QED BY <2>2, <2>3
<1>8. stage' # "done"
  BY <1>1, <1>2 DEF Passed, Taken
<1>9. LastEntry' = Entry
  <2>1. Frame.next \in Nat /\ NextFrame.next = Frame.next + 1
    BY <1>1, Innermost, AdvancedFacts DEF FrameType
  <2> QED BY <1>6, <2>1 DEF LastEntry, Entry, Entries
<1>10. Placed'
  <2>1. CASE Passed(i)
    BY <1>1, <2>1, PlacedBetween DEF Passed
  <2>2. CASE Taken(i)
    BY <1>9, <2>2 DEF Taken, Leaf, Placed, OnEntry, Sampling
  <2> QED BY <1>2, <2>1, <2>2
<1>11. ASSUME ~CutIn(insp'), NEW x \in Ledger PROVE x \in Ledger'
  <2>1. x \in seen.blobs \/ x \in RestIn(frames)
    BY <1>5, <1>11 DEF Ledger
  <2>2. CASE x \in seen.blobs
    BY <1>1, <2>2 DEF Ledger
  <2>3. CASE x \in RestIn(frames')
    BY <2>3 DEF Ledger
  <2>4. CASE Entry.fault = "none" /\ x \in Under(Frame.kind, Frame.depth, Entry)
    <3>1. Taken(i)
      BY <1>2, <1>4, <1>11, <2>4 DEF Passed
    <3>2. leaf'.blob = Entry.blob /\ leaf'.part = "entry" /\ stage' = "static"
      BY <3>1 DEF Taken, Leaf
    <3>3. Pending' = Under(Frame.kind, Frame.depth, Entry)
      BY <1>6, <1>9, <3>2 DEF Pending, Sampling
    <3> QED BY <2>4, <3>3 DEF Ledger
  <2> QED BY <1>1, <2>1, <2>2, <2>3, <2>4, OwedAdvanced
<1> QED BY <1>1, <1>4, <1>7, <1>8, <1>10, <1>11, OwedGoesOn DEF Whole

\* A container is left: nothing is left over without a word.
LEMMA OwedLeave ==
  ASSUME ShapeInv, OwedInv, LeaveContainer
  PROVE  OwedInv'
<1>1. /\ TypeInv /\ StackInv /\ stage = "walk" /\ stage' = "walk" /\ UNCHANGED <<job, seen>> /\ UnderWay
      /\ Len(frames) # 0 /\ frames' = SubSeq(frames, 1, Len(frames) - 1)
  BY DEF ShapeInv, TypeInv, LeaveContainer, UnderWay
<1>2. Len(insp) # 0 /\ insp \in Seq(InspType)
  BY <1>1 DEF StackInv, TypeInv
<1>3. PICK i : /\ Remarked(Top, i) /\ (Ended \/ i.incomplete)
               /\ insp' = IF Len(insp) > 1 /\ Frame.kind = "OleCompound"
                          THEN <<merge_nested_inspection(insp[1], i)>> ELSE Upd(i)
  BY <1>1, <1>2, LeaveFacts DEF Left
<1>4. i \in InspType /\ (Top.limit => i.limit) /\ (Top.incomplete => i.incomplete)
  BY <1>3 DEF Remarked, Silent
<1>5. (CutIn(insp) => CutIn(insp')) /\ (i.incomplete => CutIn(insp'))
  <2>1. CASE insp' = Upd(i)
    BY <1>1, <1>2, <1>4, <2>1, CutUpdated
  <2>2. CASE Len(insp) > 1 /\ insp' = <<merge_nested_inspection(insp[1], i)>>
    <3>1. Len(insp) = 2
      <4>1. Len(insp) = 0 \/ Len(insp) = 1 \/ Len(insp) = 2
        BY <1>1, HowMany
      <4>2. ~(1 > 1)
        OBVIOUS
      <4> QED BY <1>2, <2>2, <4>1, <4>2
    <3> DEFINE j == merge_nested_inspection(insp[1], i)
    <3>2. insp[1] \in InspType /\ Top = insp[2]
      BY <1>2, <3>1 DEF Top
    <3>3. (insp[1].limit \/ i.limit => j.limit) /\ (insp[1].incomplete \/ i.incomplete => j.incomplete)
      BY <1>4, <3>2, Merged
    <3>4. insp' = <<j>>
      BY <2>2
    <3> HIDE DEF j
    <3>5. Len(insp') = 1 /\ insp'[1] = j /\ 1 \in 1..Len(insp')
      BY <3>4
    <3>6. CutIn(insp) => insp[1].limit \/ insp[1].incomplete \/ insp[2].limit \/ insp[2].incomplete
      <4>1. \A k \in 1..2 : k = 1 \/ k = 2
        OBVIOUS
      <4> QED BY <3>1, <4>1 DEF CutIn
    <3>7. j.limit \/ j.incomplete => CutIn(insp')
      BY <3>5 DEF CutIn
    <3> QED BY <1>4, <3>2, <3>3, <3>6, <3>7
  <2>3. insp' = Upd(i) \/ (Len(insp) > 1 /\ insp' = <<merge_nested_inspection(insp[1], i)>>)
    BY <1>3
  <2> QED BY <2>1, <2>2, <2>3
<1>6. Pending = {} /\ Pending' = {}
  BY <1>1 DEF Pending, Sampling
<1>7. /\ RestIn(frames) \subseteq RestIn(frames') \cup Rest(Frame)
      /\ NoneOverfull => NoneOverfull'
  BY <1>1, OwedShrunk
<1>8. ASSUME Whole, ~CutIn(insp') PROVE Ledger \subseteq Ledger'
  <2>1. Ended
    BY <1>3, <1>5, <1>8
  <2>2. ~Overfull(Frame)
    <3>1. Len(frames) \in 1..Len(frames) /\ Frame = frames[Len(frames)]
      BY <1>1, Innermost
    <3> QED BY <1>8, <3>1 DEF Whole, NoneOverfull
  <2>3. Rest(Frame) = {}
    BY <1>1, <2>1, <2>2, RestEnded DEF Overfull
  <2> QED BY <1>1, <1>6, <1>7, <2>3 DEF Ledger
<1> QED BY <1>1, <1>5, <1>7, <1>8, PlacedBetween, OwedGoesOn DEF Whole

\* The walk is over: nothing is owed any more, or the report says that it was cut
\* short.
LEMMA OwedEnds ==
  ASSUME ShapeInv, OwedInv, EndInspection
  PROVE  OwedInv'
<1>1. /\ stage = "walk" /\ frames = <<>> /\ seen' = seen /\ job' = job /\ TypeInv /\ UnderWay
      /\ insp \in Seq(InspType) /\ Len(insp) # 0 /\ outer \in ReportType
      /\ Report(Structured(Adopted(outer, insp[1].findings), insp[1]), job.rules)
  BY DEF EndInspection, UnderWay, ShapeInv, TypeInv, StageInv
<1>2. Len(insp) = 1
  <2>1. Len(frames) = 0
    BY <1>1
  <2> QED BY <1>1, <2>1, HowMany DEF ShapeInv, StackInv
<1> DEFINE i == insp[1]
           a == Adopted(outer, i.findings)
           r == Structured(a, i)
<1>3. i \in InspType /\ i.findings \in Seq(ReportType)
  <2>1. i \in InspType
    BY <1>1, <1>2
  <2> QED BY <2>1, InspNumbers
<1>4. Report(r, job.rules)
  BY <1>1
<1>5. CutIn(insp) <=> i.limit \/ i.incomplete
  <2>1. \A k \in 1..1 : k = 1
    OBVIOUS
  <2> QED BY <1>2, <2>1 DEF CutIn
<1> HIDE DEF i
<1>6. a \in ReportType
  BY <1>1, <1>3, AdoptedFacts
<1> HIDE DEF a
<1>7. /\ r \in ReportType /\ (r.verdict = "Clean" => ~i.limit)
      /\ r.completeness = "Complete" => ~i.incomplete
  BY <1>3, <1>6, StructuredFacts
<1> HIDE DEF r
<1>8. Ledger = seen.blobs
  <2>1. Pending = {}
    BY <1>1 DEF Pending, Sampling
  <2>2. RestIn(frames) = {}
    <3>1. 1..Len(frames) = {}
      BY <1>1
    <3> QED BY <3>1 DEF RestIn
  <2> QED BY <2>1, <2>2 DEF Ledger
<1>9. r.verdict = "Clean" /\ r.completeness = "Complete" =>
        {job.blob} \cup Inside(job.blob) \subseteq seen'.blobs
  BY <1>1, <1>5, <1>7, <1>8 DEF OwedInv, Whole
<1> QED BY <1>1, <1>4, <1>7, <1>9, OwedReport

\* What is inside a file, by what it is walked as.
LEMMA InsideFacts ==
  ASSUME NEW b \in Blobs
  PROVE  /\ \A kind \in Containers :
              kind = Kind(b) \/ (kind = "Zip" /\ Kind(b) \notin Containers /\ Blob[b].trailing) =>
                Inside(b) = Contents(kind, 1, b)
         /\ Kind(b) \notin Containers /\ ~Blob[b].trailing => Inside(b) = {}
<1>1. Kind(b) = "OleCompound" => Inside(b) = Streams(b)
  BY DEF Inside, Kind, Containers
<1>2. Kind(b) = "Gzip" => Inside(b) = Readable(b)
  BY DEF Inside, Kind, Containers
<1>3. Kind(b) = "Zip" \/ (Kind(b) \notin Containers /\ Blob[b].trailing) => Inside(b) = Within[1][b]
  BY DEF Inside, Kind, Containers
<1>4. Kind(b) \notin Containers /\ ~Blob[b].trailing => Inside(b) = {}
  BY DEF Inside, Kind, Containers
<1>5. ASSUME NEW kind \in Containers,
             kind = Kind(b) \/ (kind = "Zip" /\ Kind(b) \notin Containers /\ Blob[b].trailing)
      PROVE  Inside(b) = Contents(kind, 1, b)
  <2>1. CASE kind = "Zip"
    BY <1>3, <1>5, <2>1 DEF Contents
  <2>2. CASE kind = "OleCompound"
    BY <1>1, <1>5, <2>2 DEF Contents
  <2>3. CASE kind = "Gzip"
    BY <1>2, <1>5, <2>3 DEF Contents
  <2> QED BY <2>1, <2>2, <2>3 DEF Containers
<1> QED BY <1>4, <1>5

\* The file itself has been looked at: what is in it is still to be, or there is
\* nothing in it.
LEMMA OwedOuter ==
  ASSUME ShapeInv, stage = "amsi", NEW r, IsLeafReport(r), Noticed(r), OuterEnds(r),
         leaf \in LeafType, leaf.blob \in Blobs
  PROVE  OwedInv'
<1> DEFINE b == leaf.blob
<1>1. job'.blob = job.blob /\ b = job.blob
  <2>1. job \in JobType
    BY DEF ShapeInv, TypeInv
  <2>2. job'.blob = job.blob
    BY <2>1 DEF OuterEnds, JobType
  <2> QED BY <2>2 DEF ShapeInv, StageInv, Sampling, OuterEnds
<1>2. b \in seen'.blobs
  BY DEF Noticed
<1> HIDE DEF b
<1>3. b \in Blobs
  BY DEF b
<1>4. CASE WalkBegins(r)
  <2>1. PICK kind \in Containers :
          /\ stage' = "walk"
          /\ kind = Kind(b) \/ (kind = "Zip" /\ Kind(b) \notin Containers /\ Blob[b].trailing)
          /\ insp' = <<Opened(kind, NewInspection, b)>>
          /\ frames' = <<NewFrame(kind, b, 1, MaxExpanded)>>
    BY <1>4 DEF WalkBegins, b
  <2> DEFINE o == Opened(kind, NewInspection, b)
             first == 1
             f == NewFrame(kind, b, first, MaxExpanded)
  <2>2. TooManyEntries(kind, NewInspection, b) => o.incomplete
    BY <1>3, NewInspections, ContainersOpened
  <2>3. insp' = <<o>> /\ frames' = <<f>>
    BY <2>1
  <2>4. first \in Nat /\ first \in 1..MaxDepth
    BY Limits
  <2>5. Inside(b) = Contents(kind, first, b)
    BY <1>3, <2>1, InsideFacts
  <2> HIDE DEF o, first
  <2>6. f \in FrameType /\ f.kind = kind /\ f.blob = b /\ f.next = 1 /\ f.depth = first
    BY <1>3, <2>4, Limits, NewFrames
  <2> HIDE DEF f
  <2>7. Contents(kind, first, b) \subseteq Rest(f)
    BY <1>3, <2>4, <2>6, RestFresh
  <2>8. Len(insp') = 1 /\ insp'[1] = o /\ 1 \in 1..Len(insp')
    BY <2>3
  <2>9. Len(frames') = 1 /\ frames'[1] = f /\ 1 \in 1..Len(frames')
    BY <2>3
  <2>10. Rest(f) \subseteq RestIn(frames')
    BY <2>9 DEF RestIn
  <2>11. Overfull(f) => CutIn(insp')
    <3>1. Overfull(f) => TooManyEntries(kind, NewInspection, b)
      BY <2>6 DEF Overfull, TooManyEntries, Entries
    <3> QED BY <2>2, <2>8, <3>1 DEF CutIn
  <2>12. \A k \in 1..Len(frames') : frames'[k] = f
    <3>1. \A k \in 1..1 : k = 1
      OBVIOUS
    <3> QED BY <2>9, <3>1
  <2>13. {job'.blob} \cup Inside(job'.blob) \subseteq Ledger'
    BY <1>1, <1>2, <2>5, <2>7, <2>10 DEF Ledger
  <2>14. ~CutIn(insp') => NoneOverfull'
    BY <2>11, <2>12 DEF NoneOverfull
  <2> QED BY <2>1, <2>13, <2>14, PlacedBetween DEF OwedInv, Whole, NothingUnreadIsClean
<1>5. CASE ReportStands(r)
  <2>1. Report(r, leaf.rules) /\ r \in ReportType
    BY <1>5 DEF ReportStands, IsLeafReport
  <2>2. r.completeness = "Complete" => Inside(b) = {}
    BY <1>3, <1>5, InsideFacts DEF ReportStands, IsLeafReport, b
  <2> QED BY <1>1, <1>2, <2>1, <2>2, OwedReport
<1> QED BY <1>4, <1>5 DEF OuterEnds

\* A macro's source has been looked at.
LEMMA OwedMacroEnds ==
  ASSUME ShapeInv, OwedInv, stage = "amsi", NEW r, IsLeafReport(r), Noticed(r), MacroEnds(r),
         Len(insp) # 0, Top \in InspType
  PROVE  OwedInv'
<1> DEFINE i == record_finding(Top, r)
<1>1. i \in InspType /\ (Top.limit => i.limit) /\ (Top.incomplete => i.incomplete)
  BY FindingRecorded DEF IsLeafReport
<1>2. /\ insp' = Upd(i) /\ stage' = "walk" /\ UNCHANGED <<job, frames>> /\ leaf.part = "macro"
      /\ seen'.blobs = seen.blobs \cup {leaf.blob} /\ TypeInv /\ UnderWay
  BY DEF MacroEnds, Noticed, ShapeInv, UnderWay, Sampling
<1> HIDE DEF i
<1>3. CutIn(insp) => CutIn(insp')
  BY <1>1, <1>2, CutUpdated
<1>4. Pending = {leaf.blob}
  BY <1>2 DEF Pending, Sampling
<1>5. Ledger \subseteq Ledger'
  BY <1>2, <1>4 DEF Ledger
<1>6. NoneOverfull' = NoneOverfull
  BY <1>2 DEF NoneOverfull
<1> QED BY <1>2, <1>3, <1>5, <1>6, PlacedBetween, OwedGoesOn DEF Whole

\* An entry has been looked at: what is in it is still to be, or the inspection
\* says that it was left at that.
LEMMA OwedEntry ==
  ASSUME ShapeInv, OwedInv, stage = "amsi", leaf' = leaf, NEW r, IsLeafReport(r), Noticed(r),
         EntryEnds(r),
         leaf.blob \in Blobs, Len(frames) # 0, Len(insp) # 0, Top \in InspType
  PROVE  OwedInv'
<1> DEFINE i == record_finding(Top, r)
           b == leaf.blob
<1>1. i \in InspType /\ (Top.limit => i.limit) /\ (Top.incomplete => i.incomplete)
  BY FindingRecorded DEF IsLeafReport
<1>2. PICK j : /\ Remarked(i, j)
    /\ \/ frames' = frames /\ insp' = Upd(j) /\ Covered(j, b)
       \/ /\ Frame.kind = "Zip" /\ Kind(b) = "Zip" /\ Frame.depth < MaxDepth /\ Blob[b].opens
          /\ insp' = Upd(j) /\ frames' = Append(frames, NewFrame("Zip", b, Frame.depth + 1, MaxExpanded))
       \/ /\ Frame.kind = "Zip" /\ Kind(b) = "OleCompound" /\ NestedLimit(i) # 0 /\ j = i
          /\ insp' = Append(Upd(i), OpenedOle(NewInspection, b))
          /\ frames' = Append(frames, NewFrame("OleCompound", b, 1, NestedLimit(i)))
  BY DEF EntryEnds, Descended
<1> HIDE DEF i
<1>3. /\ job' = job /\ seen'.blobs = seen.blobs \cup {b} /\ TypeInv /\ UnderWay /\ b \in Blobs
      /\ stage' = IF Frame.kind = "OleCompound" /\ is_vba(LastEntry) THEN "macro" ELSE "walk"
      /\ leaf.part = "entry" /\ leaf'.blob = b
  BY DEF EntryEnds, Noticed, ShapeInv, UnderWay, Sampling
<1>4. Pending = Under(Frame.kind, Frame.depth, LastEntry) /\ LastEntry.blob = b
  BY <1>3 DEF Pending, Sampling, OwedInv, Placed, OnEntry
<1> HIDE DEF b
<1>5. j \in InspType /\ (Top.limit => j.limit) /\ (Top.incomplete => j.incomplete)
  BY <1>1, <1>2 DEF Remarked, Silent
<1>6. Frame \in FrameType /\ Frame.depth \in Nat
  BY <1>3, Innermost DEF FrameType
<1>7. stage' # "done"
  BY <1>3
<1>8. ASSUME NEW x \in Under(Frame.kind, Frame.depth, LastEntry)
      PROVE  \/ x = b
             \/ /\ Frame.kind = "Zip" /\ Kind(b) = "Zip" /\ Frame.depth < MaxDepth
                /\ x \in Within[Frame.depth + 1][b]
             \/ Frame.kind = "Zip" /\ Kind(b) = "OleCompound" /\ x \in Streams(b)
             \/ Frame.kind = "OleCompound" /\ is_vba(LastEntry) /\ x \in Macro(b)
  BY <1>4, <1>8 DEF Under, Nested
<1>9. CASE frames' = frames /\ insp' = Upd(j) /\ Covered(j, b)
  <2>1. (CutIn(insp) => CutIn(insp')) /\ (j.limit \/ j.incomplete => CutIn(insp'))
    BY <1>3, <1>5, <1>9, CutUpdated
  <2>2. ASSUME ~CutIn(insp'), NEW x \in Pending PROVE x \in seen'.blobs \/ x \in Pending'
    <3>1. CASE x = b
      BY <1>3, <3>1
    <3>2. CASE /\ Frame.kind = "Zip" /\ Kind(b) = "Zip" /\ Frame.depth < MaxDepth
               /\ x \in Within[Frame.depth + 1][b]
      <4>1. ~Blob[b].opens
        BY <1>9, <2>1, <2>2, <3>2 DEF Covered
      <4>2. Frame.depth + 1 \in 1..MaxDepth
        BY <1>6, <3>2, Limits
      <4> QED BY <1>3, <3>2, <4>1, <4>2, UnopenedEmpty
    <3>3. CASE Frame.kind = "Zip" /\ Kind(b) = "OleCompound" /\ x \in Streams(b)
      <4>1. ~Blob[b].opens
        BY <1>9, <2>1, <2>2, <3>3 DEF Covered
      <4> QED BY <1>3, <3>3, <4>1, UnopenedEmpty
    <3>4. CASE Frame.kind = "OleCompound" /\ is_vba(LastEntry) /\ x \in Macro(b)
      <4>1. stage' = "macro"
        BY <1>3, <3>4
      <4> QED BY <1>3, <3>4, <4>1 DEF Pending, Sampling
    <3> QED BY <1>4, <1>8, <2>2, <3>1, <3>2, <3>3, <3>4
  <2>3. ~CutIn(insp') => Ledger \subseteq Ledger'
    BY <1>3, <1>9, <2>2 DEF Ledger
  <2>4. NoneOverfull' = NoneOverfull
    BY <1>9 DEF NoneOverfull
  <2>5. Placed'
    <3>1. LastEntry' = LastEntry
      BY <1>9 DEF LastEntry, Frame, Entries
    <3>2. stage' \in {"walk", "macro"} /\ (stage' = "macro" => is_vba(LastEntry))
      BY <1>3
    <3> QED BY <1>3, <1>4, <3>1, <3>2 DEF Placed, OnEntry, Sampling
  <2> QED BY <1>3, <1>7, <2>1, <2>3, <2>4, <2>5, OwedGoesOn DEF Whole
<1>10. ASSUME NEW f \in FrameType, Grown(f), Frame.kind = "Zip",
              CutIn(insp) => CutIn(insp'), Overfull(f) => CutIn(insp'),
              IF Kind(b) = "Zip" THEN Within[Frame.depth + 1][b] \subseteq Rest(f)
              ELSE Streams(b) \subseteq Rest(f)
       PROVE  OwedInv'
  <2>1. /\ RestIn(frames) \subseteq RestIn(frames') /\ Rest(f) \subseteq RestIn(frames')
        /\ ~Overfull(f) /\ NoneOverfull => NoneOverfull'
    BY <1>3, <1>10, OwedGrown
  <2>2. ASSUME NEW x \in Pending PROVE x \in Ledger'
    <3>1. x = b \/ x \in Rest(f)
      BY <1>4, <1>8, <1>10, <2>2
    <3> QED BY <1>3, <2>1, <3>1 DEF Ledger
  <2>3. Ledger \subseteq Ledger'
    <3>1. seen.blobs \subseteq Ledger' /\ RestIn(frames) \subseteq Ledger'
      BY <1>3, <2>1 DEF Ledger
    <3> QED BY <2>2, <3>1 DEF Ledger
  <2>4. Placed'
    <3>1. stage' = "walk"
      BY <1>3, <1>10
    <3> QED BY <3>1, PlacedBetween
  <2> QED BY <1>3, <1>7, <1>10, <2>1, <2>3, <2>4, OwedGoesOn DEF Whole
<1>11. CASE /\ Frame.kind = "Zip" /\ Kind(b) = "Zip" /\ Frame.depth < MaxDepth /\ Blob[b].opens
            /\ insp' = Upd(j) /\ frames' = Append(frames, NewFrame("Zip", b, Frame.depth + 1, MaxExpanded))
  <2> DEFINE d == Frame.depth + 1
             kind == "Zip"
             f == NewFrame(kind, b, d, MaxExpanded)
  <2>1. d \in Nat /\ d \in 1..MaxDepth /\ kind \in Containers
    BY <1>6, <1>11, Limits DEF Containers
  <2>2. frames' = Append(frames, f)
    BY <1>11
  <2> HIDE DEF d, kind
  <2>3. f \in FrameType /\ f.kind = kind /\ f.blob = b /\ f.next = 1 /\ f.depth = d
    BY <1>3, <2>1, Limits, NewFrames
  <2> HIDE DEF f
  <2>4. Grown(f)
    BY <2>2 DEF Grown
  <2>5. Contents(kind, d, b) \subseteq Rest(f)
    BY <1>3, <2>1, <2>3, RestFresh
  <2>6. Within[Frame.depth + 1][b] \subseteq Rest(f)
    BY <2>5 DEF Contents, kind, d
  <2>7. ~Overfull(f)
    BY <2>3 DEF Overfull, kind
  <2>8. CutIn(insp) => CutIn(insp')
    BY <1>3, <1>5, <1>11, CutUpdated
  <2> QED BY <1>10, <1>11, <2>3, <2>4, <2>6, <2>7, <2>8
<1>12. CASE /\ Frame.kind = "Zip" /\ Kind(b) = "OleCompound" /\ NestedLimit(i) # 0 /\ j = i
            /\ insp' = Append(Upd(i), OpenedOle(NewInspection, b))
            /\ frames' = Append(frames, NewFrame("OleCompound", b, 1, NestedLimit(i)))
  <2> DEFINE limit == NestedLimit(i)
             first == 1
             kind == "OleCompound"
             f == NewFrame(kind, b, first, limit)
             o == OpenedOle(NewInspection, b)
             u == Upd(i)
  <2>1. limit \in Nat /\ first \in Nat /\ kind \in Containers /\ kind # "Zip"
    <3>1. i.expanded \in Nat /\ MaxExpanded \in Nat
      BY <1>1, Limits DEF InspType
    <3> QED BY <3>1 DEF NestedLimit, Containers
  <2>2. o \in InspType /\ (TooManyEntries(kind, NewInspection, b) => o.incomplete)
    <3>1. Opened(kind, NewInspection, b) = o
      BY DEF Opened
    <3> HIDE DEF o
    <3> QED BY <1>3, <3>1, NewInspections, ContainersOpened DEF Remarked, Silent
  <2>3. frames' = Append(frames, f) /\ insp' = Append(u, o)
    BY <1>12
  <2>4. /\ u \in Seq(InspType) /\ Len(u) = Len(insp) /\ u[Len(insp)] = i
        /\ \A k \in 1..Len(insp) : k # Len(insp) => u[k] = insp[k]
    BY <1>1, <1>3, UpdFacts
  <2>5. Len(insp) \in Nat /\ Len(insp) \in 1..Len(insp) /\ Top = insp[Len(insp)]
    BY <1>3, Innermost
  <2> HIDE DEF limit, first, o, u, kind
  <2>6. f \in FrameType /\ f.kind = kind /\ f.blob = b /\ f.next = 1 /\ f.depth = first
    BY <1>3, <2>1, NewFrames
  <2> HIDE DEF f
  <2>7. Grown(f)
    BY <2>3 DEF Grown
  <2>8. Contents(kind, first, b) \subseteq Rest(f)
    BY <1>3, <2>1, <2>6, RestFresh
  <2>9. Streams(b) \subseteq Rest(f)
    BY <2>8 DEF Contents, kind
  <2>10. /\ Len(insp') = Len(insp) + 1 /\ insp'[Len(insp) + 1] = o
         /\ \A k \in 1..Len(insp) : insp'[k] = u[k]
    <3> DEFINE S == InspType
               n == Len(insp)
    <3>1. u \in Seq(S) /\ o \in S /\ Len(u) = n
      BY <2>2, <2>4
    <3> HIDE DEF S, n
    <3>2. Len(insp') = n + 1 /\ insp'[n + 1] = o /\ \A k \in 1..n : insp'[k] = u[k]
      BY ONLY <2>3, <3>1, AddLast
    <3> QED BY <3>2 DEF n
  <2>11. /\ Len(insp) + 1 \in 1..Len(insp')
         /\ \A k \in 1..Len(insp) : k \in 1..Len(insp')
    BY <2>5, <2>10
  <2>12. Overfull(f) => CutIn(insp')
    <3>1. Overfull(f) => TooManyEntries(kind, NewInspection, b)
      BY <2>6 DEF Overfull, TooManyEntries, Entries
    <3> QED BY <2>2, <2>10, <2>11, <3>1 DEF CutIn
  <2>13. CutIn(insp) => CutIn(insp')
    <3> SUFFICES ASSUME NEW k \in 1..Len(insp), insp[k].limit \/ insp[k].incomplete PROVE CutIn(insp')
      BY DEF CutIn
    <3>1. u[k].limit \/ u[k].incomplete
      <4>1. CASE k = Len(insp)
        BY <1>1, <2>4, <2>5, <4>1
      <4>2. CASE k # Len(insp)
        BY <2>4, <4>2
      <4> QED BY <4>1, <4>2
    <3>2. insp'[k].limit \/ insp'[k].incomplete
      BY <2>10, <3>1
    <3> QED BY <2>11, <3>2 DEF CutIn
  <2>14. Kind(b) # "Zip"
    BY <1>12
  <2> QED BY <1>10, <1>12, <2>6, <2>7, <2>9, <2>12, <2>13, <2>14
<1> QED BY <1>2, <1>9, <1>11, <1>12

\* Every step keeps it.
LEMMA OwedNext ==
  ASSUME ShapeInv, OwedInv, [Next]_vars
  PROVE  OwedInv'
<1>1. CASE Gathering
  BY <1>1, GatherSteps, OwedGathers DEF ShapeInv
<1>2. CASE \E b \in Files, origin \in {"file", "bytes", "amsi"} : Submit(b, origin)
  <2>1. stage' \in {"reading", "static"} /\ leaf'.part = "outer"
    BY <1>2 DEF Submit, Leaf
  <2> QED BY <2>1, PlacedBetween DEF OwedInv, UnderWay, NothingUnreadIsClean
<1>3. CASE ReadFails \/ Panic
  <2>1. Report(error, {}) /\ job' = job
    BY <1>3 DEF ReadFails, Panic
  <2>2. error \in ReportType /\ error.verdict = "Error"
    BY ErrorReport
  <2> QED BY <2>1, <2>2, OwedReport
<1>4. CASE FinishLeaf
  <2>1. /\ stage = "amsi" /\ leaf' = leaf /\ leaf \in LeafType /\ leaf.blob \in Blobs
        /\ leaf.part # "outer" => Len(frames) # 0 /\ Len(insp) # 0 /\ Top \in InspType
    BY <1>4, LeafEnds
  <2>2. PICK r : IsLeafReport(r) /\ Noticed(r) /\ (OuterEnds(r) \/ EntryEnds(r) \/ MacroEnds(r))
    BY <1>4, LeafEnds
  <2>3. CASE OuterEnds(r)
    BY <2>1, <2>2, <2>3, OwedOuter
  <2>4. CASE EntryEnds(r)
    <3>1. leaf.part # "outer"
      BY <2>4 DEF EntryEnds
    <3> QED BY <2>1, <2>2, <2>4, <3>1, OwedEntry
  <2>5. CASE MacroEnds(r)
    <3>1. leaf.part # "outer"
      BY <2>5 DEF MacroEnds
    <3> QED BY <2>1, <2>2, <2>5, <3>1, OwedMacroEnds
  <2> QED BY <2>2, <2>3, <2>4, <2>5
<1>5. CASE DecompressMacro
  BY <1>5, OwedMacroBegins
<1>6. CASE Lapse
  BY <1>6, OwedLapse
<1>7. CASE WalkZip \/ WalkOle \/ WalkGzip
  BY <1>7, Walks, OwedWalk DEF ShapeInv
<1>8. CASE LeaveContainer
  BY <1>8, OwedLeave
<1>9. CASE EndInspection
  BY <1>9, OwedEnds
<1>10. CASE Deliver
  BY <1>10, PlacedBetween DEF Deliver, OwedInv, UnderWay, Sampling, NothingUnreadIsClean
<1> QED BY <1>1, <1>2, <1>3, <1>4, <1>5, <1>6, <1>7, <1>8, <1>9, <1>10 DEF Next, Gathering

\* A report that is clean and complete was reached with everything readable in
\* the file looked at, whatever is nested in what and wherever a budget, a limit
\* or the deadline may cut the walk short (NothingUnreadIsClean; archive.rs).
THEOREM NothingUnreadIsEverClean == Spec => []NothingUnreadIsClean
<1>1. Init => ShapeInv /\ OwedInv
  BY ShapeInit DEF Init, OwedInv, Placed, OnEntry, UnderWay, Sampling, NothingUnreadIsClean
<1>2. ShapeInv /\ OwedInv /\ [Next]_vars => ShapeInv' /\ OwedInv'
  BY ShapeNext, OwedNext
<1>3. OwedInv => NothingUnreadIsClean
  BY DEF OwedInv
<1> QED BY <1>1, <1>2, <1>3, PTL DEF Spec

-----------------------------------------------------------------------------
(* What a search finds.                                                    *)

\* What is searched is text.
LEMMA SampleTyped ==
  ASSUME NEW b \in Blobs, NEW origin
  PROVE  SampleOf(b, origin).text \in Seq(Bytes)
<1> DEFINE text == Blob[b].text
           n == AtMost(Size(b), MaxRead)
<1>1. text \in Seq(Bytes)
  BY BlobAssumption
<1>2. Size(b) = Len(text) /\ Len(text) \in Nat
  BY <1>1 DEF Size
<1>3. n <= Len(text) /\ n \in Nat
  BY <1>2, StaticAssumption DEF AtMost
<1>4. SampleOf(b, origin).text = IF origin = "file" THEN SubSeq(text, 1, n) ELSE text
  BY DEF SampleOf, SampleText
<1> HIDE DEF text, n
<1>5. SubSeq(text, 1, n) \in Seq(Bytes)
  BY <1>1, <1>2, <1>3
<1> QED BY <1>1, <1>4, <1>5

\* The sample is looked up, and searched if no hash decides.
LEMMA SearchLookUp ==
  ASSUME ShapeInv, SearchInv, LookUp
  PROVE  SearchInv'
<1>1. CASE UNCHANGED indexVars
  BY <1>1, SearchStays
<1>2. CASE BeginScan(SampleOf(leaf.blob, leaf.origin))
  <2>1. leaf.blob \in Blobs
    BY DEF LookUp, ShapeInv, TypeInv, LeafType
  <2>2. SampleOf(leaf.blob, leaf.origin).text \in Seq(Bytes)
    BY <2>1, SampleTyped
  <2> QED BY <1>2, <2>2, BeginKeeps
<1>3. UNCHANGED indexVars \/ BeginScan(SampleOf(leaf.blob, leaf.origin))
  BY DEF LookUp
<1> QED BY <1>1, <1>2, <1>3

\* No step but a search's own touches the search.
LEMMA SearchNext ==
  ASSUME ShapeInv, SearchInv, [Next]_vars
  PROVE  SearchInv'
<1>1. CASE LookUp
  BY <1>1, SearchLookUp
<1>2. CASE Search
  BY <1>2, HitKeeps, JudgeKeeps DEF Search
<1>3. CASE SearchEnds
  BY <1>3, QuietKeeps DEF SearchEnds, EndScan
<1>4. CASE Panic
  BY <1>4, QuietKeeps DEF Panic, PanicScan
<1>5. CASE ReplaceIndex
  BY <1>5, ReplaceKeeps DEF ReplaceIndex
<1>6. CASE UNCHANGED indexVars
  BY <1>6, SearchStays
<1>7. CASE \/ \E b \in Files, origin \in {"file", "bytes", "amsi"} : Submit(b, origin)
           \/ ReadFails \/ ReadFile \/ ScanStatic \/ \E failed \in BOOLEAN : RunRules(failed)
  BY <1>6, <1>7 DEF Submit, ReadFails, ReadFile, ScanStatic, RunRules
<1>8. CASE FinishLeaf \/ DecompressMacro \/ Lapse \/ WalkZip \/ WalkOle \/ WalkGzip
  BY <1>6, <1>8 DEF FinishLeaf, DecompressMacro, Lapse, WalkZip, WalkOle, WalkGzip
<1>9. CASE LeaveContainer \/ EndInspection \/ Deliver \/ ReplaceEngine \/ UNCHANGED vars
  BY <1>6, <1>9 DEF LeaveContainer, EndInspection, Deliver, ReplaceEngine, vars
<1> QED BY <1>1, <1>2, <1>3, <1>4, <1>5, <1>7, <1>8, <1>9 DEF Next

\* A search that stays within its step budget finds what the signatures mean,
\* of any database and any text, whatever an earlier scan left in the thread's
\* counters (ScanAgrees; pattern.rs scan_counting, verify, Scratch,
\* required_bytes).
THEOREM ScanAlwaysAgrees == Spec => []ScanAgrees
<1>1. Init => ShapeInv /\ SearchInv
  BY ShapeInit, SearchInit DEF Init
<1>2. ShapeInv /\ SearchInv /\ [Next]_vars => ShapeInv' /\ SearchInv'
  BY ShapeNext, SearchNext
<1>3. SearchInv => ScanAgrees
  BY DEF SearchInv
<1> QED BY <1>1, <1>2, <1>3, PTL DEF Spec
=============================================================================
