----------------------------- MODULE Detection -----------------------------
(***************************************************************************)
(* One analysis of a file or of bytes, from the open handle to the report  *)
(* (src/detection.rs), with the walk through containers (src/archive.rs)   *)
(* that analyses every entry the same way.  The index may be replaced by   *)
(* the updater at any step it is not locked; rules may time out, a parser  *)
(* may panic, the time for a container may run out.                        *)
(***************************************************************************)
EXTENDS NativeIndex, StaticEngine, Evidence

CONSTANTS Blobs,         \* names of contents
          Files,         \* those that are analysed as such; others are found inside them
          Blob,          \* what each one is
          MaxScans,      \* bound on the analyses of a run
          MaxDepth,      \* MAX_ARCHIVE_DEPTH
          MaxEntries,    \* MAX_ARCHIVE_ENTRIES
          MaxEntryBytes, \* MAX_ENTRY_BYTES
          MaxExpanded,   \* MAX_TOTAL_EXPANDED_BYTES
          MacroOffsets,  \* the places in a stream where macros may begin that are tried
          MaxMacroBytes, \* what macros may be decompressed to
          MaxFindings    \* MAX_FINDINGS

ASSUME DetectionAssumption ==
  /\ Files \subseteq Blobs /\ Blobs \subseteq DOMAIN Blob
  /\ {MaxScans, MaxDepth, MaxEntries, MaxEntryBytes, MaxExpanded, MaxFindings,
      MacroOffsets, MaxMacroBytes} \subseteq Nat
  /\ MaxDepth # 0 /\ MaxEntries # 0 /\ MaxEntryBytes <= MaxExpanded

\* What a container says of one entry; how it cannot be read as it stands.
Faults == {"none", "short", "unreadable", "directory", "name", "encrypted", "ratio"}
EntryType == [blob : Blobs, fault : Faults, names : SUBSET {"macro", "program"}, external : Nat]

\* What a content is, as far as it decides anything; a gzip file has one payload.
ASSUME BlobAssumption ==
  /\ None \notin Blobs
  /\ \A b \in Blobs :
       /\ Blob[b].text \in Seq(Bytes) /\ IsShape(Blob[b].shape)
       /\ Blob[b].signature \in {"exact", "reputation", "none"}
       /\ \A r \in Blob[b].rules : IsRule(r)
       /\ IsFiniteSet(Blob[b].similar) /\ Blob[b].similar \subseteq Nat
       /\ {Blob[b].shard, Blob[b].trailing, Blob[b].opens} \subseteq BOOLEAN
       /\ Blob[b].macro \in Blobs \cup {None} /\ Blob[b].offset \in Nat
       /\ Blob[b].entries \in Seq(EntryType)
       /\ Blob[b].shape.kind = "Gzip" => Len(Blob[b].entries) = 1

VARIABLES job,       \* the analysis under way: what, how it came, the rules that matched it
          stage,     \* where it is
          leaf,      \* the sample being analysed, the evidence so far, and (history)
                     \* whether the index is still the one it began with
          outer,     \* the report on the file itself
          frames,    \* containers being walked, innermost last
          insp,      \* their inspections; a compound file inside an archive has its own
          breakers,  \* the circuit breakers of the engine
          scans,     \* analyses begun
          seen       \* history: what was analysed, and the verdicts on it

detectionVars == <<job, stage, leaf, outer, frames, insp, breakers, scans, seen>>
vars == <<indexVars, detectionVars>>

Size(b) == Len(Blob[b].text)
NoJob == [blob |-> None, origin |-> None, rules |-> {}]
NoLeaf == [blob |-> None]
Nothing == [blobs |-> {}, malicious |-> FALSE, flagged |-> 0, identified |-> FALSE]

-----------------------------------------------------------------------------
(* The analysis of one sample.                                             *)

\* A sample is a file's first part, or all of the bytes in hand.
SampleText(b, origin) ==
  IF origin = "file" THEN SubSeq(Blob[b].text, 1, AtMost(Size(b), MaxRead)) ELSE Blob[b].text
SampleOf(b, origin) == [text |-> SampleText(b, origin), size |-> Size(b), layout |-> Blob[b].layout]

\* A leaf to be analysed: its MD5 is known, or is only computed if the index
\* loaded now can use it.
Leaf(b, origin, part) ==
  [blob |-> b, origin |-> origin, part |-> part,
   md5 |-> origin # "file" \/ wants_file_md5(Size(b)), fresh |-> TRUE,
   static |-> None, native |-> "none", rules |-> {}, failed |-> FALSE,
   similar |-> {}]

\* scan_path, scan_bytes, scan_amsi_submission: an analysis begins.  A file's
\* index is asked about MD5 before the file is read.
Submit(b, origin) ==
  /\ stage = "idle" /\ scans < MaxScans
  /\ job' = [blob |-> b, origin |-> origin, rules |-> {}]
  /\ leaf' = Leaf(b, origin, "outer")
  /\ stage' = IF origin = "file" THEN "reading" ELSE "static"
  /\ scans' = scans + 1
  /\ seen' = Nothing
  /\ outer' = None /\ frames' = <<>> /\ insp' = <<>>
  /\ UNCHANGED <<indexVars, breakers>>

\* The analysis ends with a report; bytes that came through AMSI are judged
\* once more by the rules that matched the bytes themselves.
Report(r, rules) ==
  /\ stage' = "done"
  /\ outer' = IF job.origin = "amsi" THEN amsi_submission(r, rules) ELSE r

\* The handle cannot be opened, cloned, read or stated again, or the file
\* changed while it was read.
ReadFails ==
  /\ stage = "reading"
  /\ Report(error, {})
  /\ UNCHANGED <<indexVars, job, leaf, frames, insp, breakers, scans, seen>>

\* read_and_hash, then the same file still.
ReadFile ==
  /\ stage = "reading"
  /\ stage' = "static"
  /\ UNCHANGED <<indexVars, job, leaf, outer, frames, insp, breakers, scans, seen>>

ScanStatic ==
  /\ stage = "static"
  /\ LET b == leaf.blob IN
     leaf' = [leaf EXCEPT !.static =
       IF leaf.origin = "file" THEN scan_sample_with_digest(Blob[b].shape, Size(b), Blob[b].signature)
       ELSE scan_sample(Blob[b].shape, Size(b), Blob[b].signature)]
  /\ stage' = "index"
  /\ UNCHANGED <<indexVars, job, outer, frames, insp, breakers, scans, seen>>

\* evaluate_native_index: hashes, and the search if none matched; under one
\* read lock.  Without a whole digest nothing is looked up.
LookUp ==
  /\ stage = "index"
  /\ LET b == leaf.blob
         sample == SampleOf(b, leaf.origin)
         digests == IF IsPe(leaf.static.content_type)
                    THEN section_digests(Parses(Blob[b].shape, Len(sample.text)),
                                         Blob[b].sections, Len(sample.text)) ELSE {}
         hash == evaluate(b, Size(b), leaf.md5, digests)
     IN  \/ /\ ~leaf.static.sha256
            /\ stage' = "rules" /\ UNCHANGED <<leaf, indexVars>>
         \/ /\ leaf.static.sha256 /\ hash # None
            /\ leaf' = [leaf EXCEPT !.native = hash]
            /\ stage' = "rules" /\ UNCHANGED indexVars
         \/ /\ leaf.static.sha256 /\ hash = None /\ is_allowlisted(b, leaf.md5)
            /\ stage' = "rules" /\ UNCHANGED <<leaf, indexVars>>
         \/ /\ leaf.static.sha256 /\ hash = None /\ ~is_allowlisted(b, leaf.md5)
            /\ stage' = "search" /\ BeginScan(sample) /\ UNCHANGED leaf
  /\ UNCHANGED <<job, outer, frames, insp, breakers, scans, seen>>

Search == stage = "search" /\ (Hit \/ Judge) /\ UNCHANGED detectionVars

SearchEnds ==
  /\ stage = "search" /\ EndScan
  /\ leaf' = [leaf EXCEPT !.native = IF scan.found = None THEN "none" ELSE "Pattern"]
  /\ stage' = "rules"
  /\ UNCHANGED <<index, scratch, job, outer, frames, insp, breakers, scans, seen>>

\* contain_panics: the whole analysis becomes an error.
Panic ==
  /\ stage = "search" /\ PanicScan
  /\ Report(error, {})
  /\ UNCHANGED <<job, leaf, frames, insp, breakers, scans, seen>>

\* scan_rules: matches go through the breaker; a timeout yields none and is
\* not observed.  The similarity breaker observes every sample.
RunRules(failed) ==
  /\ stage = "rules"
  /\ LET matches == {RuleMatch(r) : r \in Blob[leaf.blob].rules}
         rules == IF failed THEN breakers.rules ELSE observe(breakers.rules, External(matches) # {})
         similar == observe(breakers.similar, Blob[leaf.blob].similar # {})
     IN  /\ leaf' = [leaf EXCEPT !.rules = IF failed THEN {} ELSE LetThrough(rules, matches),
                                 !.failed = failed,
                                 !.similar = IF similar.tripped THEN {} ELSE Blob[leaf.blob].similar]
         /\ breakers' = [rules |-> rules, similar |-> similar]
  /\ stage' = "amsi"
  /\ UNCHANGED <<indexVars, job, outer, frames, insp, scans, seen>>

\* scan_with_amsi: scripts, compound files and what a rule matched, unless the
\* bytes came through AMSI.
Resolved(amsi) ==
  record_rule_failure(
    resolve([static |-> leaf.static, native |-> leaf.native, rules |-> leaf.rules,
             shard |-> Blob[leaf.blob].shard /\ leaf.static.sha256,
             similar |-> leaf.similar, amsi |-> amsi]), leaf.failed)
Consulted == /\ job.origin # "amsi"
             /\ \/ leaf.static.content_type \in {"Script", "OleCompound"}
                \/ leaf.rules # {}

-----------------------------------------------------------------------------
(* Containers.                                                             *)

NewInspection == [scanned |-> 0, expanded |-> 0, macros |-> 0, attachments |-> 0, external |-> 0,
                  rejected |-> 0, limit |-> FALSE, incomplete |-> FALSE, malformed |-> FALSE,
                  findings |-> <<>>, late |-> FALSE]
Top == insp[Len(insp)]
Frame == frames[Len(frames)]
Containers == {"Zip", "Gzip", "OleCompound"}
NewFrame(kind, b, depth, limit) ==
  [kind |-> kind, blob |-> b, next |-> 1, depth |-> depth, limit |-> limit]
Upd(i) == [insp EXCEPT ![Len(insp)] = i]
Entries(f) == Blob[f.blob].entries
Entry == Entries(Frame)[Frame.next]
LastEntry == Entries(Frame)[Frame.next - 1]
Advanced == [frames EXCEPT ![Len(frames)].next = @ + 1]

\* A stream whose name or folder says macros.
is_vba(entry) == "macro" \in entry.names
\* vba::decompress: a stream's source (what has "Attribute VB_" in it) begins at one
\* of the first places that look like a beginning, and is not too large.
decompresses(b) == /\ Blob[b].macro # None
                   /\ Blob[b].offset <= MacroOffsets /\ Size(Blob[b].macro) <= MaxMacroBytes

verdict_rank(v) ==
  CASE v = "Clean" -> 0 [] v = "Error" -> 1 [] v = "Suspicious" -> 2 [] v = "Malicious" -> 3

\* record_finding
record_finding(i, r) ==
  IF r.verdict # "Clean" /\ Len(i.findings) < MaxFindings
  THEN [i EXCEPT !.findings = Append(@, r)] ELSE i

structural_risk_score(i) ==
  IF i.limit THEN 60
  ELSE IF i.macros > 0 /\ (i.attachments > 0 \/ i.external > 0) THEN 65
  ELSE IF i.rejected > 0 \/ i.malformed THEN 35 ELSE 0

\* What opening a container notes at once; an unreadable one has no entries.
OpenedZip(i, b) ==
  [i EXCEPT !.incomplete = @ \/ i.late \/ (~i.late /\ Blob[b].opens
                                             /\ Len(Blob[b].entries) > MaxEntries - i.scanned),
            !.malformed = @ \/ (~i.late /\ ~Blob[b].opens)]
OpenedOle(i, b) ==
  [i EXCEPT !.incomplete = @ \/ (Blob[b].opens /\ Len(Blob[b].entries) > MaxEntries),
            !.malformed = @ \/ ~Blob[b].opens]
Opened(kind, i, b) == IF kind = "Zip" THEN OpenedZip(i, b)
                      ELSE IF kind = "OleCompound" THEN OpenedOle(i, b) ELSE i

\* merge_nested_inspection
merge_nested_inspection(i, n) ==
  [i EXCEPT !.scanned = @ + n.scanned, !.expanded = @ + n.expanded, !.macros = @ + n.macros,
            !.attachments = @ + n.attachments, !.external = @ + n.external,
            !.rejected = @ + n.rejected, !.limit = @ \/ n.limit,
            !.incomplete = @ \/ n.incomplete, !.malformed = @ \/ n.malformed,
            !.findings = SubSeq(@ \o n.findings, 1, AtMost(Len(@ \o n.findings), MaxFindings))]

\* Mutant of NestedLimit: the compound file has an allowance of its own.
NestedLimit_whole(i) == MaxExpanded
\* What is left for a compound file inside an archive.
NestedLimit(i) == IF i.expanded > MaxExpanded THEN 0 ELSE MaxExpanded - i.expanded

\* After an entry was analysed, what it contains is walked too: an archive up
\* to MaxDepth, a compound file within what is left.  Its place in the walk
\* was advanced when it was read.
Descend(i, b) ==
  LET kind == Blob[b].shape.kind
      inZip == Frame.kind = "Zip"
  IN  \/ /\ inZip /\ kind = "Zip" /\ Frame.depth = MaxDepth
         /\ insp' = Upd([i EXCEPT !.limit = TRUE]) /\ UNCHANGED frames
      \/ /\ inZip /\ kind = "Zip" /\ Frame.depth < MaxDepth
         /\ insp' = Upd(OpenedZip(i, b))
         /\ frames' = IF i.late \/ ~Blob[b].opens THEN frames
                      ELSE Append(frames, NewFrame("Zip", b, Frame.depth + 1, MaxExpanded))
      \/ /\ inZip /\ kind = "OleCompound" /\ NestedLimit(i) = 0
         /\ insp' = Upd([i EXCEPT !.incomplete = TRUE]) /\ UNCHANGED frames
      \/ /\ inZip /\ kind = "OleCompound" /\ NestedLimit(i) # 0
         /\ insp' = Append(Upd(i), OpenedOle(NewInspection, b))
         /\ frames' = Append(frames, NewFrame("OleCompound", b, 1, NestedLimit(i)))
      \/ /\ ~(inZip /\ kind \in {"Zip", "OleCompound"})
         /\ insp' = Upd(i) /\ UNCHANGED frames

\* with_container_inspection, its beginning: a truncated sample is not opened;
\* an archive at the end of something else is.
StartInspection(r) ==
  LET shown == leaf.static.content_type
      kind == IF shown \notin Containers /\ Blob[leaf.blob].trailing THEN "Zip" ELSE shown
  IN  IF r.truncated \/ kind \notin Containers
      THEN Report(r, leaf.rules) /\ UNCHANGED <<frames, insp>>
      ELSE /\ stage' = "walk" /\ outer' = r
           /\ insp' = <<Opened(kind, NewInspection, leaf.blob)>>
           /\ frames' = <<NewFrame(kind, leaf.blob, 1, MaxExpanded)>>

\* The end of one sample's analysis: the report on the file, or a finding.
FinishLeaf ==
  /\ stage = "amsi"
  /\ \E amsi \in IF Consulted THEN {Blob[leaf.blob].amsi, "none"} ELSE {"none"} :
       LET r == Resolved(amsi) IN
       /\ seen' = [blobs |-> seen.blobs \cup {leaf.blob},
                   malicious |-> seen.malicious \/ r.verdict = "Malicious",
                   flagged |-> seen.flagged + IF leaf.part # "outer" /\ r.verdict # "Clean" THEN 1 ELSE 0,
                   identified |-> seen.identified \/ r.quarantine]
       /\ \/ /\ leaf.part = "outer" /\ StartInspection(r)
             /\ job' = [job EXCEPT !.rules = leaf.rules]
          \/ /\ leaf.part = "entry"
             /\ Descend(record_finding(Top, r), leaf.blob)
             /\ stage' = IF Frame.kind = "OleCompound" /\ is_vba(LastEntry) THEN "macro" ELSE "walk"
             /\ UNCHANGED <<outer, job>>
          \/ /\ leaf.part = "macro"
             /\ insp' = Upd(record_finding(Top, r)) /\ stage' = "walk"
             /\ UNCHANGED <<outer, job, frames>>
  /\ UNCHANGED <<indexVars, leaf, breakers, scans>>

\* The source decompressed from a macro stream is analysed as well; what is not
\* found, or grows too large, is left without a word.
DecompressMacro ==
  /\ stage = "macro"
  /\ IF decompresses(leaf.blob)
     THEN leaf' = Leaf(Blob[leaf.blob].macro, "bytes", "macro") /\ stage' = "static"
     ELSE stage' = "walk" /\ UNCHANGED leaf
  /\ UNCHANGED <<indexVars, job, outer, frames, insp, breakers, scans, seen>>

\* The time for an inspection runs out; one begun earlier has run out too.
Lapse ==
  /\ stage = "walk"
  /\ \E k \in DOMAIN insp :
       /\ ~insp[k].late
       /\ insp' = [j \in DOMAIN insp |-> IF j <= k THEN [insp[j] EXCEPT !.late = TRUE] ELSE insp[j]]
  /\ UNCHANGED <<indexVars, job, stage, leaf, outer, frames, breakers, scans, seen>>

Walking(kind) == stage = "walk" /\ frames # <<>> /\ Frame.kind = kind
Remaining == Blob[Frame.blob].opens /\ Frame.next <= Len(Entries(Frame))

\* An entry that is read becomes the next sample.
ReadEntry(i) ==
  /\ insp' = Upd(i) /\ frames' = Advanced
  /\ leaf' = Leaf(Entry.blob, "bytes", "entry")
  /\ stage' = "static"
SkipEntry(i) == insp' = Upd(i) /\ frames' = Advanced /\ UNCHANGED <<leaf, stage>>

\* One entry of an archive: the budgets first, then what is wrong with it.
observe_office_structure(i, e) ==
  [i EXCEPT !.scanned = @ + 1,
            !.macros = @ + (IF is_vba(e) THEN 1 ELSE 0),
            !.attachments = @ + (IF "program" \in e.names THEN 1 ELSE 0)]
TooLarge(i, b, limit) == Size(b) > MaxEntryBytes \/ i.expanded + Size(b) > limit
WalkZip ==
  /\ Walking("Zip") /\ Remaining /\ Top.scanned < MaxEntries /\ ~Top.late
  /\ LET e == Entry
         i == observe_office_structure(Top, e)
         big == e.fault \in {"none", "short"} /\ TooLarge(i, e.blob, MaxExpanded)
     IN  \/ e.fault = "unreadable" /\ SkipEntry([Top EXCEPT !.malformed = TRUE])
         \/ e.fault = "directory" /\ SkipEntry(Top)
         \/ e.fault = "name" /\ SkipEntry([Top EXCEPT !.scanned = @ + 1, !.rejected = @ + 1])
         \/ e.fault = "encrypted" /\ SkipEntry(i)
         \/ e.fault = "ratio" /\ SkipEntry([i EXCEPT !.limit = TRUE])
         \/ big /\ SkipEntry([i EXCEPT !.incomplete = TRUE])
         \/ e.fault = "short" /\ ~big /\ SkipEntry([i EXCEPT !.malformed = TRUE])
         \/ e.fault = "none" /\ ~big
            /\ ReadEntry([i EXCEPT !.expanded = @ + Size(e.blob), !.external = @ + e.external])
  /\ UNCHANGED <<indexVars, job, outer, breakers, scans, seen>>

\* One stream of a compound file.
WalkOle ==
  /\ Walking("OleCompound") /\ Remaining /\ Frame.next <= MaxEntries /\ ~Top.late
  /\ LET e == Entry
         i == [Top EXCEPT !.scanned = @ + 1]
         j == [i EXCEPT !.macros = @ + (IF is_vba(e) THEN 1 ELSE 0)]
         big == TooLarge(i, e.blob, Frame.limit)
     IN  \/ big /\ SkipEntry([i EXCEPT !.incomplete = TRUE])
         \/ ~big /\ e.fault = "name" /\ SkipEntry([i EXCEPT !.rejected = @ + 1])
         \/ ~big /\ e.fault \in {"unreadable", "short"} /\ SkipEntry([j EXCEPT !.malformed = TRUE])
         \/ ~big /\ e.fault = "none" /\ ReadEntry([j EXCEPT !.expanded = @ + Size(e.blob)])
  /\ UNCHANGED <<indexVars, job, outer, breakers, scans, seen>>

\* inspect_gzip: its one payload.
WalkGzip ==
  /\ Walking("Gzip") /\ Frame.next = 1
  /\ LET e == Entry
         big == e.fault # "short" /\ Size(e.blob) > MaxEntryBytes
     IN  \/ e.fault = "short" /\ SkipEntry([Top EXCEPT !.malformed = TRUE])
         \/ big /\ SkipEntry([Top EXCEPT !.incomplete = TRUE])
         \/ ~big /\ e.fault = "ratio" /\ SkipEntry([Top EXCEPT !.limit = TRUE])
         \/ ~big /\ e.fault = "none" /\ ReadEntry([Top EXCEPT !.scanned = 1, !.expanded = Size(e.blob)])
  /\ UNCHANGED <<indexVars, job, outer, breakers, scans, seen>>

\* Mutant of Cut: the rest of the archive is given up without a word.
Cut_silent(i) == i
\* Entries are left over: too many, or no time.
Cut(i) == [i EXCEPT !.incomplete = TRUE]
Stopped == CASE Frame.kind = "Zip" -> Top.scanned >= MaxEntries \/ Top.late
             [] Frame.kind = "OleCompound" -> Top.late
             [] Frame.kind = "Gzip" -> FALSE
Ended == CASE Frame.kind = "OleCompound" -> ~Remaining \/ Frame.next > MaxEntries
           [] Frame.kind = "Zip" -> ~Remaining
           [] Frame.kind = "Gzip" -> Frame.next > 1

\* A container's loop is over, or broken off; a compound file's inspection is
\* merged into the archive's.
LeaveContainer ==
  /\ stage = "walk" /\ frames # <<>> /\ (Ended \/ Stopped)
  /\ LET i == IF ~Ended /\ Stopped THEN Cut(Top) ELSE Top IN
     insp' = IF Len(insp) > 1 /\ Frame.kind = "OleCompound"
             THEN <<merge_nested_inspection(insp[1], i)>> ELSE Upd(i)
  /\ frames' = SubSeq(frames, 1, Len(frames) - 1)
  /\ UNCHANGED <<indexVars, job, stage, leaf, outer, breakers, scans, seen>>

\* Mutant of Strongest: the first finding is taken.
Strongest_first(findings) == findings[1]
\* max_by_key: the last of the strongest.
Strongest(findings) ==
  LET key(f) == verdict_rank(f.verdict) * 1000 + f.risk
      best == CHOOSE i \in DOMAIN findings :
                /\ \A j \in DOMAIN findings : key(findings[j]) <= key(findings[i])
                /\ \A j \in DOMAIN findings : j > i => key(findings[j]) < key(findings[i])
  IN  findings[best]

\* with_container_inspection, its end: the report takes over the strongest
\* finding and the structure's risk.
Adopted(r, findings) ==
  LET f == Strongest(findings)
      raised == [r EXCEPT !.verdict = f.verdict, !.risk = Highest(@, f.risk)]
      q == f.quarantine /\ r.sha256 /\ ~r.truncated
      judged == IF f.verdict = "Malicious" THEN [raised EXCEPT !.confidence = Highest(@, 95)]
                ELSE IF f.verdict = "Suspicious" /\ r.verdict = "Clean"
                THEN [raised EXCEPT !.confidence = Highest(@, 80)] ELSE r
  IN  IF findings = <<>> THEN r
      ELSE [judged EXCEPT !.quarantine = @ \/ q, !.block = @ \/ f.block \/ r.quarantine \/ q]
Structured(r, i) ==
  LET s == structural_risk_score(i)
      raised == IF s >= Threshold /\ r.verdict = "Clean"
                THEN [r EXCEPT !.verdict = "Suspicious", !.risk = s, !.confidence = 75] ELSE r
  IN  IF i.incomplete /\ r.completeness = "Complete"
      THEN [raised EXCEPT !.completeness = "ResourceLimitReached"] ELSE raised
EndInspection ==
  /\ stage = "walk" /\ frames = <<>>
  /\ Report(Structured(Adopted(outer, insp[1].findings), insp[1]), job.rules)
  /\ UNCHANGED <<indexVars, job, leaf, frames, insp, breakers, scans, seen>>

\* The report is handed over.
Deliver ==
  /\ stage = "done"
  /\ stage' = "idle" /\ job' = NoJob /\ leaf' = NoLeaf
  /\ frames' = <<>> /\ insp' = <<>> /\ outer' = None
  /\ seen' = Nothing
  /\ UNCHANGED <<indexVars, breakers, scans>>

-----------------------------------------------------------------------------

\* The updater replaces the index, or the engine with its breakers.
ReplaceIndex ==
  /\ Replace
  /\ leaf' = IF stage = "idle" THEN leaf ELSE [leaf EXCEPT !.fresh = FALSE]
  /\ UNCHANGED <<job, stage, outer, frames, insp, breakers, scans, seen>>
ReplaceEngine ==
  /\ stage = "idle"
  /\ breakers' = [rules |-> NewBreaker, similar |-> NewBreaker]
  /\ UNCHANGED <<indexVars, job, stage, leaf, outer, frames, insp, scans, seen>>

Init ==
  /\ IndexInit
  /\ job = NoJob /\ stage = "idle" /\ leaf = NoLeaf /\ outer = None
  /\ frames = <<>> /\ insp = <<>> /\ scans = 0
  /\ breakers = [rules |-> NewBreaker, similar |-> NewBreaker]
  /\ seen = Nothing

Next ==
  \/ \E b \in Files, origin \in {"file", "bytes", "amsi"} : Submit(b, origin)
  \/ ReadFails \/ ReadFile \/ ScanStatic
  \/ LookUp \/ Search \/ SearchEnds \/ Panic
  \/ \E failed \in BOOLEAN : RunRules(failed)
  \/ FinishLeaf \/ DecompressMacro
  \/ Lapse \/ WalkZip \/ WalkOle \/ WalkGzip \/ LeaveContainer
  \/ EndInspection \/ Deliver
  \/ ReplaceIndex \/ ReplaceEngine

Spec == Init /\ [][Next]_vars

-----------------------------------------------------------------------------
(* Properties.                                                             *)

\* An index that is not replaced between the question about MD5 and the lookup
\* says of a file what its lists say: nothing of one either list vouches for,
\* whichever digest vouches, and otherwise the most exact match there is, by a
\* section only of a program whose headers and tables lie in the sample; the
\* sizes that save computing digests lose none of it (native_index.rs
\* wants_file_md5, section_digests, evaluate).
HashesAgree ==
  stage = "rules" /\ leaf.static.sha256 /\ leaf.fresh =>
    LET d == index
        b == leaf.blob
        named == \E e \in d.allow : e.of = b
        vouched == \E e \in d.allow : e.of = b /\ (e.algorithm = "md5" => size_matches(e.size, Size(b)))
        listed == \E e \in d.files : e.of = b /\ size_matches(e.size, Size(b))
        section == /\ IsPe(leaf.static.content_type)
                   /\ Parses(Blob[b].shape, Len(SampleText(b, leaf.origin)))
                   /\ \E s \in Blob[b].sections, e \in d.sections :
                        /\ s.size # 0 /\ s.start + s.size <= Len(SampleText(b, leaf.origin))
                        /\ e.of = s.of /\ size_matches(e.size, s.size)
    IN  /\ vouched => leaf.native = "none"
        /\ ~named /\ listed => leaf.native = "WholeFile"
        /\ ~named /\ ~listed /\ section => leaf.native = "PeSection"

\* A program never looks worse for having been read only in part (engine.rs
\* analyze_pe), and two kinds of words count as near only when some two of them
\* are, and always when they are and no kind has more than MostPositions of them:
\* beyond those, what is left out is not looked for (engine.rs near).
StaticAgrees ==
  stage = "index" => /\ PrefixesMilder(Blob[leaf.blob].shape, Size(leaf.blob))
                     /\ NearMeansNear(Blob[leaf.blob].shape)

\* Whatever is nested in what, a walk expands no more than its allowance, looks
\* at no more than twice the entries an archive may have, goes no deeper than
\* the limit and reports no more findings than it may; a PDF is inflated
\* within its own (archive.rs walk_zip, inspect_ole_with_limit; expand_pdf).
BudgetsHold ==
  /\ \A k \in DOMAIN insp : /\ insp[k].expanded <= MaxExpanded /\ insp[k].scanned <= 2 * MaxEntries
                            /\ Len(insp[k].findings) <= MaxFindings
  /\ Len(insp) = 2 => insp[1].expanded + insp[2].expanded <= MaxExpanded
  /\ Len(frames) <= MaxDepth + 1
  /\ stage = "index" => PdfBounded(Blob[leaf.blob].shape)

\* A container is malicious exactly when it or something analysed inside it is,
\* as long as no finding was dropped for want of room; and a report that lets
\* the file be quarantined convicts it, on a file, an entry or a macro that was
\* identified by digest or signature (detection.rs with_container_inspection).
StrongestEntryDecides ==
  stage = "done" /\ outer.verdict # "Error" =>
    /\ seen.malicious /\ seen.flagged <= MaxFindings => outer.verdict = "Malicious"
    /\ outer.verdict = "Malicious" => seen.malicious \/ job.origin = "amsi"
    /\ outer.quarantine => outer.verdict = "Malicious" /\ seen.identified

\* Everything a complete walk of a file looks at: entries that can be read, the
\* archives and compound files among an archive's entries in turn, and the
\* macros of streams that are named for them, as far as they can be decompressed.
\* The code opens nothing else: not a container inside a gzip or compound file,
\* a gzip file inside an archive, or macros elsewhere or beyond their limits.
Intact(b) == IF Blob[b].opens THEN {e \in Range(Blob[b].entries) : e.fault = "none"} ELSE {}
Readable(b) == {e.blob : e \in Intact(b)}
Sources(b) == {Blob[e.blob].macro : e \in {x \in Intact(b) : is_vba(x) /\ decompresses(x.blob)}}
Streams(b) == Readable(b) \cup Sources(b)
Within[d \in 1..MaxDepth] == [x \in Blobs |->
  Readable(x)
    \cup (UNION {IF Blob[y].shape.kind = "Zip" /\ d < MaxDepth THEN Within[d + 1][y] ELSE {} : y \in Readable(x)})
    \cup (UNION {IF Blob[y].shape.kind = "OleCompound" THEN Streams(y) ELSE {} : y \in Readable(x)})]
Inside(b) ==
  LET kind == Blob[b].shape.kind
  IN  CASE kind = "OleCompound" -> Streams(b)
        [] kind = "Gzip" -> Readable(b)
        [] kind = "Zip" \/ (kind \notin Containers /\ Blob[b].trailing) -> Within[1][b]
        [] OTHER -> {}

\* A report that is clean and complete, and so may be kept as the verdict on the
\* file, was reached with everything the walk opens looked at: no budget, depth
\* or deadline cut it short.  What it never opens - see Inside - may be unread in
\* such a report, as may entries that are faulty or encrypted (archive.rs; the
\* completeness with_container_inspection hands to the verdict cache).
NothingUnreadIsClean ==
  stage = "done" /\ outer.verdict = "Clean" /\ outer.completeness = "Complete" =>
    {job.blob} \cup Inside(job.blob) \subseteq seen.blobs
=============================================================================
