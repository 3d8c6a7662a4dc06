---------------------------- MODULE StaticEngine ----------------------------
(***************************************************************************)
(* The built-in static analysis (src/engine.rs) as operators on what a     *)
(* file is: its structure stands for its bytes, positions are small        *)
(* numbers, and the points are the code's own.                             *)
(***************************************************************************)
EXTENDS Integers, Sequences, FiniteSets, SequencesExt, FiniteSetsExt

CONSTANTS MaxRead,          \* ScanConfig::max_read_bytes
          Nearby,           \* NEARBY
          MostPositions,    \* MOST_POSITIONS
          MinEntropyBytes,  \* MIN_SECTION_ENTROPY_BYTES
          MinOverlay,       \* the MiB an overlay must have
          MaxSections,      \* the 32 sections that are still usual
          MaxPdfStream,     \* MAX_PDF_STREAM_BYTES
          MaxPdfExpanded,   \* MAX_PDF_EXPANDED_BYTES
          MaxPdfStreams     \* MAX_PDF_STREAMS

ASSUME StaticAssumption ==
  {MaxRead, Nearby, MostPositions, MinEntropyBytes, MinOverlay, MaxSections, MaxPdfStream, MaxPdfExpanded,
   MaxPdfStreams} \subseteq Nat

Threshold == 55
E(code, points) == <<[code |-> code, points |-> points]>>
When(condition, code, points) == IF condition THEN E(code, points) ELSE <<>>
AtMost(n, limit) == IF n > limit THEN limit ELSE n

-----------------------------------------------------------------------------
(* What a file is taken for.                                               *)

\* decode_probable_text: UTF-16 is decoded lossily; UTF-8 must be whole, and a
\* sample cut inside a character is not.
decode_probable_text(text) == text.printable /\ (text.utf16 \/ ~text.cut)

\* identify_script_language, by the words that give a language away.
Scripts == {"shebang", "powershell", "batch", "vbs", "js"}
classify_content(shape) ==
  CASE shape.kind = "pe" -> IF shape.parses THEN "Pe" ELSE "PeUnknown"
    [] shape.kind \in {"Pdf", "Lnk", "Zip", "Gzip", "OleCompound", "Other"} -> shape.kind
    [] shape.kind = "text" -> IF ~decode_probable_text(shape) THEN "Other"
                              ELSE IF shape.words \cap Scripts # {} THEN "Script" ELSE "Text"
IsPe(content_type) == content_type \in {"Pe", "PeUnknown"}

\* What the model knows of a file's structure: as much as its kind calls for.
SectionType == [at : Nat, virtual : Nat, raw : Nat, size : Nat, executable : BOOLEAN,
                writable : BOOLEAN, dense : BOOLEAN, packer : BOOLEAN]
IsShape(shape) ==
  /\ shape.kind \in {"pe", "text", "Pdf", "Lnk", "Zip", "Gzip", "OleCompound", "Other"}
  /\ shape.kind = "pe" => /\ shape.sections \in Seq(SectionType)
                          /\ {shape.entry, shape.tables} \subseteq Nat
                          /\ {shape.parses, shape.legacy, shape.plausible} \subseteq BOOLEAN
  /\ shape.kind = "text" => /\ IsFiniteSet(shape.marks)
                            /\ \A w \in shape.marks : {w.at, w.needle} \subseteq Nat
                            /\ {shape.printable, shape.utf16, shape.cut, shape.escaped} \subseteq BOOLEAN
  /\ shape.kind = "Pdf" => shape.streams \in Seq(Seq(STRING))

-----------------------------------------------------------------------------
(* Programs.                                                               *)

\* Mutant of section_evidence: a section that runs past what was read is out
\* of bounds, in the file or not.
section_evidence_prefix(pe, s, read, size) ==
  LET end == s.raw + s.size
      span == IF s.virtual > s.size THEN s.virtual ELSE s.size
  IN  When(pe.entry \in s.at..(s.at + span - 1) /\ s.writable, "pe.entrypoint_writable", 20)
        \o When(s.executable /\ s.writable, "pe.writable_executable_section", 18)
        \o When(s.packer, "pe.packer_section_name", 20)
        \o When(end > read, "pe.invalid_section_bounds", 25)
        \o When(end <= read /\ s.executable /\ s.size >= MinEntropyBytes /\ s.dense,
                "pe.high_entropy_executable_section", 15)

\* One section: where the entry point lies, what it allows, its bounds and,
\* if it was read, how dense it is.
section_evidence(pe, s, read, size) ==
  LET end == s.raw + s.size
      span == IF s.virtual > s.size THEN s.virtual ELSE s.size
  IN  When(pe.entry \in s.at..(s.at + span - 1) /\ s.writable, "pe.entrypoint_writable", 20)
        \o When(s.executable /\ s.writable, "pe.writable_executable_section", 18)
        \o When(s.packer, "pe.packer_section_name", 20)
        \o When(end > read /\ end > size, "pe.invalid_section_bounds", 25)
        \o When(end <= read /\ s.executable /\ s.size >= MinEntropyBytes /\ s.dense,
                "pe.high_entropy_executable_section", 15)

\* analyze_import_set, over the kinds of function imported.
analyze_import_set(imports) ==
  LET stages == Cardinality(imports \cap {"allocate", "write", "run"}) IN
  When(imports = {}, "pe.no_imports", 6)
    \o When(stages >= 2, "pe.process_injection_capability", IF stages = 3 THEN 38 ELSE 25)
    \o When({"download", "execute"} \subseteq imports, "pe.download_and_execute_capability", 22)
    \o When({"keys", "hook"} \subseteq imports, "pe.input_capture_capability", 18)
    \o When(Cardinality(imports \cap {"debugger", "remote_debugger"}) >= 2, "pe.anti_debug_cluster", 10)

\* Whether the parser (external) can read the headers and tables from as much
\* as was read.
Parses(pe, read) == pe.parses /\ pe.tables <= read

analyze_pe(pe, read, size) ==
  LET sections == pe.sections
      of == [i \in DOMAIN sections |-> section_evidence(pe, sections[i], read, size)]
      rawEnd == Max({0} \cup {sections[i].raw + sections[i].size : i \in DOMAIN sections})
      found == pe.entry = 0 \/ \E i \in DOMAIN sections :
                 pe.entry \in sections[i].at..(sections[i].at + Max({sections[i].virtual, sections[i].size}) - 1)
      packed == \E i \in DOMAIN sections : \E e \in Range(of[i]) :
                  e.code \in {"pe.packer_section_name", "pe.high_entropy_executable_section"}
      overlay == read - rawEnd
  IN  IF ~Parses(pe, read)
      THEN IF size > read THEN E("pe.unparsed_prefix", 0)
           ELSE IF pe.legacy THEN E("pe.legacy_executable", 0)
           ELSE IF pe.plausible THEN E("pe.structure_unreadable", 30)
           ELSE E("pe.malformed", 55)
      ELSE When(sections = <<>>, "pe.no_sections", 35)
             \o When(Len(sections) > MaxSections, "pe.excessive_sections", 15)
             \o FlattenSeq(of)
             \o When(~found, "pe.entrypoint_outside_sections", 25)
             \o When(rawEnd < read /\ overlay >= MinOverlay /\ overlay * 100 >= 30 * read /\ packed,
                     "pe.large_overlay_with_packing", 8)
             \o analyze_import_set(pe.imports)

-----------------------------------------------------------------------------
(* Scripts, shortcuts and documents.                                       *)

\* Where the words of one kind are in the part of a script that is looked at:
\* each needle's in the order of the text, one needle after the other.
Marks(text, kind) == {w \in text.marks : w.kind = kind}
At(text, kind) == {w.at : w \in Marks(text, kind)}
Has(text, kind) == At(text, kind) # {}
Ahead(marks, w) == {v \in marks : v.needle < w.needle \/ (v.needle = w.needle /\ v.at < w.at)}

\* The positions near looks at: those found first, no more than MOST_POSITIONS.
positions(text, kind) ==
  LET marks == Marks(text, kind)
  IN  {w.at : w \in {v \in marks : Cardinality(Ahead(marks, v)) < MostPositions}}

\* near: the neighbour at or after a place, and the one before it.
near(left, right, window) ==
  \E at \in left :
    LET after == {other \in right : other >= at}
        before == {other \in right : other < at}
    IN  \/ after # {} /\ Min(after) - at <= window
        \/ before # {} /\ at - Max(before) <= window

analyze_script(text) ==
  LET encoded == Has(text, "encoded") \/ (Has(text, "powershell") /\ Has(text, "base64"))
      close(p, q) == near(positions(text, p), positions(text, q), Nearby)
      download == close("execute", "network")
      decode == close("execute", "encoded")
      lolbin == close("lolbin", "network") \/ close("lolbin", "encoded")
  IN  IF ~decode_probable_text(text) THEN <<>>
      ELSE When(encoded, "script.encoded_payload", 22)
        \o When(download, "script.download_and_execute", 42)
        \o When(~download /\ decode, "script.decode_and_execute", 34)
        \o When(text.switches >= 2, "script.stealth_switch_cluster", 15)
        \o When(lolbin, "script.lolbin_delivery", 28)
        \o When(text.escaped /\ Has(text, "execute") /\ (download \/ decode \/ encoded),
                "script.token_obfuscation", 10)
        \o When(close("execute", "chars"), "script.constructed_expression", 18)

\* analyze_lnk: a launcher given something to fetch, decode or run, or padding.
analyze_lnk(lnk) ==
  LET args == lnk.arguments
      launch == \/ "fetch" \in args /\ args \cap {"decode", "run"} # {}
                \/ {"decode", "run"} \subseteq args
  IN  IF ~lnk.parses \/ ~lnk.launcher THEN <<>>
      ELSE When(launch, "lnk.script_launch", 45)
        \o When(launch /\ lnk.minimized, "lnk.hidden_window", 10)
        \o When("padded" \in args, "lnk.padded_arguments", 30)

\* What one stream may still be inflated to.
StreamBudget(expanded) == AtMost(MaxPdfStream, MaxPdfExpanded - expanded)

\* expand_pdf: the names in the file, escapes decoded, and those at the start
\* of each compressed stream, as far as the budgets go.  A stream is the
\* sequence of its names.
expand_pdf(pdf) ==
  LET inflate(acc, stream) ==
        IF acc.streams >= MaxPdfStreams \/ acc.expanded >= MaxPdfExpanded THEN acc
        ELSE LET n == AtMost(Len(stream), StreamBudget(acc.expanded)) IN
             [streams |-> acc.streams + 1, expanded |-> acc.expanded + n,
              names |-> acc.names \cup Range(SubSeq(stream, 1, n))]
  IN  FoldLeft(inflate, [streams |-> 0, expanded |-> 0, names |-> pdf.names], pdf.streams)

analyze_pdf(pdf) ==
  LET names == expand_pdf(pdf).names
      javascript == names \cap {"JavaScript", "JS"} # {}
      automatic == names \cap {"OpenAction", "AA"} # {}
  IN  When(javascript /\ automatic, "pdf.automatic_javascript", 60)
        \o When(javascript /\ ~automatic, "pdf.javascript", 15)
        \o When("Launch" \in names, "pdf.launch_action", 55)
        \o When({"EmbeddedFile", "Filespec"} \subseteq names, "pdf.embedded_file", 10)

-----------------------------------------------------------------------------
(* The static report.                                                      *)

Points(evidence) == FoldLeft(LAMBDA n, e : n + e.points, 0, evidence)

\* The part of the file the engine looks at, and what is said of it.
Evidence(shape, read, size) ==
  CASE shape.kind = "pe" -> analyze_pe(shape, read, size)
    [] shape.kind = "text" /\ classify_content(shape) = "Script" -> analyze_script(shape)
    [] shape.kind = "Pdf" -> analyze_pdf(shape)
    [] shape.kind = "Lnk" -> analyze_lnk(shape)
    [] OTHER -> <<>>

verdict_confidence(verdict, score, truncated, evidence) ==
  CASE verdict = "Malicious" -> 100
    [] verdict = "Suspicious" ->
         AtMost(70 + 5 * (Len(SelectSeq(evidence, LAMBDA e : e.points > 0)) - 1)
                   + (score - Threshold) \div 5, 95)
    [] verdict = "Clean" -> IF truncated THEN 30 ELSE 75

\* analyze_internal: signature is "exact", "reputation" or "none", from the
\* database of digests (SignatureDatabase::lookup); without a whole digest
\* none is looked up.
analyze_internal(shape, read, size, digest, signature) ==
  LET exact == digest /\ signature # "none"
      truncated == size > read
      evidence == Evidence(shape, read, size)
      score == AtMost(Points(evidence), 100)
      verdict == IF exact THEN "Malicious" ELSE IF score >= Threshold THEN "Suspicious" ELSE "Clean"
  IN  [verdict |-> verdict,
       content_type |-> IF shape.kind = "pe"
                        THEN IF Parses(shape, read) THEN "Pe" ELSE "PeUnknown"
                        ELSE classify_content(shape),
       risk_score |-> IF exact THEN 100 ELSE score,
       confidence |-> verdict_confidence(verdict, score, truncated, evidence),
       sha256 |-> digest, truncated |-> truncated,
       completeness |-> IF truncated THEN "PrefixAndTargetedRegions" ELSE "Complete",
       signature |-> IF exact THEN signature ELSE "none"]

\* scan_sample: bytes in hand, whose digest is taken only when all of them are
\* looked at.
scan_sample(shape, length, signature) ==
  analyze_internal(shape, AtMost(length, MaxRead), length, length <= MaxRead, signature)

\* scan_sample_with_digest: a file, hashed whole whatever was kept of it.
scan_sample_with_digest(shape, size, signature) ==
  analyze_internal(shape, AtMost(size, MaxRead), size, TRUE, signature)

-----------------------------------------------------------------------------
(* What must hold of these, for one file.                                  *)

\* Reading less of a program never makes it look worse.
PrefixesMilder(shape, size) ==
  shape.kind = "pe" =>
    \A read \in 0..size : Points(Evidence(shape, read, size)) <= Points(Evidence(shape, size, size))

\* near says what it is meant to say: nothing that is not so, and all that is
\* so where no kind of word has more than MostPositions of them.
Together(text, p, q) == \E i \in At(text, p), j \in At(text, q) : i - j \in (-Nearby)..Nearby
Few(text, kind) == Cardinality(Marks(text, kind)) <= MostPositions
NearMeansNear(text) ==
  text.kind = "text" => \A p, q \in {w.kind : w \in text.marks} :
    LET found == near(positions(text, p), positions(text, q), Nearby)
    IN  /\ found => Together(text, p, q)
        /\ Together(text, p, q) /\ Few(text, p) /\ Few(text, q) => found

\* What a PDF is inflated to stays within the whole allowance.
PdfBounded(pdf) ==
  pdf.kind = "Pdf" => LET x == expand_pdf(pdf) IN
    x.expanded <= MaxPdfExpanded /\ x.streams <= MaxPdfStreams
=============================================================================
