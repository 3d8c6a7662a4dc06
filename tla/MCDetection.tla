---------------------------- MODULE MCDetection ----------------------------
(* A small instance of Detection: two databases, and files chosen so that     *)
(* each kind of evidence, container, fault and budget occurs.                *)
EXTENDS Detection

Line(tokens, offset, target) == [tokens |-> tokens, offset |-> offset, target |-> target]
Piece(bytes, modifiers) == [tokens |-> <<BytesPart(bytes)>>, offset |-> Anywhere, modifiers |-> modifiers]
Node(op, subs, compare, limit, args) ==
  [op |-> op, subs |-> subs, compare |-> compare, limit |-> limit, distinct |-> 2, args |-> args]
Seen(s) == Node("seen", <<s>>, ">", 0, <<>>)
Hash(algorithm, of, size) == [algorithm |-> algorithm, of |-> of, size |-> size]

Mark == Piece(<<"7", "#">>, {})
Both == [target |-> "Any", file_size |-> None, pieces |-> <<Mark, Piece(<<"#", "a">>, {"i"})>>,
         expr |-> <<Seen(1), Seen(2), Node("all", <<>>, ">", 0, <<1, 2>>)>>]
Twice == [target |-> "Any", file_size |-> <<4, 5>>, pieces |-> <<Mark, Piece(<<"0", "7">>, {"f"})>>,
          expr |-> <<Node("count", <<1>>, ">", 1, <<>>), Seen(2), Node("all", <<>>, ">", 0, <<1, 2>>)>>]
Absent == [target |-> "Any", file_size |-> None, pieces |-> <<Piece(<<"a", "M", "7">>, {}), Mark>>,
           expr |-> <<Seen(1), Node("count", <<2>>, "=", 0, <<>>), Node("any", <<>>, ">", 0, <<1, 2>>)>>]
Either == [target |-> "Any", file_size |-> None, pieces |-> <<Piece(<<"a", "7", "#">>, {"w", "a"})>>,
           expr |-> <<Seen(1)>>]
\* A piece whose first fit need not be one on word boundaries.
Loose == [target |-> "Any", file_size |-> None,
          pieces |-> <<[tokens |-> <<BytesPart(<<"M", "#">>), Gap(0, 2), BytesPart(<<"M">>)>>,
                        offset |-> Anywhere, modifiers |-> {"f"}]>>, expr |-> <<Seen(1)>>]
Sum == [target |-> "Any", file_size |-> None, pieces |-> <<Piece(<<"0", "#", "7">>, {}), Piece(<<"7", "0", "#">>, {})>>,
        expr |-> <<Node("total", <<1, 2>>, ">", 1, <<>>)>>]
AtEntry == Line(<<BytesPart(<<"7", "M", "#">>)>>, [base |-> "entry", at |-> 0, shift |-> 1], "Pe")
AtEnd == Line(<<BytesPart(<<"0", "a", "7">>)>>, [base |-> "eof", at |-> 3, shift |-> 0], "Any")
Gapped == Line(<<BytesPart(<<"a", "7">>), Gap(0, 2), BytesPart(<<"M">>)>>, Anywhere, "Any")
Cased == Line(<<BytesPart(<<"a", "A", "#">>)>>, Anywhere, "Any")
Weak == Line(<<BytesPart(<<"0", "7">>)>>, Anywhere, "Any")

MCDatabases ==
  <<[files |-> {Hash("sha256", "vouched", None), Hash("md5", "listed", 2)},
     allow |-> {Hash("md5", "vouched", 3)}, sections |-> {Hash("md5", "sec", 2)},
     bodies |-> <<Cased, Gapped, Weak, AtEntry>>, logicals |-> <<Both, Twice, Absent, Either, Loose>>],
    [files |-> {Hash("sha256", "listed", 2)}, allow |-> {}, sections |-> {},
     bodies |-> <<AtEnd, Gapped, AtEntry>>, logicals |-> <<Sum, Both, Twice>>]>>

Other == [kind |-> "Other"]
Base == [text |-> <<"0", "0">>, layout |-> [entry |-> None, sections |-> <<>>], sections |-> {},
         shape |-> Other, signature |-> "none", rules |-> {}, similar |-> {}, amsi |-> "none",
         shard |-> FALSE, trailing |-> FALSE, entries |-> <<>>, opens |-> TRUE, macro |-> None, offset |-> 1]
Sec(at, raw, size, x, w, dense, packer) ==
  [at |-> at, virtual |-> 1, raw |-> raw, size |-> size, executable |-> x, writable |-> w,
   dense |-> dense, packer |-> packer]
Pe(entry, sections, imports, tables) ==
  [kind |-> "pe", parses |-> TRUE, legacy |-> FALSE, plausible |-> FALSE, entry |-> entry,
   sections |-> sections, imports |-> imports, tables |-> tables]
Word(kind, needle, at) == [kind |-> kind, needle |-> needle, at |-> at]
Text(words, marks) ==
  [kind |-> "text", printable |-> TRUE, utf16 |-> FALSE, cut |-> FALSE, words |-> words,
   marks |-> marks, switches |-> 2, escaped |-> TRUE]
In(blob, fault, names) == [blob |-> blob, fault |-> fault, names |-> names, external |-> 0]
Archive(entries) == [shape |-> [kind |-> "Zip"], entries |-> entries] @@ Base
Ole(entries) == [shape |-> [kind |-> "OleCompound"], entries |-> entries] @@ Base
Gz(blob, fault) == [shape |-> [kind |-> "Gzip"], entries |-> <<In(blob, fault, {})>>] @@ Base
Textual(text) == [text |-> text] @@ Base
Broken == [parses |-> FALSE] @@ Pe(0, <<>>, {}, 0)

MCBlob ==
  [plain |-> Base,
   cased |-> Textual(<<"a", "A", "#">>),
   marks |-> Textual(<<"0", "7", "#", "7", "#">>),
   mixed |-> Textual(<<"7", "#", "A", "7">>),
   costly |-> Textual(<<"a", "7", "a", "7", "0">>),
   wide |-> Textual(<<"a", "0", "7", "0", "#", "0">>),
   loose |-> Textual(<<"M", "#", "M", "7", "M">>),
   vouched |-> Textual(<<"0", "a", "7">>),
   listed |-> Base,
   prog |-> [text |-> <<"M", "7", "M", "#", "0", "0", "0">>, layout |-> [entry |-> 1, sections |-> <<1, 4>>],
             shape |-> Pe(1, <<Sec(1, 1, 2, TRUE, TRUE, TRUE, FALSE), Sec(4, 4, 3, FALSE, FALSE, FALSE, TRUE)>>,
                          {"download", "execute", "keys"}, 3),
             similar |-> {9000}] @@ Base,
   tool |-> [text |-> <<"M", "7", "M", "#">>, layout |-> [entry |-> 1, sections |-> <<1>>],
             sections |-> {[of |-> "sec", start |-> 1, size |-> 2]},
             shape |-> Pe(9, <<Sec(1, 1, 1, TRUE, FALSE, TRUE, FALSE)>>, {"write", "run", "allocate"}, 1),
             rules |-> {[namespace |-> "bundle", identifier |-> "r", disposition |-> "Malicious", risk |-> 120]}] @@ Base,
   sfx |-> [text |-> <<"M", "0", "0">>, shape |-> Broken, trailing |-> TRUE,
            sections |-> {[of |-> "sec", start |-> 1, size |-> 2]},
            entries |-> <<In("known", "none", {})>>] @@ Base,
   script |-> [shape |-> Text({"powershell"},
                 {Word("network", 1, 1), Word("execute", 1, 4), Word("execute", 1, 14), Word("execute", 1, 24),
                  Word("execute", 2, 19), Word("chars", 1, 20), Word("encoded", 1, 9)}),
               rules |-> {[namespace |-> Builtin, identifier |-> "download_execute"]},
               amsi |-> "BlockedByAdministrator"] @@ Base,
   pdf |-> [shape |-> [kind |-> "Pdf", names |-> {"JS"},
                       streams |-> <<<<"x", "y", "Launch">>, <<"z", "OpenAction">>, <<"AA">>>>]] @@ Base,
   lnk |-> [shape |-> [kind |-> "Lnk", parses |-> TRUE, launcher |-> TRUE, minimized |-> TRUE,
                       arguments |-> {"decode", "run"}],
            rules |-> {[namespace |-> "bundle", identifier |-> "i", disposition |-> "Informational", risk |-> 5]},
            amsi |-> "MalwareDetected"] @@ Base,
   known |-> [text |-> <<"0">>, signature |-> "exact"] @@ Base,
   taught |-> [text |-> <<"0">>, shard |-> TRUE] @@ Base,
   big |-> Textual(<<"0", "0", "0", "0", "0">>),
   faulty |-> Archive(<<In("plain", "directory", {}), In("plain", "unreadable", {}), In("plain", "name", {}),
                    In("plain", "encrypted", {"program"}), In("plain", "short", {})>>),
   bomb |-> Archive(<<In("plain", "ratio", {}), In("big", "none", {})>>),
   many |-> Archive(<<In("plain", "none", {}), In("plain", "none", {}), In("plain", "none", {}), In("known", "none", {})>>),
   inner |-> Archive(<<In("script", "none", {}), In("known", "none", {})>>),
   nested |-> Archive(<<In("inner", "none", {}), In("torn", "none", {})>>),
   deep |-> Archive(<<In("nested", "none", {})>>),
   torn |-> [opens |-> FALSE, text |-> <<"0">>] @@ Archive(<<>>),
   macros |-> [macro |-> "cased"] @@ Textual(<<"7">>),
   hidden |-> [macro |-> "cased", offset |-> 2] @@ Textual(<<"7">>),
   memo |-> Ole(<<In("macros", "none", {}), In("hidden", "none", {"macro"})>>),
   doc |-> Ole(<<In("macros", "none", {"macro"}), In("plain", "short", {"macro"}), In("plain", "name", {}),
                 In("plain", "none", {})>>),
   docx |-> Archive(<<In("plain", "none", {"macro"}), In("doc", "none", {}), In("taught", "none", {"program"})>>),
   full |-> Archive(<<In("plain", "none", {}), In("plain", "none", {}), In("doc", "none", {})>>),
   gz |-> Gz("taught", "none"), gzBad |-> Gz("plain", "short"), gzBig |-> Gz("big", "none"),
   gzBomb |-> Gz("plain", "ratio")]
MCBlobs == DOMAIN MCBlob
MCFiles == MCBlobs \ {"plain", "big", "macros", "hidden", "torn", "taught", "cased", "nested"}
=============================================================================
