--------------------------- MODULE MCVerdictCache ---------------------------
(***************************************************************************)
(* VerdictCache on a cache of two entries and three files.                 *)
(***************************************************************************)
EXTENDS VerdictCache

\* One report for each way is_cacheable can answer.
MCReports ==
  { [verdict |-> "Clean", complete |-> TRUE, truncated |-> FALSE, hashed |-> TRUE],
    [verdict |-> "Clean", complete |-> FALSE, truncated |-> TRUE, hashed |-> FALSE],
    [verdict |-> "Malicious", complete |-> FALSE, truncated |-> FALSE, hashed |-> TRUE],
    [verdict |-> "ScanError", complete |-> FALSE, truncated |-> FALSE, hashed |-> FALSE] }
=============================================================================
