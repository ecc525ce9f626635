----------------------------- MODULE SourceIndex -----------------------------
(***************************************************************************)
(* The index of a repository's files and symbols, source_index.c.  What    *)
(* the scanner finds in a text depends on the text alone, so a source is   *)
(* the sequence of its finds, each a name, a kind and a line; the scan     *)
(* enters them one by one.                                                 *)
(***************************************************************************)
EXTENDS Integers, Sequences, SequencesExt

CONSTANTS IndexPaths, IndexRevisions,
          Sources,                 \* what is found in the texts that are scanned
          MaxFiles, MaxSymbols     \* SOURCE_INDEX_MAX_FILES, ..._SYMBOLS

VARIABLES index,    \* the storage of one index
          scans     \* the <<file, source>> scanned so far

indexVars == <<index, scans>>

source_index_runtime_init ==
  /\ index = [state |-> "EMPTY", revision |-> 0, files |-> << >>, symbols |-> << >>]
  /\ scans = {}

source_index_create(revision) ==
  /\ index.state = "EMPTY"
  /\ index' = [index EXCEPT !.state = "CREATED", !.revision = revision]
  /\ UNCHANGED scans

source_index_add_file(path) ==
  /\ index.state = "CREATED"
  /\ Len(index.files) < MaxFiles /\ path \notin Range(index.files)
  /\ index' = [index EXCEPT !.files = Append(@, path)]
  /\ UNCHANGED scans

\* Files and symbols of the old revision stay.
source_index_incremental_update(revision) ==
  /\ index.state = "CREATED" /\ revision # index.revision
  /\ index' = [index EXCEPT !.revision = revision]
  /\ UNCHANGED scans

Symbol(f, name, kind, line) == [file |-> f, name |-> name, kind |-> kind, line |-> line]

\* Mutant: a symbol that is there already is added again.
source_index_add_symbol_Twice(symbols, s) ==
  IF Len(symbols) >= MaxSymbols THEN symbols ELSE Append(symbols, s)

source_index_add_symbol(symbols, s) ==
  IF Len(symbols) >= MaxSymbols \/ s \in Range(symbols) THEN symbols ELSE Append(symbols, s)

\* What the scan of a source finds, as the symbols of a file.
Scanned(f, src) == [i \in DOMAIN src |-> Symbol(f, src[i].name, src[i].kind, src[i].line)]

source_index_scan_source(f, src) ==
  /\ index.state = "CREATED" /\ f \in DOMAIN index.files
  /\ index' = [index EXCEPT !.symbols = FoldLeft(source_index_add_symbol, @, Scanned(f, src))]
  /\ scans' = scans \cup {<<f, src>>}

IndexNext ==
  \/ \E r \in IndexRevisions : source_index_create(r) \/ source_index_incremental_update(r)
  \/ \E p \in IndexPaths : source_index_add_file(p)
  \/ \E f \in 1 .. MaxFiles, src \in Sources : source_index_scan_source(f, src)
-----------------------------------------------------------------------------
\* However often and in whatever order files are scanned, also again and
\* beyond the capacity (source_index_add_symbol): the index holds each symbol
\* once, all of it comes from a scan, and while there is room nothing that a
\* scan found is missing.
IndexIsScans ==
  LET all == UNION {Range(Scanned(s[1], s[2])) : s \in scans}
  IN /\ IsInjective(index.symbols)
     /\ Range(index.symbols) \subseteq all
     /\ Len(index.symbols) < MaxSymbols => Range(index.symbols) = all
=============================================================================
