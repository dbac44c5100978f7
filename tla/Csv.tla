----------------------------------- MODULE Csv -----------------------------------
(***************************************************************************)
(* A collection as a CSV file and back: the export of src/src/api/csv.ts,   *)
(* streamed page by page while records come and go; the text that          *)
(* src/src/core/csv.ts makes of rows; its parser, character by character;   *)
(* and what the import makes of a cell.                                    *)
(***************************************************************************)
EXTENDS Integers, Sequences, FiniteSets, SequencesExt

CONSTANTS Chars,        \* characters of strings, of Quote, Comma, CR, LF, "[", "]" and "1"
          MaxLength,    \* for TLC: of a string
          CsvRows,      \* for TLC: rows of a file
          PageRows,     \* rows of a page: 500
          MaxListed,    \* for TLC: records when an export begins
          MaxChanges    \* for TLC: records that come or go during an export

ASSUME CsvAssumption == PageRows \in Nat \ {0} /\ {MaxLength, CsvRows, MaxListed} \subseteq Nat

VARIABLES source,     \* a column: its type, and the values of the records that are exported
          withId,     \* the table has the id column too
          text, pos,  \* the file, and where the parser is
          field, line, grid, quoted,     \* the parser: a cell, a row, the rows; inside quotes
          listing,    \* an export: the records by creation, the latest first
          batch,      \* the page asked for, and what was read for it
          sent,       \* what was sent
          lost, added \* history: records deleted and created since the export began

csvVars == <<source, withId, text, pos, field, line, grid, quoted>>
exportVars == <<listing, batch, sent, lost, added>>

Quote == "\""
CR == "CR"
LF == "LF"
Spaces == {CR, LF}

----------------------------------------------------------------------------
(***************************************************************************)
(* A value is its kind and the text the export makes of it: an object or a *)
(* list its JSON, which the text alone no longer tells from a string.      *)
(***************************************************************************)
Value(kind, s) == [kind |-> kind, s |-> s]
Null == Value("null", <<>>)
Strings == {Value("str", s) : s \in UNION {[1..n -> Chars] : n \in 0..MaxLength}}
Numbers == {Value("num", <<"1">>), Value("num", <<"1", "1">>)}
Booleans == {Value("bool", <<"true">>), Value("bool", <<"false">>)}
Lists == {Value("list", <<"[", "]">>), Value("list", <<"[", "1", "]">>)}

\* The values a field of each type holds.
Holds(type) ==
  {Null} \cup CASE type = "text" -> Strings
                [] type = "number" -> Numbers
                [] type = "bool" -> Booleans
                [] type = "json" -> Strings \cup Numbers \cup Booleans \cup Lists
                [] type \in {"select", "relation"} -> Strings \cup Lists

\* What JSON.parse reads of a text, as far as it can be one; Null when it throws.
Core(s) == FlattenSeq([n \in DOMAIN s |-> IF s[n] \in Spaces THEN <<>> ELSE <<s[n]>>])
OneWord(s) == \E a, b \in DOMAIN s : \A n \in DOMAIN s : n \in a..b <=> s[n] \notin Spaces
Inner(s) == SubSeq(s, 2, Len(s) - 1)
JsonOf(s) ==
  LET core == Core(s) IN
  IF Value("list", core) \in Lists THEN Value("list", core)
  ELSE IF Value("bool", core) \in Booleans THEN Value("bool", core)
  ELSE IF ~OneWord(s) THEN Null
  ELSE IF ToSet(core) = {"1"} THEN Value("num", core)
  ELSE IF Len(core) >= 2 /\ core[1] = Quote /\ Last(core) = Quote /\ Quote \notin ToSet(Inner(core))
       THEN Value("str", Inner(core))
  ELSE Null

----------------------------------------------------------------------------
\* encodeField: quotes only when needed, and doubled inside.
NeedsQuotesButCR(s) == ToSet(s) \cap {",", Quote, LF} # {}      \* mutant: a lone CR is not looked for
NeedsQuotes(s) == ToSet(s) \cap {",", Quote, CR, LF} # {}
Doubled(s) == FlattenSeq([n \in DOMAIN s |-> IF s[n] = Quote THEN <<Quote, Quote>> ELSE <<s[n]>>])
EncodeField(s) == IF NeedsQuotes(s) THEN <<Quote>> \o Doubled(s) \o <<Quote>> ELSE s

\* exportHeaderRow, formatRowsForCsv, encodeRow: one row, and the file.
Header == IF withId THEN <<<<"id">>, <<"col">>>> ELSE <<<<"col">>>>
Cells(v) == IF withId THEN <<<<"id">>, v.s>> ELSE <<v.s>>
EncodeRow(cells) ==
  FlattenSeq([n \in DOMAIN cells |-> (IF n = 1 THEN <<>> ELSE <<",">>) \o EncodeField(cells[n])])
Encoded(values) ==
  EncodeRow(Header) \o FlattenSeq([n \in DOMAIN values |-> <<CR, LF>> \o EncodeRow(Cells(values[n]))])

CsvInit ==
  /\ withId \in BOOLEAN
  /\ \E type \in {"text", "number", "bool", "json", "select", "relation"} :
       \E values \in [1..CsvRows -> Holds(type)] : source = [type |-> type, values |-> values]
  /\ text = Encoded(source.values)
  /\ pos = 1 /\ field = <<>> /\ line = <<>> /\ grid = <<>> /\ quoted = FALSE

----------------------------------------------------------------------------
\* parseCsv, one turn of its loop: a character, or two that belong together.
Char == text[pos]
Follows(c) == pos < Len(text) /\ text[pos + 1] = c
Reading == pos <= Len(text)

ReadQuoted ==
  /\ Reading /\ quoted
  /\ \/ Char = Quote /\ Follows(Quote) /\ field' = Append(field, Quote) /\ pos' = pos + 2 /\ quoted' = TRUE
     \/ Char = Quote /\ ~Follows(Quote) /\ field' = field /\ pos' = pos + 1 /\ quoted' = FALSE
     \/ Char # Quote /\ field' = Append(field, Char) /\ pos' = pos + 1 /\ quoted' = TRUE
  /\ UNCHANGED <<source, withId, text, line, grid>>

OpenQuote ==
  /\ Reading /\ ~quoted /\ Char = Quote /\ field = <<>>
  /\ quoted' = TRUE /\ pos' = pos + 1
  /\ UNCHANGED <<source, withId, text, field, line, grid>>

EndField ==
  /\ Reading /\ ~quoted /\ Char = ","
  /\ line' = Append(line, field) /\ field' = <<>> /\ pos' = pos + 1
  /\ UNCHANGED <<source, withId, text, grid, quoted>>

\* A row of one empty cell is dropped.
EndLine ==
  LET row == Append(line, field) IN
  /\ Reading /\ ~quoted /\ Char \in Spaces
  /\ grid' = IF row = <<<<>>>> THEN grid ELSE Append(grid, row)
  /\ line' = <<>> /\ field' = <<>> /\ pos' = IF Char = CR /\ Follows(LF) THEN pos + 2 ELSE pos + 1
  /\ UNCHANGED <<source, withId, text, quoted>>

ReadPlain ==
  /\ Reading /\ ~quoted /\ Char \notin {","} \cup Spaces /\ (Char = Quote => field # <<>>)
  /\ field' = Append(field, Char) /\ pos' = pos + 1
  /\ UNCHANGED <<source, withId, text, line, grid, quoted>>

\* The end of the text; an error inside quotes.
EndText ==
  /\ pos = Len(text) + 1 /\ ~quoted /\ pos' = pos + 1
  /\ IF field # <<>> \/ line # <<>> THEN grid' = Append(grid, Append(line, field)) ELSE grid' = grid
  /\ field' = <<>> /\ line' = <<>>
  /\ UNCHANGED <<source, withId, text, quoted>>

CsvNext == ReadQuoted \/ OpenQuote \/ EndField \/ EndLine \/ ReadPlain \/ EndText
Parsed == pos = Len(text) + 2

\* parseCsvToObjects, a cell below its header; decodeCell, by the type of the field.
Cell(n) == LET row == grid[n + 1] IN IF Len(row) < Len(Header) THEN <<>> ELSE row[Len(Header)]
OrText(v, s) == IF v = Null THEN Value("str", s) ELSE v
Decode(type, s) ==
  IF s = <<>> THEN IF type = "text" THEN Value("str", s) ELSE Null
  ELSE CASE type = "number" -> OrText(IF ToSet(s) = {"1"} THEN Value("num", s) ELSE Null, s)
         [] type = "bool" -> Value("bool", IF s \in {<<"true">>, <<"1">>} THEN <<"true">> ELSE <<"false">>)
         [] type = "json" -> OrText(JsonOf(s), s)
         [] type = "select" -> OrText(IF s[1] = "[" THEN JsonOf(s) ELSE Null, s)
         [] OTHER -> Value("str", s)

----------------------------------------------------------------------------
(***************************************************************************)
(* The export: a page is asked for when the one before is sent, and read   *)
(* after that, by its offset; how many records there are is read with it.  *)
(***************************************************************************)
Unread == [page |-> 1, rows |-> <<>>, total |-> -1]

ExportInit ==
  /\ listing \in {[n \in 1..k |-> n] : k \in 0..MaxListed}
  /\ batch = Unread /\ sent = <<>> /\ lost = 0 /\ added = 0

Offset == (batch.page - 1) * PageRows
FetchPage ==
  /\ batch.page > 0 /\ batch.total = -1
  /\ batch' = [batch EXCEPT !.rows = SubSeq(listing, Offset + 1, IF Offset + PageRows < Len(listing)
                                                                THEN Offset + PageRows ELSE Len(listing)),
                            !.total = Len(listing)]
  /\ UNCHANGED <<listing, sent, lost, added>>

IsLast == batch.total <= batch.page * PageRows
Pull ==
  /\ batch.page > 0 /\ batch.total # -1
  /\ sent' = sent \o batch.rows
  /\ batch' = IF IsLast THEN [Unread EXCEPT !.page = 0] ELSE [Unread EXCEPT !.page = batch.page + 1]
  /\ UNCHANGED <<listing, lost, added>>

CreateMeanwhile ==
  /\ batch.page > 0 /\ lost + added < MaxChanges
  /\ listing' = <<0 - added>> \o listing /\ added' = added + 1
  /\ UNCHANGED <<batch, sent, lost>>

DeleteMeanwhile ==
  /\ batch.page > 0 /\ lost + added < MaxChanges
  /\ \E n \in DOMAIN listing : listing' = RemoveAt(listing, n)
  /\ lost' = lost + 1
  /\ UNCHANGED <<batch, sent, added>>

ExportNext == FetchPage \/ Pull \/ CreateMeanwhile \/ DeleteMeanwhile

CsvSpec == CsvInit /\ ExportInit /\ [][(CsvNext /\ UNCHANGED exportVars) \/ (ExportNext /\ UNCHANGED csvVars)]_<<csvVars, exportVars>>

----------------------------------------------------------------------------
\* An export read back gives every record its value, whatever separators, quotes and breaks
\* are in it, but for values that the text does not tell apart: a null text is an empty one,
\* a list of relations is its text, and a string that reads as JSON is what it reads as;
\* and for empty cells of a table without another column.
Blurred(type, v) ==
  \/ type = "text" /\ v = Null
  \/ type = "relation" /\ v.kind = "list"
  \/ type # "text" /\ v = Value("str", <<>>)
  \/ type = "json" /\ v.kind = "str" /\ JsonOf(v.s) # Null
  \/ type = "select" /\ v.kind = "str" /\ Value("list", Core(v.s)) \in Lists /\ v.s[1] = "["
GivenBack == FlattenSeq([n \in DOMAIN source.values |->
                     LET v == source.values[n] IN IF withId \/ v.s # <<>> THEN <<v>> ELSE <<>>])
RoundTrips ==
  /\ pos > Len(text) => ~quoted
  /\ Parsed => /\ Len(grid) = Len(GivenBack) + 1 /\ grid[1] = Header
               /\ \A n \in DOMAIN GivenBack :
                    Decode(source.type, Cell(n)) = GivenBack[n] \/ Blurred(source.type, GivenBack[n])

\* A record that was there all the time is in the export, once: more often no more than
\* records were created meanwhile, and left out only when others were deleted.
Times(r) == Cardinality({n \in DOMAIN sent : sent[n] = r})
ExportsEach ==
  /\ \A r \in ToSet(sent) : Times(r) <= 1 + added
  /\ batch.page = 0 /\ lost = 0 => \A r \in ToSet(listing) : r > 0 => Times(r) >= 1
  /\ batch.page = 0 => Cardinality({r \in ToSet(listing) : r > 0 /\ Times(r) = 0}) <= lost

CsvFaithful == RoundTrips /\ ExportsEach
=============================================================================
