------------------------------- MODULE CsvCodec -------------------------------
(***************************************************************************)
(* The CSV files of the tables of a profile (csv.ts): what an export       *)
(* writes, and how an import reads it character by character. A behaviour  *)
(* follows two neighbouring columns of one kind of file through an export  *)
(* and the import of the same file. Text is a sequence of symbols: the     *)
(* characters with a meaning, "a" for every other one, and words such as   *)
(* "true". Defaults of blank cells and spelling (case, hexadecimal codes)  *)
(* are left out; the other columns of the row are not blank, so the import *)
(* does not drop it as an empty line.                                      *)
(***************************************************************************)
EXTENDS Integers, Sequences, SequencesExt

CONSTANT MaxText  \* bound of the model: symbols of a text, items of a list

ASSUME TextAssumption == MaxText \in Nat

(* The columns of each kind of file: how their cells are written and read. *)
CaptureScopeColumns == <<"flag", "flag", "flag">>
AssetColumns == <<"text", "text", "list", "text", "text", "text", "text", "list", "list">>
SegmentColumns == <<"text", "text", "text", "text", "number", "text", "flag", "flag">>
InfrastructureColumns == <<"text", "text", "text">>
CommunicationColumns == <<"text", "text", "text", "number", "text", "text">>
SegmentPairColumns == <<"text", "text", "text">>
ControlActionColumns == <<"text", "text", "text", "list", "list", "text">>
PolicyColumns == <<"text", "text">>

Kinds == {CaptureScopeColumns, AssetColumns, SegmentColumns, InfrastructureColumns,
          CommunicationColumns, SegmentPairColumns, ControlActionColumns, PolicyColumns}

CellText == BoundedSeq({"a", "quote", "comma", "cr", "lf", "semi"}, MaxText)
Item == {<<"a">>, <<"comma">>, <<"semi">>}

(* The values of a column. *)
Values(type) ==
    CASE type = "text" -> CellText
      [] type = "list" -> BoundedSeq(Item, MaxText)
      [] type = "flag" -> {"true", "false", "undefined"}
      [] type = "number" -> {"n", "undefined"}

VARIABLES
    types,   \* the two columns
    row,     \* the values of the profile's row
    text,    \* the file
    pos,     \* the next symbol
    field,   \* the variables of parseCsv
    quoted,
    fields,
    lines,
    done

csvVars == <<types, row, text, pos, field, quoted, fields, lines, done>>

-----------------------------------------------------------------------------
Special == {"quote", "comma", "cr", "lf"}

Doubled(t) == FlattenSeq([i \in DOMAIN t |-> IF t[i] = "quote" THEN <<"quote", "quote">>
                                                               ELSE <<t[i]>>])

(* A faulty quote: quotes inside are not doubled. *)
QuoteFault(t) ==
    IF Range(t) \cap Special # {} THEN <<"quote">> \o t \o <<"quote">> ELSE t

(* quote *)
Quote(t) ==
    IF Range(t) \cap Special # {} THEN <<"quote">> \o Doubled(t) \o <<"quote">> ELSE t

Joined(list, separator) ==
    FlattenSeq([i \in DOMAIN list |-> IF i = 1 THEN list[i] ELSE <<separator>> \o list[i]])

(* A cell as the export writes it. *)
Written(type, value) ==
    CASE type = "text" -> value
      [] type = "list" -> Joined(value, "semi")
      [] OTHER -> IF value = "undefined" THEN <<>> ELSE <<value>>

(* toCsv for the row. *)
ToCsv(columns, values) ==
    Joined([i \in DOMAIN columns |-> Quote(Written(columns[i], values[i]))], "comma")

CsvInit ==
    /\ \E kind \in Kinds : \E i \in 1..(Len(kind) - 1) : types = SubSeq(kind, i, i + 1)
    /\ row \in {<<v, w>> : v \in Values(types[1]), w \in Values(types[2])}
    /\ text = ToCsv(types, row)
    /\ pos = 1 /\ field = <<>> /\ quoted = FALSE /\ fields = <<>> /\ lines = <<>>
    /\ done = FALSE

(* A carriage return at the end of a line is not part of its last field.   *)
Stripped(t) == IF t # <<>> /\ Last(t) = "cr" THEN Front(t) ELSE t

Reading == pos <= Len(text) /\ UNCHANGED <<types, row, text, done>>
Here(symbol) == text[pos] = symbol
Next2 == IF pos < Len(text) THEN text[pos + 1] ELSE "end"

(* parseCsv inside quotes: two quotes are one, a single one ends them. *)
ReadQuoted ==
    /\ Reading /\ quoted
    /\ IF Here("quote") /\ Next2 = "quote"
       THEN field' = Append(field, "quote") /\ pos' = pos + 2 /\ UNCHANGED quoted
       ELSE IF Here("quote") THEN quoted' = FALSE /\ pos' = pos + 1 /\ UNCHANGED field
       ELSE field' = Append(field, text[pos]) /\ pos' = pos + 1 /\ UNCHANGED quoted
    /\ UNCHANGED <<fields, lines>>

(* parseCsv outside quotes. *)
ReadPlain ==
    /\ Reading /\ ~quoted /\ pos' = pos + 1
    /\ quoted' = Here("quote")
    /\ CASE Here("quote") -> UNCHANGED <<field, fields, lines>>
         [] Here("comma") -> fields' = Append(fields, field) /\ field' = <<>> /\ UNCHANGED lines
         [] Here("lf") -> /\ lines' = Append(lines, Append(fields, Stripped(field)))
                          /\ fields' = <<>> /\ field' = <<>>
         [] OTHER -> field' = Append(field, text[pos]) /\ UNCHANGED <<fields, lines>>

(* Its end: a last line without content is dropped. *)
ReadEnd ==
    /\ pos > Len(text) /\ ~done /\ done' = TRUE
    /\ LET last == Append(fields, Stripped(field)) IN
       lines' = IF lines = <<>> \/ \E i \in DOMAIN last : last[i] # <<>>
                THEN Append(lines, last) ELSE lines
    /\ UNCHANGED <<types, row, text, pos, field, quoted, fields>>

CsvNext == ReadQuoted \/ ReadPlain \/ ReadEnd

CsvSpec == CsvInit /\ [][CsvNext]_csvVars

-----------------------------------------------------------------------------
(* listValue: the parts between semicolons that are not empty. *)
WithItem(cut) == IF cut.item = <<>> THEN cut.items ELSE Append(cut.items, cut.item)

NextCut(cut, symbol) ==
    IF symbol = "semi" THEN [items |-> WithItem(cut), item |-> <<>>]
    ELSE [items |-> cut.items, item |-> Append(cut.item, symbol)]

ListValue(t) ==
    LET cuts[n \in 0..Len(t)] ==
            IF n = 0 THEN [items |-> <<>>, item |-> <<>>] ELSE NextCut(cuts[n - 1], t[n])
    IN WithItem(cuts[Len(t)])

(* A cell as the import reads it (boolValue, numValue, listValue). *)
ReadCell(type, t) ==
    CASE type = "text" -> t
      [] type = "list" -> ListValue(t)
      [] OTHER -> IF t = <<>> THEN "undefined" ELSE t[1]

(* The row an import makes of what parseCsv returns. *)
Imported == [i \in 1..2 |-> ReadCell(types[i], lines[1][i])]

(* The parser ends outside quotes, with the one line of the row.           *)
OneLineRead == done => ~quoted /\ Len(lines) = 1 /\ Len(lines[1]) = 2

(* What an export wrote the import reads: the same values in the same      *)
(* columns, whatever they contain, but for a carriage return at the very   *)
(* end of a line, and a semicolon inside an item of a list.                *)
RoundTrip ==
    done =>
      \A i \in 1..2 :
        \/ Imported[i] = row[i]
        \/ types[i] = "text" /\ i = 2 /\ row[i] # <<>> /\ Last(row[i]) = "cr"
        \/ types[i] = "list" /\ \E n \in DOMAIN row[i] : "semi" \in Range(row[i][n])

(* What an export and the import of its file promise (csv.ts).             *)
CsvInv == OneLineRead /\ RoundTrip
=============================================================================
