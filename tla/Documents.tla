------------------------------ MODULE Documents ------------------------------
(***************************************************************************)
(* Documents that grow symbol by symbol, and what their extraction yields: *)
(* every document over a small alphabet, of each format.                   *)
(***************************************************************************)
EXTENDS Extractors

CONSTANT Samples  \* [format, prefix, alphabet, length] of documents

ASSUME SampleAssumption ==
    \A s \in Samples : s.format \in Formats /\ s.length \in Nat

VARIABLES
    sample,  \* the kind of document
    doc      \* what is written of it

documents == <<sample, doc>>

DocumentsInit == sample \in Samples /\ doc = sample.prefix

Write(symbol) ==
    /\ Len(doc) < sample.length
    /\ doc' = Append(doc, symbol)
    /\ UNCHANGED sample

DocumentsNext == \E symbol \in sample.alphabet : Write(symbol)

DocumentsSpec == DocumentsInit /\ [][DocumentsNext]_documents

Extracted ==
    IF Legible(sample.format, doc) THEN FieldsIn(sample.format, doc) ELSE <<>>

(***************************************************************************)
(* Tables                                                                  *)
(***************************************************************************)
Quoted(cell) ==
    <<"\"">> \o FlattenSeq([i \in DOMAIN cell |->
                   IF cell[i] = "\"" THEN <<"\"", "\"">> ELSE <<cell[i]>>])
             \o <<"\"">>

Joined(parts, separator) ==
    FlattenSeq([i \in DOMAIN parts |->
        IF i = 1 THEN parts[i] ELSE <<separator>> \o parts[i]])

\* RFC 4180: every cell quoted, no line break after the last row.
Written(records) ==
    Joined([r \in DOMAIN records |->
               Joined([c \in DOMAIN records[r] |-> Quoted(records[r][c])], ",")],
           "\n")

\* Any text may be the content of a cell: two cells that hold it, written with
\* quotes, are read back as they were.  And a table means the same once it is
\* read and written out with every cell quoted: separators and line breaks
\* inside cells, empty cells and a missing last line break all survive.  A row
\* that ends with a carriage return is left out: parse_csv strips it although
\* it was quoted.
CsvReadsWhatIsWritten ==
    (sample.format = "csv" /\ Places(doc, BadByte) = {}) =>
        LET table == <<<<doc, doc>>>>
            records == Records(doc)
            returns == {r \in 1..(Len(records) - 1) :
                           WithoutReturn(Last(records[r])) # Last(records[r])}
        IN  /\ Terminated(Written(table)) /\ Records(Written(table)) = table
            /\ (Terminated(doc) /\ returns = {}) =>
                  /\ Terminated(Written(records))
                  /\ Records(Written(records)) = records

(***************************************************************************)
(* Locations                                                               *)
(***************************************************************************)
BytesOf(s) ==
    FlattenSeq([i \in DOMAIN s |-> [k \in 1..WidthOf[s[i]] |-> <<s[i], k>>]])

\* The span of a text value, in bytes, holds exactly that value and lies in
\* the paragraph that is named, whatever line endings, blanks and characters
\* of several bytes precede it; the spans of a document follow each other.
\* (The span is the first occurrence of the value in its line, which may be in
\* the key.)
SpansHoldTheValue ==
    sample.format = "text" =>
        \A n \in DOMAIN Extracted :
            LET at == Extracted[n].location
                before == SubSeq(BytesOf(doc), 1, at.start)
            IN  /\ SubSeq(BytesOf(doc), at.start + 1, at.end)
                       = BytesOf(Extracted[n].original)
                /\ at.paragraph = 1 + Cardinality(Places(before, <<"\n", 1>>))
                /\ \A m \in 1..(n - 1) : Extracted[m].location.end < at.start

(***************************************************************************)
(* Numbers                                                                 *)
(***************************************************************************)
Numerals == {"integer", "decimal", "money"}

\* The power of ten of the digit at place i, counted from the decimal point.
Power(s, i) ==
    IF Places(s, ".") = {} THEN Len(s) - i
    ELSE LET point == Min(Places(s, "."))
         IN  IF i < point THEN point - i - 1 ELSE point - i

\* What the digits of s are worth, in units of 10^-places.
Worth(s, places) ==
    FoldLeft(LAMBDA n, i :
                 IF s[i] \in Digits
                 THEN n + DigitValue[s[i]] * 10^(places + Power(s, i)) ELSE n,
             0, [i \in DOMAIN s |-> i])

\* What the document has at a field; a JSON number is not kept as it is written.
AsWritten(field) ==
    IF sample.format = "json"
    THEN doc[Max({i \in DOMAIN doc : doc[i].key = field.location.member})].text
    ELSE field.original

WrittenNumber(field) ==
    LET text == Trim(AsWritten(field))
    IN  IF HasSign(text, {"$"}) THEN Without(text, ",") ELSE text

Decimals(s) == IF Places(s, ".") = {} THEN 0 ELSE Len(AfterFirst(s, "."))

\* By how much a value differs from the number s, in units of 10^-places.
Error(value, s, places) ==
    LET gap == value.number * 10^(places - value.scale)
                   - (IF Places(s, "-") = {} THEN 1 ELSE -1) * Worth(s, places)
    IN  Max({gap, -gap})

\* The value is s, or in JSON, where s has more digits than a float keeps, off
\* by no more than half a unit of the last digit kept.
IsNear(value, s) ==
    \E places \in {Max({Decimals(s), value.scale})} :
        \/ Error(value, s, places) = 0
        \/ /\ sample.format = "json"
           /\ Cardinality({i \in DOMAIN s : s[i] \in Digits}) > Precision
           /\ 2 * Error(value, s, places) * 10^(Precision - 1) <= Worth(s, places)

\* The number of a field is what the document wrote, digit for digit: the digits
\* at their places, with their sign, in an integer that holds them.  A number
\* that is too long or has too many places ends the extraction, or stays text
\* if it has no decimal point; it never becomes another one (parse_decimal,
\* parse_usd).  Only a JSON number that a float does not hold is another number
\* than the document's, the nearest one with the digits of a float, or text
\* with an exponent (extract_json).
NumbersAreExact ==
    \A field \in ToSet(Extracted) : \A s \in {WrittenNumber(field)} :
        LET value == field.value
        IN  /\ value.type \in Numerals =>
                  /\ IsNear(value, s)
                  /\ value.number \in (-MaxInt - 1)..MaxInt
                  /\ value.scale \in 0..MaxScale
                  /\ value.type = "money" <=> s[1] = "$"
            /\ (value = Refused /\ s[1] # "$") =>
                  Worth(s, Decimals(s)) > MaxInt \/ Decimals(s) > MaxScale
            /\ (value.type = "text" /\ AllDigits(s)) => Worth(s, 0) > MaxInt
            /\ (value.type = "text" /\ IsDecimal(s)) => sample.format = "json"
=============================================================================
