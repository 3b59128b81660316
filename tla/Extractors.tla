------------------------------ MODULE Extractors ------------------------------
(***************************************************************************)
(* What the deterministic extractor makes of a document: lines "key:       *)
(* value" of plain text, the members of a flat JSON object, the cells of a *)
(* CSV table, and the normalized value of each.                            *)
(*                                                                         *)
(* A document is a sequence of symbols: characters, or whole words where   *)
(* only the word matters (null, true, a date).  A JSON document is a       *)
(* sequence of members, their keys numbered in the order of the strings.   *)
(* All lengths are counted in bytes where the program counts bytes.        *)
(***************************************************************************)
EXTENDS Integers, Sequences, FiniteSets, SequencesExt

CONSTANTS
    MaxInt,       \* the greatest integer, 2^63 - 1 in the program
    MaxScale,     \* the greatest number of decimal places, 18 in the program
    Precision,    \* significant digits of a float, at most 17 in the program
    PlainPoints,  \* how many digits, from the first that is not zero, come before
                  \* the point of a float printed plainly, -4..16 in the program
    WidthOf,      \* symbol -> its length in bytes
    DateOf        \* words of the form YYYY-MM-DD -> year, month and day

Calendar == INSTANCE CalendarDates WITH
    Offsets <- {}, year <- 0, newYear <- 0

NullWords == {"null", "unknown"}
BooleanWords == {"true", "false"}
DigitNames == <<"0", "1", "2", "3", "4", "5", "6", "7", "8", "9">>
Digits == ToSet(DigitNames)
DigitValue == [c \in Digits |-> CHOOSE n \in 0..9 : DigitNames[n + 1] = c]
White == {" ", "\r", "\n"}

(***************************************************************************)
(* Text                                                                    *)
(***************************************************************************)
Bytes(s) == FoldLeft(LAMBDA n, c : n + WidthOf[c], 0, s)

\* The part of s between the first and the last symbol that is not in set.
Between(s, set) ==
    LET kept == {i \in DOMAIN s : s[i] \notin set}
    IN  IF kept = {} THEN <<>> ELSE SubSeq(s, Min(kept), Max(kept))

Trim(s) == Between(s, White)

TrimEnd(s, set) ==
    SubSeq(s, 1, Max({0} \cup {i \in DOMAIN s : s[i] \notin set}))

Places(s, c) == {i \in DOMAIN s : s[i] = c}

\* split_once at the first c, where there is one.
BeforeFirst(s, c) == SubSeq(s, 1, Min(Places(s, c)) - 1)
AfterFirst(s, c) == SubSeq(s, Min(Places(s, c)) + 1, Len(s))

Without(s, c) == SelectSeq(s, LAMBDA d : d # c)

\* str::find: how many symbols come before the first occurrence of part.
Find(s, part) ==
    Min({i \in 0..(Len(s) - Len(part)) :
            SubSeq(s, i + 1, i + Len(part)) = part})

(***************************************************************************)
(* normalize                                                               *)
(***************************************************************************)
Value(type, number, scale, text) ==
    [type |-> type, number |-> number, scale |-> scale, text |-> text]

UnknownValue == Value("unknown", 0, 0, <<>>)
Refused == Value("refused", 0, 0, <<>>)

AllDigits(s) == s # <<>> /\ \A i \in DOMAIN s : s[i] \in Digits

Number(s) == FoldLeft(LAMBDA n, c : 10 * n + DigitValue[c], 0, s)

HasSign(s, signs) == s # <<>> /\ s[1] \in signs

Unsigned(s, signs) == IF HasSign(s, signs) THEN Tail(s) ELSE s

Signed(s, n) == IF HasSign(s, {"-"}) THEN -n ELSE n

\* str::parse::<i64>
IsInteger(s) ==
    /\ AllDigits(Unsigned(s, {"+", "-"}))
    /\ Signed(s, Number(Unsigned(s, {"+", "-"}))) \in (-MaxInt - 1)..MaxInt

IsDecimal(s) ==
    /\ Places(s, ".") # {}
    /\ AllDigits(AfterFirst(s, "."))
    /\ AllDigits(Unsigned(BeforeFirst(s, "."), {"-"}))

\* Mutant: the coefficient wraps around.
Coefficient_Wraps(n) == n % (MaxInt + 1)

\* A coefficient is parsed without its sign.
Coefficient(n) == n

\* parse_decimal, for text that looks like a decimal.
DecimalOf(s, type) ==
    LET fraction == AfterFirst(s, ".")
        whole == BeforeFirst(s, ".")
        n == Coefficient(Number(Unsigned(whole, {"-"}) \o fraction))
    IN  IF Len(fraction) > MaxScale \/ n > MaxInt THEN Refused
        ELSE Value(type, Signed(whole, n), Len(fraction), <<>>)

\* parse_usd, for text that begins with a dollar sign.
MoneyOf(s) ==
    LET number == Without(Tail(s), ",")
    IN  IF IsDecimal(number) THEN DecimalOf(number, "money") ELSE Refused

IsWord(s, words) == Len(s) = 1 /\ s[1] \in words

\* Date::parse_iso
IsIsoDate(s) == IsWord(s, DOMAIN DateOf) /\ Calendar!IsDate(DateOf[s[1]])

Normalize(original) ==
    LET s == Trim(original)
    IN  CASE IsWord(s, NullWords)   -> UnknownValue
          [] IsWord(s, BooleanWords) ->
                Value("boolean", IF s[1] = "true" THEN 1 ELSE 0, 0, <<>>)
          [] IsIsoDate(s)           ->
                Value("date", Calendar!DaysFromCivil(DateOf[s[1]]), 0, <<>>)
          [] HasSign(s, {"$"})      -> MoneyOf(s)
          [] IsInteger(s)           ->
                Value("integer", Signed(s, Number(Unsigned(s, {"+", "-"}))), 0, <<>>)
          [] IsDecimal(s)           -> DecimalOf(s, "decimal")
          [] OTHER                  -> Value("text", 0, 0, original)

Field(subject, predicate, original, location) ==
    [subject |-> subject, predicate |-> predicate, original |-> original,
     value |-> Normalize(original), location |-> location]

(***************************************************************************)
(* extract_text                                                            *)
(***************************************************************************)
LineEnds(text) == Places(text, "\n") \cup ({Len(text)} \ {0})

LineStart(text, end) == Max({0} \cup {e \in LineEnds(text) : e < end}) + 1

LineBody(text, end) ==
    TrimEnd(SubSeq(text, LineStart(text, end), end), {"\r", "\n"})

HasPair(line) ==
    /\ Places(line, ":") # {}
    /\ Trim(BeforeFirst(line, ":")) # <<>> /\ Trim(AfterFirst(line, ":")) # <<>>

\* Mutant: the offset counts the lines without their endings.
Offset_Bodies(text, end) ==
    FoldLeft(LAMBDA n, e : n + Bytes(LineBody(text, e)), 0,
             SetToSortSeq({e \in LineEnds(text) : e < end}, <))

\* Bytes before the line that ends at end.
Offset(text, end) == Bytes(SubSeq(text, 1, LineStart(text, end) - 1))

TextField(text, end) ==
    LET line == LineBody(text, end)
        value == Trim(AfterFirst(line, ":"))
        start == Offset(text, end)
                     + Bytes(SubSeq(line, 1, Find(line, value)))
    IN  Field("document", Trim(BeforeFirst(line, ":")), value,
              [paragraph |-> Cardinality({e \in LineEnds(text) : e <= end}),
               start |-> start, end |-> start + Bytes(value)])

TextFields(text) ==
    LET ends == SetToSortSeq({e \in LineEnds(text) : HasPair(LineBody(text, e))}, <)
    IN  [n \in DOMAIN ends |-> TextField(text, ends[n])]

(***************************************************************************)
(* extract_json                                                            *)
(***************************************************************************)

\* serde_json keeps an integer that fits 64 bits, with or without a sign, and
\* makes a float of every other number, -0 among them.
IsFloat(s) ==
    \/ Places(s, ".") # {}
    \/ s = <<"-", "0">>
    \/ Signed(s, Number(Unsigned(s, {"-"}))) \notin (-MaxInt - 1)..(2 * MaxInt + 1)

\* How many digits n has, if it has no more than most.
Size(n, most) == Min({w \in 1..most : n < 10^w})

\* The last width digits of n.
Numeral(n, width) ==
    [i \in 1..width |-> DigitNames[((n \div 10^(width - i)) % 10) + 1]]

\* A float keeps Precision significant digits and rounds the rest away.  It is
\* printed with at least one digit after the point and no zero at the end, or
\* with an exponent, which is left out here, if it is very large or small.
\* (The program's floats are binary: they keep any 15 digits and some of the
\* next two, and a tie is not always rounded up.)
PrintedFloat(s) ==
    LET digits == SelectSeq(s, LAMBDA c : c \in Digits)
        places == IF Places(s, ".") = {} THEN 0 ELSE Len(AfterFirst(s, "."))
        most == Len(digits) + 1
        unit == 10^Max({0, Size(Number(digits), most) - Precision})
        n == unit * ((Number(digits) + unit \div 2) \div unit)
        point == Size(n, most) - places
        fraction == Numeral(10 * n, places + 1)
    IN  (IF HasSign(s, {"-"}) THEN <<"-">> ELSE <<>>)
        \o IF n = 0 \/ point \in PlainPoints
           THEN Numeral(n \div 10^places, Max({1, point})) \o <<".">>
                \o SubSeq(fraction, 1,
                       Max({1} \cup {i \in DOMAIN fraction : fraction[i] # "0"}))
           ELSE Numeral(n, Size(n, most)) \o <<"e">>

\* A number is printed from its parsed form.
Printed(s) == IF IsFloat(s) THEN PrintedFloat(s) ELSE s

OriginalOf(member) ==
    IF member.kind = "number" THEN Printed(member.text) ELSE member.text

\* The last member of a key counts; objects and arrays do not.
Members(doc) ==
    {i \in DOMAIN doc : /\ doc[i].kind # "composite"
                        /\ \A j \in DOMAIN doc : doc[j].key = doc[i].key => j <= i}

JsonFields(doc) ==
    LET order == SetToSortSeq(Members(doc),
                              LAMBDA i, j : doc[i].key < doc[j].key)
    IN  [n \in DOMAIN order |->
            LET m == doc[order[n]]
            IN  Field("document", m.key, OriginalOf(m), [member |-> m.key])]

(***************************************************************************)
(* extract_csv                                                             *)
(***************************************************************************)
EmptyTable == [records |-> <<>>, record |-> <<>>, field |-> <<>>,
               quoted |-> FALSE, skip |-> FALSE]

EndField(s, field) ==
    [s EXCEPT !.record = Append(@, field), !.field = <<>>]

WithoutReturn(field) ==
    IF field # <<>> /\ Last(field) = "\r" THEN Front(field) ELSE field

\* A record of which every field is empty is dropped.
EndRecord(s) ==
    [s EXCEPT !.records = IF \E i \in DOMAIN s.record : s.record[i] # <<>>
                          THEN Append(@, s.record) ELSE @,
              !.record = <<>>]

\* Mutant: a doubled quote inside a quoted field is two quotes.
DoubledQuote_Never(text, i, quoted) == FALSE

DoubledQuote(text, i, quoted) ==
    quoted /\ i < Len(text) /\ text[i] = "\"" /\ text[i + 1] = "\""

\* One turn of the loop of parse_csv.
ReadSymbol(text, s, i) ==
    CASE s.skip                             -> [s EXCEPT !.skip = FALSE]
      [] ~s.skip /\ DoubledQuote(text, i, s.quoted) ->
            [s EXCEPT !.field = Append(@, "\""), !.skip = TRUE]
      [] ~s.skip /\ text[i] = "\"" /\ ~DoubledQuote(text, i, s.quoted) ->
            [s EXCEPT !.quoted = ~@]
      [] ~s.skip /\ text[i] = "," /\ ~s.quoted  -> EndField(s, s.field)
      [] ~s.skip /\ text[i] = "\n" /\ ~s.quoted ->
            EndRecord(EndField(s, WithoutReturn(s.field)))
      [] OTHER                              -> [s EXCEPT !.field = Append(@, text[i])]

ReadTable(text) ==
    FoldLeft(LAMBDA s, i : ReadSymbol(text, s, i), EmptyTable,
             [i \in 1..Len(text) |-> i])

\* The records of a table that ends outside a quoted field.
Records(text) ==
    LET s == ReadTable(text)
    IN  IF s.field = <<>> /\ s.record = <<>> THEN s.records
        ELSE Append(s.records, Append(s.record, s.field))

Terminated(text) == ~ReadTable(text).quoted

HeaderComplete(records) ==
    records # <<>> => \A c \in DOMAIN records[1] : Trim(records[1][c]) # <<>>

\* The rows before the first one that is not as wide as the header.
EvenRows(records) ==
    {r \in 2..Len(records) : \A q \in 2..r : Len(records[q]) = Len(records[1])}

CsvFields(records) ==
    LET cells == {<<r, c>> \in EvenRows(records) \X (1..Len(records[1])) :
                     records[r][c] # <<>>}
        order == SetToSortSeq(cells,
                     LAMBDA a, b : a[1] < b[1] \/ (a[1] = b[1] /\ a[2] < b[2]))
    IN  [n \in DOMAIN order |->
            LET r == order[n][1]
                c == order[n][2]
            IN  Field(r - 1, Trim(records[1][c]), records[r][c],
                      [row |-> r - 1, column |-> c - 1])]

(***************************************************************************)
(* extract: the fields in their order, or why there are none.  The first   *)
(* field that does not normalize ends it, and so does an uneven row.       *)
(***************************************************************************)
Formats == {"text", "json", "csv"}

BadByte == "bad byte"

\* UTF-8, JSON syntax, and the quotes and the header of a table.
Legible(format, doc) ==
    CASE format = "json" -> \A i \in DOMAIN doc : doc[i].kind # "broken"
      [] format = "text" -> Places(doc, BadByte) = {}
      [] format = "csv"  -> /\ Places(doc, BadByte) = {} /\ Terminated(doc)
                            /\ HeaderComplete(Records(doc))

FieldsIn(format, doc) ==
    CASE format = "text" -> TextFields(doc)
      [] format = "json" -> JsonFields(doc)
      [] format = "csv"  -> IF Records(doc) = <<>> THEN <<>>
                            ELSE CsvFields(Records(doc))

Even(format, doc) ==
    format # "csv" \/ Cardinality(EvenRows(Records(doc))) >= Len(Records(doc)) - 1

\* Why a document yields no fields, or "none"; classify knows its format.
Refusal(format, doc) ==
    IF format \notin Formats THEN "unsupported_format"
    ELSE IF ~Legible(format, doc) THEN "malformed_input"
    ELSE LET fields == FieldsIn(format, doc)
         IN  IF \E n \in DOMAIN fields : fields[n].value = Refused
             THEN "validation_rejected"
             ELSE IF ~Even(format, doc) THEN "malformed_input"
             ELSE IF fields = <<>> THEN "no_observations" ELSE "none"

(***************************************************************************)
(* What record_external_claim accepts of a field: text with something in   *)
(* it besides white space and without control characters.                  *)
(***************************************************************************)
Control == {"\r", "\n"}

IsText(s) == Trim(s) # <<>> /\ \A i \in DOMAIN s : s[i] \notin Control

Acceptable(field) == IsText(field.predicate) /\ IsText(field.original)
=============================================================================
