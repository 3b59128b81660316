----------------------------- MODULE MCDocuments -----------------------------
(***************************************************************************)
(* The calendar, the documents and the rows for TLC.  They share no state, *)
(* and a behaviour is about one of them: the years pass while no document  *)
(* is written and no row stored.                                           *)
(***************************************************************************)
EXTENDS Documents, CalendarDates, Records, TLC

MCOffsets == {-730119, -146097, -36525, -366, -365, -1, 0, 1, 30, 59, 365, 366,
              1461, 36524, 36525, 146096, 146097, 3652058, 3652059}

MCDateOf == ("2024-02-29" :> Date(2024, 2, 29)) @@ ("2026-02-29" :> Date(2026, 2, 29))

Symbols == {"a", ":", " ", "\n", "\r", "\"", ",", "$", ".", "-", "+", "0", "1",
            "5", BadByte}

MCWidthOf ==
    [c \in Symbols |-> 1] @@ ("é" :> 2) @@ ("null" :> 4) @@ ("true" :> 4)
        @@ ("2024-02-29" :> 10) @@ ("2026-02-29" :> 10)

MCMaxSigned == 7
MCMaxLength == 3

Sample(format, prefix, alphabet, length) ==
    [format |-> format, prefix |-> prefix, alphabet |-> alphabet,
     length |-> length]

Member(key, kind, text) == [key |-> key, kind |-> kind, text |-> text]

\* Every JSON number of up to three digits on either side of the point.
MCNumbers ==
    LET some == {"0", "1", "5", "9"}
        wholes == {<<"0">>} \cup {w \in BoundedSeq(some, 3) : w # <<>> /\ w[1] # "0"}
        fractions == {<<>>} \cup {<<".">> \o f : f \in BoundedSeq(some, 3) \ {<<>>}}
    IN  {sign \o w \o f : sign \in {<<>>, <<"-">>}, w \in wholes, f \in fractions}

MCPlainPoints == -1..2

NoDocument == Sample("text", <<>>, {}, 0)

MCSamples ==
    {NoDocument,
     Sample("text", <<>>, {"a", "é", ":", " ", "\n"}, 6),
     Sample("text", <<"a", ":">>, {"0", "1", "5", ".", "-"}, 7),
     Sample("text", <<"a", ":">>, {"0", "1", "5", ".", "-", "$", ","}, 6),
     Sample("text", <<"a", ":">>, {"null", "true", "2024-02-29", "2026-02-29",
                                   " ", "+", "\r", BadByte}, 5),
     Sample("csv", <<>>, {"a", ",", "\"", "\n", "\r"}, 6),
     Sample("csv", <<"a", "\n">>, {"1", ".", "$", ",", "\n"}, 6),
     Sample("json", <<>>, {Member(1, "string", <<"a">>), Member(1, "word", <<"null">>),
                           Member(1, "number", <<"1", ".", "0">>),
                           Member(2, "number", <<"5">>),
                           Member(2, "string", <<"$", "5">>),
                           Member(2, "composite", <<>>), Member(3, "broken", <<>>)}, 3)}
    \cup {Sample("json", <<>>, {Member(1, "number", s)}, 1) : s \in MCNumbers}

\* A claim of an extraction, and the claim of a correction.
ExtractedClaim ==
    [text |-> [length |-> 1, white |-> 0, control |-> FALSE],
     start |-> None, end |-> None, page |-> None, column |-> None, region |-> None,
     provider |-> None, model |-> None, configuration |-> None,
     provenance |-> Some("provenance"), temporal |-> None,
     origin |-> 1, state |-> 2, verification |-> 1]

CorrectedClaim == [ExtractedClaim EXCEPT !.origin = 2, !.state = 8, !.verification = 4]

Texts == [length : {0, 1, MCMaxLength - 1, MCMaxLength, MCMaxLength + 1},
          white : {0, 1}, control : BOOLEAN]

Optional(S) == {None} \cup {Some(v) : v \in S}

Positions == Optional({0, 1, MCMaxSigned, MCMaxSigned + 1})

Dates == {3652058, 3652059}

Times ==
    [kind : {"exact", "before", "after"}, date : Dates]
        \cup [kind : {"month"}, year : {0, 1, 9999, 10000}, month : {0, 1, 12, 13}]
        \cup [kind : {"year"}, year : {0, 1, 9999, 10000}]
        \cup [kind : {"range"}, earliest : Dates, latest : Dates]
        \cup {[kind |-> "unknown"]}

Jsons == Optional({"json", "malformed"})

MCBundles ==
    {[b EXCEPT !.text = t] : b \in {ExtractedClaim, CorrectedClaim}, t \in Texts}
        \cup {[b EXCEPT !.temporal = t] :
                 b \in {ExtractedClaim, CorrectedClaim}, t \in Optional(Times)}
        \cup {[ExtractedClaim EXCEPT !.start = s, !.end = e, !.page = p, !.column = c] :
                 s \in Positions, e \in Positions,
                 p \in Optional({0, 1}), c \in Optional({0, 1})}
        \cup {[ExtractedClaim EXCEPT !.provider = p, !.model = m, !.configuration = c,
                                 !.region = r] :
                 p \in Optional({"provider"}), m \in Optional({"model"}),
                 c \in Jsons, r \in Jsons}

ValuesInit == CalendarInit /\ DocumentsInit /\ RecordsInit

Nothing == sample = NoDocument /\ submitted = None

ValuesNext ==
    \/ Nothing /\ NextYear /\ UNCHANGED <<documents, records>>
    \/ DocumentsNext /\ UNCHANGED <<calendar, records>>
    \/ Nothing /\ year = 0 /\ RecordsNext /\ UNCHANGED <<calendar, documents>>

ValuesSpec == ValuesInit /\ [][ValuesNext]_<<calendar, documents, records>>
=============================================================================
