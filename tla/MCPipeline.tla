------------------------------ MODULE MCPipeline ------------------------------
(***************************************************************************)
(* Extraction with small constants for TLC.  The fields of each document   *)
(* are what Extractors makes of it: a document of one field, one that      *)
(* contradicts itself, one whose second field is extracted but refused by  *)
(* the service, and one of no known format.                                *)
(***************************************************************************)
EXTENDS Pipeline, SequencesExt, TLC

CONSTANTS note, twice, blank, photo, k1, v1, v2

Field(v, accepted) == [key |-> k1, value |-> v, accepted |-> accepted]

MCFieldsOf ==
    [d \in Documents |->
        CASE d = note  -> <<Field(v1, TRUE)>>
          [] d = twice -> <<Field(v1, TRUE), Field(v2, TRUE)>>
          [] d = blank -> <<Field(v1, TRUE), Field(v1, FALSE)>>
          [] OTHER     -> <<>>]

MCRefusalOf ==
    [d \in Documents |-> IF d = photo THEN "unsupported_format" ELSE "none"]

Text == INSTANCE Extractors WITH
    MaxInt <- 127, MaxScale <- 2, Precision <- 3, PlainPoints <- {}, DateOf <- <<>>,
    WidthOf <- [c \in {"a", ":", "1", "5", "\r", "\n"} |-> 1]

Format == [d \in Documents |-> IF d = photo THEN "image" ELSE "text"]

Content ==
    [d \in Documents |->
        CASE d = note  -> <<"a", ":", "1">>
          [] d = twice -> <<"a", ":", "1", "\n", "a", ":", "5", "\n">>
          [] d = blank -> <<"a", ":", "1", "\n", "a", "\r", "a", ":", "1">>
          [] OTHER     -> <<>>]

\* The constants are what Extractors makes of these documents, with one key
\* for every subject and predicate.
ASSUME DocumentsAreExtracted ==
    \A d \in Documents :
        LET fields == Text!FieldsIn(Format[d], Content[d])
        IN  /\ RefusalOf[d] = Text!Refusal(Format[d], Content[d])
            /\ RefusalOf[d] = "none" => Len(FieldsOf[d]) = Len(fields)
            /\ \A n \in DOMAIN FieldsOf[d] :
                  FieldsOf[d][n] =
                      Field(IF fields[n].value.number = 1 THEN v1 ELSE v2,
                            Text!Acceptable(fields[n]))

MCQuestions == {Keys}

Interchangeable == Permutations(Workers)
=============================================================================
