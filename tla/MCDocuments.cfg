SPECIFICATION ValuesSpec
CONSTANTS
    Offsets <- MCOffsets
    DateOf <- MCDateOf
    WidthOf <- MCWidthOf
    Samples <- MCSamples
    Bundles <- MCBundles
    MaxSigned <- MCMaxSigned
    MaxLength <- MCMaxLength
    MaxInt = 127
    MaxScale = 2
    Precision = 3
    PlainPoints <- MCPlainPoints
INVARIANTS
    DatesAreExact
    RecordedIsReadBack
    CsvReadsWhatIsWritten
    SpansHoldTheValue
    NumbersAreExact
\* The calendar ends with its last year, a document at its length.
CHECK_DEADLOCK FALSE
