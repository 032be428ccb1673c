SPECIFICATION PumpFairSpec
CONSTANTS
    Calls = {c1}
    MaxLines = 3
INVARIANT UsageTruthful
INVARIANT NoSilentTruncation
INVARIANT BlameFits
INVARIANT SentOnce
PROPERTY StreamsEnd
