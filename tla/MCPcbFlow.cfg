SPECIFICATION PcbSpec
CONSTANTS
    Late <- LateSheets
    MaxRouting = 2
INVARIANTS
    CopperOnItsNet
    EarlierSheetWins
    PartsApart
    DocumentedCounts
    MatchedTraces
