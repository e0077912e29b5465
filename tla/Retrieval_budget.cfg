SPECIFICATION RetrievalSpec
CONSTANTS
    a = a
    b = b
    c = c
    S = S
    f1 = f1
    f2 = f2
    f3 = f3
    Paths = {a, b, c}
    Symbols = {S}
    Findings = {f1, f2, f3}
    PathOrder <- MCPathOrder
    PathOf <- MCPathOf
    NeedLists <- MCNeeds
    Texts <- MCTexts
    Definitions <- MCDefinitions
    PatchCost <- MCPatchCost
    FixedCosts <- MCFixedCosts
    LeadCost = 2
    HeadingCost = 1
    MaxInput = 16
    MinGrounding = 1
    HopLimit = 2
    MaxFiles = 2
    MaxCandidates = 2
CHECK_DEADLOCK FALSE
INVARIANT AssembledPromptFits
