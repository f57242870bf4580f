SPECIFICATION FairSpec
CONSTANTS
    claude = claude
    bedrock = bedrock
    opus = opus
    mini = mini
    Requests = {r1, r2}
    Default = Default
    Engines <- MCEngines
    Names <- MCNames
    DefaultOf <- MCDefaultOf
    Chain <- MCChain
    Priced <- MCPriced
    Asks <- MCAsks
    Reasons = {"overloaded"}
    Threads = 1
    MaxSteps = 2
INVARIANTS
    RouteIsTheAnswers
    PricedAtTheAnswers
    NamedModelAskedOnce
    StreamsTellHowTheyEnd
PROPERTIES
    AnswersKept
    EveryRequestEnds
