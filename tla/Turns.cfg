SPECIFICATION Spec
CONSTANTS
    claude = claude
    openai = openai
    basic = basic
    NoShape = NoShape
    Engines <- MCEngines
    Asked <- MCAsked
    Backups = {openai, basic}
    Tools = {claude, openai}
    Joins = {claude}
    Blocks = {claude, basic}
    Items <- MCItems
    MaxTurns = 3
    MaxMessages = 4
INVARIANTS
    InPlace
    CheckedBeforeThePool
    OneMessagePerRun
    ResultsFit
    TurnsKeepTheirShape
PROPERTIES
    RefusedForCause
