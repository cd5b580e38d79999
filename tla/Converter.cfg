SPECIFICATION ConverterSpec
CONSTANTS
    Null = Null
    LongNames = {"mcp__long"}
    Shorten <- MCShorten
    Lower <- MCLower
    Settings <- MCSettings
    ToolIds = {1, 2}
    Images = {"png", "odd", "huge"}
    BadImages = {"odd"}
    BrokenImages = {"huge"}
INVARIANTS CallsAnswered ToolsKnown  HistoryAlternates ContentKept ThinkingRequestedOnce
