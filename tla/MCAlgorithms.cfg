SPECIFICATION AlgSpec
CONSTANTS
    DirNames = {"a", "a-b"}
    FileNames = {"f", "g"}
    Paths <- ScanPaths
    Order <- ScanOrder
    MinShardWeight = 2
    MaxLine = 3
    Bytes <- MCBytes
    Hex = {"#ff5c57"}
    Letters = {"p", "q"}
    NoBudget = NoBudget
    Number <- MCNumber
    Levels = {"warn", "fatal"}
    Versions = {"v1.*"}
    Colors = {"red", "blue"}
    AnnounceReads <- MCAnnounceReads
    OutputReads <- MCOutputReads
    Worlds <- MCWorlds
    LevelsOfPaths <- MCLevelsOfPaths
    ShortenOpts <- MCShortenOpts
    CommandLines <- MCCommandLines
    FnPatterns <- MCFnPatterns
    FnTexts <- MCFnTexts
    GlobPatterns <- MCGlobPatterns
    GlobTexts <- MCGlobTexts
    Groups <- MCGroups
    Values <- MCValues
    RowsToLayOut <- MCRowsToLayOut
CHECK_DEADLOCK FALSE
INVARIANTS
    ScanCountsAreTrue
    AnnouncementsAreOfTheStream
    OutputIsForwarded
    OptionsAreAsSet
    FnMatchMatches
    GlobMatches
    GroupsAreAlternatives
    ThemeRoundTrips
    PathIsReadable
    RowsEndAtTheEdge
    ArrowsAreSeamless
