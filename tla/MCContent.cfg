SPECIFICATION Spec
CONSTANTS
    Pngs = {"land.png", "hero.png"}
    Numerals <- MCNumerals
    MinTile = 2
    MaxTile = 4
    MinSide = 3
    Parts = 2
    Texts <- MCTexts
    Trees <- MCTrees
    Files = {"field.tmx", "road.tmx"}
    WorldMap = "field.tmx"
    Paths <- MCPaths
    LiveEdits = FALSE
    MaxEdits = 2
    MaxDownloads = 1
INVARIANTS
    MapsAreAsSaved
    ClientsGetWhatTheyNeed
    CacheIsCurrent
\* A server that refuses its files waits for an author.
CHECK_DEADLOCK FALSE
