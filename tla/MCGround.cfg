SPECIFICATION Spec
CONSTANTS
    MapDocs <- MCMapDocs
    Places <- MCPlaces
    Views <- MCViews
    TileSize = 2
    ChunkTiles = 2
    Width = 4
    Height = 4
    Radius = 1
    TokenMod = 3
INVARIANTS
    TypeOK
    ServerAnswersExactly
    ClientAgrees
    DrawsWhatIsThere
