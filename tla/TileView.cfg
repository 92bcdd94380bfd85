\* The user pans, zooms and edits the layers while tiles come in.
SPECIFICATION FairViewSpec
CONSTANTS
    p1 = p1
    p2 = p2
    s1 = s1
    s2 = s2
    a = a
    b = b
    base = base
    over = over
    files = files
    sqlite = sqlite
    None = None
    Slots <- MCSlots
    Rows <- MCRows
    Base = base
    Zooms <- MCZooms
    Places <- MCPlaces
    Windows <- MCWindows
    Layers <- MCLayers
    Ids <- MCIds
    Types <- MCTypes
    FirstType = sqlite
    FirstLayer = a
    FirstWindow <- MCFirst
    FirstZoom = 1
    TimesOut <- MCTimesOut
    Before <- MCBefore
    RetryLimit = 1
    MaxEvents = 4
INVARIANTS
    AnswersReachTheTile
    ModelShowsWindow
PROPERTIES
    StoredIsFound
    TilesSettle
