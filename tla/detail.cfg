SPECIFICATION FairSpec
CONSTANTS
    Pages = {d1, d2}
    Urls = {u1, u2, u3, u4}
    u1 = u1
    u2 = u2
    u3 = u3
    u4 = u4
    Names <- MCNames
    LinkOf <- Links
    MagnetName <- SharedNames
INVARIANTS
    TypeOK
    RecordedIsOwn
    OwnTorrent
PROPERTIES
    DownloaderSetOnce
    FetchIsKept
    SpinnerEnds
