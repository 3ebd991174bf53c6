SPECIFICATION UikitSpec
CONSTANTS
    NULL = NULL
    h1 = h1  h2 = h2  h3 = h3  h4 = h4  h5 = h5
    r1 = r1  r2 = r2  r3 = r3
    f1 = f1  f2 = f2  f3 = f3  f4 = f4
    arial = arial  song = song  emoji = emoji  dir1 = dir1
    Names = {arial, song, emoji}
    EmojiNames = {emoji}
    Trunc <- KeepName
    Attrs <- OneSize
    EmojiMatch <- EmojiEntry
    CacheSize = 0
    Handles = {h1, h2, h3, h4, h5}
    Nodes = {r1, r2, r3}
    Fonts = {f1, f2, f3, f4}
    Bases = {dir1}
    NoBase = dir1
    LibBase = dir1
    MaxPaths = 0
    Paths <- DefPaths
    DefPath <- DefPathOf
    Family <- Families
SYMMETRY Symmetry
INVARIANTS NoOrphans ShutdownPossible DestroyWalksLiveFonts
