SPECIFICATION Spec
CONSTANTS
    NULL = NULL
    h1 = h1  h2 = h2  h3 = h3
    r1 = r1  r2 = r2  r3 = r3
    f1 = f1  f2 = f2  f3 = f3  f4 = f4
    arial = arial  song = song  emoji = emoji
    dir1 = dir1  dir2 = dir2  added = added
    Names = {arial, song, emoji}
    EmojiNames = {emoji}
    Trunc <- KeepName
    Attrs <- Small
    EmojiMatch <- EmojiEntry
    CacheSize = 1
    Handles = {h1, h2, h3}
    Nodes = {r1, r2, r3}
    Fonts = {f1, f2, f3, f4}
    Bases = {dir1, dir2}
    NoBase = dir1
    MaxPaths = 1
    Paths <- AllPaths
    DefPath <- DefPathOf
SYMMETRY Symmetry
INVARIANTS TypeOK RefCountExact Ownership CacheBound OneFontPerInfo RightFont NothingOutlivesManager
PROPERTIES StableWhileHeld ImplementsPool
