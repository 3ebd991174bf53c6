SPECIFICATION EmojiSpec
CONSTANTS
    NULL = NULL
    f1 = f1  f2 = f2
    Fonts = {f1, f2}
    Documents <- Files
    NameMax = 4
    ExtMax = 5
    PathMax = 24
    AskedNames <- Names
    Heights = {24, 29}
    Unicodes = {1, 2}
SYMMETRY Symmetry
INVARIANTS NoLeak AllOrNothing GlyphRight
