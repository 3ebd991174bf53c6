SPECIFICATION Spec
CONSTANTS
    w1 = w1  w2 = w2  f1 = f1  f2 = f2
    Widgets = {w1, w2}
    Fonts = {f1, f2}
    Contexts = 2
    MaxLives = 3
    Liberties = {}
SYMMETRY Symmetry
CHECK_DEADLOCK FALSE
INVARIANTS HoldersAlive LeaksExplained 
