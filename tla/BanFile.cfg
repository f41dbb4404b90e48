\* Commands one after another or two at once, each of which may die or fail anywhere.
CONSTANTS
    Editor = {e1, e2}
    n1 = n1
    n2 = n2
    Net = {n1, n2}
    Initial <- MCInitial
    Unreadable = TRUE
    Inode = {i1, i2, i3, i4}
    MaxEdits = 3
SPECIFICATION Spec
SYMMETRY MCSymmetry
PROPERTIES
    EditsAreAtomic
    ImplementsBanList
CHECK_DEADLOCK FALSE
