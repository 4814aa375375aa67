\* Two objects, each of which takes every text and every combination of parts.
CONSTANTS
    a1 = a1
    a2 = a2
    Objects <- MCObjects
    Texts <- MCTexts
    Parts <- MCParts
SPECIFICATION Spec
SYMMETRY Symmetry
INVARIANTS
    ReadsBack
    StrictOrder
