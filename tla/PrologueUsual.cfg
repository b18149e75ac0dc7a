SPECIFICATION Spec
CONSTANTS
    MaxInstruction = 11
    Instructions <- Usual
    Fillers <- AllFillers
INVARIANTS CodeFits ShortPrologueMoves
