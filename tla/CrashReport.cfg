SPECIFICATION Spec
CONSTANTS
    PAGE_CHUNK = 4
    cchBuffer = 7
    Texts <- McTexts
    NoText = NoText
    Header = 4
    Alignment = 4
    Legacy = 32
    XSTATE_AVX = 2
    XSTATE_AVX512_KMASK = 3
    XSTATE_AVX512_ZMM_H = 4
    XSTATE_AVX512_ZMM = 5
    XSTATE_CET_U = 7
    XSTATE_AMX_TILE_DATA = 8
    Features <- McFeatures
    Areas <- McAreas
    JunkHeaders <- McJunkHeaders
    Throws <- McThrows
    JunkTexts <- McJunkTexts
    Crashes <- McCrashes
CHECK_DEADLOCK FALSE
INVARIANTS StringWhole RegistersAreSaved TypesListed
PROPERTY ReportEnds
