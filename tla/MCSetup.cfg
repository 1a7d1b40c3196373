CONSTANTS
    i1 = i1
    i2 = i2
    someone = someone
    Invocations = {i1, i2}
    Someone = someone
    Parts = 2
    Arguments <- MCArguments
    Texts <- MCTexts
    Directories <- MCDirectories
    CurrentExe <- MCCurrentExe
SPECIFICATION Spec
CHECK_DEADLOCK FALSE
INVARIANTS
    SuccessMeansComplete
    
PROPERTIES
    NothingIsOverwritten
