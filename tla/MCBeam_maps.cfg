SPECIFICATION SuiteSpec
CONSTANTS
    Subjects = {"maps"}
    MaxBeamPids = 4
    TableRoom = 3
    MaxBeamMail = 3
    MaxCatches = 1
    NormalAdvantage = 8
    MaxFrame = 2
    MaxStack = 8
    MaxKey = 3
    MaxValue = 2
    MaxPairs = 3
    MaxBody = 2
    Numbers <- MCNumbers
    Integers32 <- MCIntegers32
    m1 = m1
    m2 = m2
    fa = fa
    fb = fb
    CodeModule <- MCModules
    CodeFun <- MCFuns
    NativeFun <- MCNatives
    FileFuns <- MCFileFuns
    CodeProc = {p1, p2}
    MaxVersion = 2
    MaxReturns = 1
INVARIANT SortedMapIsSearched
CHECK_DEADLOCK FALSE
