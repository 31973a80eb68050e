CONSTANTS
    Chars = {"a", "/", "?", ";"}
    Separators = {"/"}
    DEFAULT_DELIMITER = ";"
    DEFAULT_PLACEHOLDER = "?"
    Throws = Throws
    MaxInput = 4
    MaxEdit = 1
    MaxTemplates = 2
    RangedObjects <- MCRangedObjects
    TypeOf <- MCTypeOf
    Ints = {0, 1, 3}
    NDEBUG = TRUE
    NoInt = NoInt
    StoredValues = {u, v, w}
    MaxStored = 5
    MaxAtFailure = 4
    Wrappers = {w1, w2}
    FinalTasks = {f1, f2}
    Cleanups = {c1, c2}
    NoCleanup = NoCleanup
    Pairs = {p1, p2}
    Elements = {"one", "two", "deux", "three", "nan"}
    Rank <- MCRank
    Unordered = {"nan"}
    NoPair = NoPair
    Ties = {t1, t2}
    Variables = {x, y, z}
    Scalars = {0, 1}
    MaxDim = 2
    IDs = {0, 1, 2, 3, 4, 5, 6, 7, 8}
    Nowhere = Nowhere
    Signatures <- MCSignatures
    Arguments <- MCArguments
    Keys <- MCKeys
    Error = Error
    Types = {0, 1, 2}
    NullType = 0
    Libraries = {exe, dso}
    Sequence <- MCSequence
    IndexWidth = 2
    Indices <- MCIndices
    StrideWidth = 3
    MaxUses = 15
    NoStride = NoStride
    WordWidth = 3
    NoGenerator = NoGenerator
    StringChars = {"a", "b"}
    NUL = NUL
    N = 3
    MaxSourceLength = 4
    NodeCount = 4
    MaxChildren = 2
    NULL = NULL
SPECIFICATION Spec
INVARIANTS TemplatesReadBack DirectoriesReadBack CheckedInRange NumbersStable
    KeepsBothInOrder InterchangeableKeys FaceIsPartOfCube CalledWithInput
    AppliesAtIndex HandlesAreKeys FiresEveryNth GridCovered HoldsCopy FindsFirst
PROPERTIES ImplementsDuty SimultaneousAssignment LoopEnds
