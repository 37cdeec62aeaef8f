CONSTANTS
    Normal <- MCNormal
    GarbledLabels <- MCGarbled
    Lower <- MCLower
    LabelSize <- MCLabelSize
    English = {"q"}
    Coarse = 1
    Strict = 3
    StrictEnglish = 2
    RerankGate = 1
    Resonant = 3
    ResonantEnglish = 2
    Semantic = 2
    MatrixSize = 4
    Shortlist = 2
    SizeOf <- MCSizeOf
    InputLimit = 7
    Inside <- MCInside
    ValueOf <- MCValueOf
    DatasetLike = {"ResNet", "ResNet-50"}
    Folded <- MCFolded
    MarkerSize = 2
    Screaming = {"SUPPORTS", "PRODUCES", "EXPLAINS", "SUPPORTED_BY"}
    LabelMax = 1
    SpanMax = 2
    PatchBatch = 2
    MaskThreshold = 3
    Absent = Absent
    FragmentMax = 6
    UpsertBatch = 2
    RequestBatch = 1
    DefaultTopK = 5
    Unknown = Unknown
    ShortPageLimit = 25
    Stripped <- MCStripped
    BuiltIn <- MCBuiltIn
SPECIFICATION MCSpec
INVARIANT IndexCoversText
CHECK_DEADLOCK FALSE
