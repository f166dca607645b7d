SPECIFICATION Spec
CONSTANTS
    MaxSemantics = 3
    Width = 2
    PushBytes = 16
    MaxDescriptorSets = 2
    MaxBindings = 2
    MaxContext = 16
    MaxShader = 8
    PsslHeader = 5
    FileHeader = 3
    StageHeader <- StageHeaders
    UsageSlot = 4
    InputSemantic = 4
    ExportSemantic = 2
    PixelSemantic = 2
    BinaryInfo = 7
    ParamInfo = 3
    Packages <- AllPackages
INVARIANTS
    TypeOK
    SemanticsDescribeEveryLoad
    PerPrimitiveLast
    MixedInputsLink
    OutputsExact
    OutputsLink
    ImageExact
    ProgramLocated
    UsageSlotsFound
    PushUseExact
    DescriptorUseExact
CHECK_DEADLOCK FALSE
