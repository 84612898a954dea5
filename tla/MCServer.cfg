CONSTANTS
    Part = {"server", "queries", "rings", "teams", "members", "wrappers", "natives",
            "info", "message", "ids", "models"}
    Map = {"dust", "aztec"}
    OtherName = {"other"}
    LongName = {"aztec"}
    CutName = "azt"
    NoMap = ""
    Helper = {"vtc", "rechecker"}
    QueryAddr = {1, 2, 3}
    QueryForward = {1, 2, 3}
    QueryId = {1, 2, 3}
    RingSize = 3
    Holder = {1, 2, 3}
    NoHolder = 0
    MaxSince = 4
    Player = {p1, p2}
    MaxNatives = 2
    Cell <- MCCell
    Length = {0, 1, 2, 4}
    AmxAddress = {4096}
    MaxEntities = 3
    Private = {1, 2}
    MaxClients = 2
    Number = {1, 2}
    EdictCount = 4
    SlotCount = 1
    InfoKey <- MCInfoKey
    InfoValue <- MCInfoValue
    Important <- MCImportant
    NameKey <- MCNameKey
    TeamKey <- MCTeamKey
    LowerCase <- MCLowerCase
    InfoString <- MCInfoString
    BufferLength = {3, 9, 14}
    MaxInfoString = 14
    MaxKeyValue = 4
    ArgType <- MCArgType
    MessageCell <- MCMessageCell
    MessageText <- MCMessageText
    TextSize = 3
    MaxUserMessages = 2
    MaxRegionRange = 1024
    NumModels <- MCNumModels
    NumBones = 1
    NumSeq = 2
    Looping = {1}
    Frames = 3
    Rates = {1, 3}
    MaxTime = 3
SPECIFICATION MCSpec
CONSTRAINT FewQueries
INVARIANTS
    ServerTypeOK
    QueriesAgree
    TrueMapName
    NothingOutlivesItsMap
    TeamsAgree
    BombAccounted
    IntactForARound
    SetThenGet
    ConversionsRoundTrip
    NativesUseWhatIsThere
    InfoKeepsPairs
    SetMessageReadsBack
    IdsResolve
    ModelsIntact
PROPERTY
    AnswersReachTheirQuery
