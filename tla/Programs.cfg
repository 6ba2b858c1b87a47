SPECIFICATION ProgramsSpec
CONSTANTS
    MaxAsks = 2
    MaxTerms = 2
    MaxQueries = 2
    MaxNoise = 2
    Statuses = {0, 3}
    Files <- MCFiles
    CommandLines <- MCCommandLines
    Program = "hid"
    FixedVars = {"fixed"}
    LooseVars = {"loose"}
    FlagVars = {"flag"}
    Levels = {1, 2}
    MaxEdits = 1
    Lowered <- MCLowered
    Offers <- MCOffers
    Custom <- MCCustom
    Names <- MCNames
    ListenFiles <- MCListenFiles
    Resolved <- MCResolved
    Clash <- MCClash
    MaxConns = {0, 2, 9}
    SystemConns = 4
    Items <- MCItems
    Preludes <- MCPreludes
    MaxItems = 3
    PathSize = 4
    UsageTabSize = 2
    MaxReport = 3
    MaxOffset = 32
    HidFields <- MCFields
    ReportLen <- MCReportLen
    ByteBits = 2
    Pictures <- MCPictures
    WantedValues <- MCWantedValues
    FieldAges = {1, 2}
    EventSize = 1
    MaxChanges = 2
    LastTick = 3
    ScanSets <- MCRequests
    Available = {"xml", "nut", "sim", "usb", "snmp", "ipmi"}
    Targets <- MCTargets
    OwnLimit <- MCOwn
    MaxThreads = 2
    MaxFaults = 1
    XmlHosts <- MCXmlHosts
    SnmpTable <- MCSnmpTable
    SnmpAgents <- MCSnmpAgents
    SnmpSettings <- MCSnmpSettings
    PortUnits <- MCPortUnits
    Rates = 2
    UsbTrees <- MCUsbTrees
    MaxLosses = 1
    Services <- MCServices
    MaxServices = 3
    MaxDevices = 8
    V4Bits = 3
    V6Bytes = 2
    V6ByteBits = 2
    Addresses <- MCAddresses
    Cidrs <- MCCidrs
    AutoModes <- MCAutoModes
    Interfaces <- MCInterfaces
    TextBefore <- MCTextBefore
    MaxRangeOptions = 3
    NamesOf <- MCNamesOf
    Systems <- MCSystems
    MaxInits = 2
INVARIANTS
    
    QuerySafe
    ConfSafe
    ShutdownSafe
    
    
    
CHECK_DEADLOCK FALSE
