SPECIFICATION Spec
INVARIANTS NothingDropped CatalogIsHonest ProfileIsContained AwgIsFaithful HealthIsTrue
PROPERTIES KeysAreRight UpdatesAreRight
CONSTANTS
    Number <- MCNumber
    Amount <- MCAmount
    PortList <- MCPortList
    Object <- MCObject
    KeyChain <- MCKeyChain
    Plugin <- MCPlugin
    NotHost <- MCNotHost
    Private <- MCPrivate
    LongText = {"long"}
    Literal = {"8.8.8.8", "10.0.0.1", "0x7f.1"}
    NotTag = {"long"}
    Destinations = {"video", "mail", "news"}
    MaxOutbounds = 4
    MaxBalancers = 1
    Bodies <- MCBodies
    NoLink = NoLink
    NoProfile = NoProfile
    MaxLines = 3
    MaxNodes = 2
    MaxText = 3
    None = None
    Unpicked = Unpicked
    NumberOf <- MCNumber
    RangeOf <- MCRangeOf
    FlagOf <- MCFlagOf
    TagsOf <- MCTagsOf
    Keys = {"k0", "k1", "k2", "k3", "k4"}
    ZeroKey = "k0"
    HostsPorts = {"h:1"}
    PrefixLists = {"net"}
    MaxWord = 15
    MaxShort = 7
    MaxPacket = 65507
    MaxPeers = 2
    Ids = {1, 2, 3}
    Names = {1, 2}
    Directories <- MCDirectories
    Quiet <- MCQuiet
    Edits <- MCEdits
    MaxChanges = 2
    KeyStores <- MCKeyStores
    NoKey = NoKey
    NotAKey = NotAKey
    AllPairs <- MCAllPairs
    FirstPairs <- MCFirstPairs
    MaxCalls = 3
    MaxPolls = 40
    Stable = 8
    RestartPolls = 20
    Boots <- MCBoots
    Lives <- MCLives
    Forever = Forever
    MaxCommits = 4
    MaxHistory = 3
    MaxLookups = 2
    MaxUpdates = 2
CHECK_DEADLOCK FALSE
