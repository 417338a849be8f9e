SPECIFICATION MCForeverSpec
CONSTANTS
    ip1 = ip1
    a1 = a1
    a2 = a2
    r1 = r1
    NoMeta = NoMeta
    NoTemplate = NoTemplate
    NoFile = NoFile
    Unknown = Unknown
    Torn = Torn
    Wildcard = Wildcard
    HOSTNAME = HOSTNAME
    IPs = {ip1}
    Hosts = {"h1", "main.pod"}
    Requests = {r1}
    Admins = {a1, a2}
    Callers = {r1, a1, a2}
    Versions = {"44"}
    MaxChanges = 1
    Names <- MCNames
    Extensions <- MCExtensions
    Format <- MCFormat
    IgnText = IgnText
    KsText = KsText
    Texts = {IgnText, KsText}
    Empty = Empty
    Garbled = Garbled
    Parsed <- MCParsed
    PutRequests <- MCPutRequests
    Assignable <- MCAssignable
    Metas <- MCMetas
    BmhStates <- MCBmhStates
    ConfigRules <- MCConfigRules
PROPERTY ForeverOnEveryBoot
SYMMETRY Clients
