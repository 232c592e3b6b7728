SPECIFICATION SpecAll
CONSTANTS
    Filters = {f1, f2}
    Managed = {f1}
    Width = 1
    Ports = {1, 2}
    AnyPort = AnyPort
    Shapes <- SomeShapes
    Actions = {"drop", "connect"}
    Packets <- BothWays
    RulesCapacity = 3
    InstancesCapacity = 2
    RxBuffers = {rx}
    ReplyBuffers = {reply}
    IcmpBuffers = {icmp}
    Systems <- SomeSystems
INVARIANTS
    RuleIdsExact
    MostSpecificRuleApplies
    InstancesOwned
    LookupExact
    NothingStranded
PROPERTIES
    OtherConnectionsSurvive
CHECK_DEADLOCK FALSE
