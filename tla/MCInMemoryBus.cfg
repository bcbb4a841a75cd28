CONSTANTS
    Topics = {tA, tB}
    Subs = {s1, s2}
    Tasks = {k1, k2}
    MaxMsgs = 3
    MaxDepth = 2
    MaxResets = 1
    NoTopic = NoTopic
SPECIFICATION Spec
SYMMETRY Symmetry
INVARIANTS TypeOK RegistryExact FanOutExact NoLateDelivery OrderPerPublisher MetricsAddUp
PROPERTY ImplementsPubSub
