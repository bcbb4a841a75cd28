CONSTANTS
    p1 = p1
    p2 = p2
    Plugins = {p1, p2}
    Cache = p1
    NameOf <- MCNameOf
    Keys = {x, y, z}
    MaxSizes = {0, 1}
    DefaultSize = 2
    MaxLoops = 2
    MaxFilled = 3
SPECIFICATION PluginSpec
PROPERTY AllReached
INVARIANT CacheBounded
