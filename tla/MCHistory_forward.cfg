SPECIFICATION HSpec
CONSTANTS
    lan = lan
    wan = wan
    g = g
    Null = Null
    Any = Any
    Ifs = {lan, wan}
    Volatile = {}
    Upstream = wan
    Routable = {g}
    Local = {}
    Unicast = {}
    Sources = {}
    SubscriptionTimeout = 2
    RobustnessFactor = 2
    Mode = "both"
    Reports <- NoReports
PROPERTIES ForwardedAgain
