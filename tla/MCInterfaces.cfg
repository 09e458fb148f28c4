SPECIFICATION IfSpec
CONSTANTS
    lan = lan
    wan = wan
    None = None
    MaxIndex = 3
    Names = {lan, wan}
    Configs = {{"inet"}, {"global"}, {"inet", "link", "global"}}
    Upstream = wan
    Period = 1
    Limit = 2
    MaxBack = 1
INVARIANTS TypeOK UpstreamGenuine
PROPERTIES AddressesLearnt UpstreamFollowed
