SPECIFICATION IdeSpec
CONSTANTS
    s1 = s1
    s2 = s2
    u1 = u1
    u2 = u2
    none = none
    Switches = {s1, s2}
    Uids = {u1, u2}
    None = none
    MaxWrites = 2
    MaxKey = 2
SYMMETRY SwitchSymmetry
PROPERTIES NoUpdateLost ClientCanRead RunsAsTold LogoutStands
