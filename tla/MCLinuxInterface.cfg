SPECIFICATION InterfaceSpec
CONSTANTS
    p1 = p1
    p2 = p2
    Proc = {p1, p2}
    Errors = TRUE
    Expects = {"mtu", "mode"}
    Expected = "off"
    Exempt = FALSE
    MaxTime = 2
    MaxPk = 1
    MaxErr = 1
    MaxResets = 1
SYMMETRY Symmetry
INVARIANTS
    InterfaceTypeOK
    ErrorsAreTold
