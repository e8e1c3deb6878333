SPECIFICATION Spec
CONSTANTS
    p1 = p1
    p2 = p2
    Profile = {p1, p2}
    None = None
    Input <- ForgottenInput
    MaxQueue = 1
    MaxMade <- ForgottenMade
    MaxWorkers = 1
SYMMETRY MCSymmetry
PROPERTIES
    ProfileStaysDuringApply
