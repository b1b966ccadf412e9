CONSTANTS
    Work = {w1, w2, w3}
    Guards = {g1, g2}
    NoGuard = NoGuard
SYMMETRY Symmetry
SPECIFICATION Spec
INVARIANTS
    ModeRestored
    AllOrNothing
    OutcomeKept
    
