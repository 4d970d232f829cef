SPECIFICATION Spec
CONSTANTS
    Setups <- MCSetups
    Sizes <- MCSizes
    Views <- MCViews
    Squeezed = 9
    HardPayload = 20000
    HardRectangles = 6
    HardParts = 4
    DefaultBudget = 16000
    DirtyPercent = 60
INVARIANT RectanglesCoverDamage
INVARIANT PlanIsAccepted
INVARIANT RefusedOnlyIfImpossible
INVARIANT PointerLands
CHECK_DEADLOCK FALSE
