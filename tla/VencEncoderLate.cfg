SPECIFICATION Spec
CONSTANTS
    MaxFrame = 3
    Happens = {"late"}
INVARIANT
    EncodesItsFrame
