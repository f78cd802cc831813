SPECIFICATION Spec
CONSTANTS
    Dialogs = {d1, d2}
    BeforeUnload = {d1}
    None = None
    Tools = {"toggle", "click"}
INVARIANTS
    EveryPressIsReleased
