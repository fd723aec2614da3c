SPECIFICATION Spec
CONSTANTS
    Root = root
    Children = {first, second}
    Owner = owner
    Cancellers = {canceller}
    Null = null
PROPERTY
    CancelSticks
CHECK_DEADLOCK FALSE
