SPECIFICATION Spec
CONSTANTS
    Sources <- EnumPrograms
    MaxFrames = 16
INVARIANT EveryCallRight
