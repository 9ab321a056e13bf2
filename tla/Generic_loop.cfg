\* A function that calls itself where a declaration has the name of the instance.
SPECIFICATION Spec
CONSTANTS
    Sources <- LoopPrograms
    MaxFrames = 16
INVARIANT EveryPassFits
