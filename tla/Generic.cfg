SPECIFICATION Spec
CONSTANTS
    Sources <- Programs
    MaxFrames = 16
INVARIANTS GenericTypeOK InstancesUnique CallsSettled CallsRight ReturnsOwn
PROPERTIES TemplatesKept GenericEnds
