\* One check after the other, no component changes.
SPECIFICATION HealthSpec
CONSTANT
    MaxChanges = 0
INVARIANT
    AnyOutageReported
