SPECIFICATION MCSpec
CONSTANTS
    Value <- SixValues
    Reserve = 2
    ShrinkAbove = 2
CHECK_DEADLOCK FALSE
INVARIANT KeyValueIsKeyEqualsValue
