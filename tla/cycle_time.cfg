SPECIFICATION Spec
CONSTANTS
    Cycles <- EdgeCycles
    Offsets <- EdgeOffsets
    MaxSecond = 136
INVARIANTS TypeOK FieldsOfRegister
PROPERTIES UpperSecondExact ExactInSameSecond
