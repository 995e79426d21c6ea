CONSTANTS
    Programs <- MCPrograms
    Disassembly <- MCDisassembly
SPECIFICATION Spec
INVARIANTS CacheIsTransparent Unambiguous OnlyFloatStops AgreesWithDisassembly
    ImmediatesMatchFormat
