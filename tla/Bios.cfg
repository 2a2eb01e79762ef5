SPECIFICATION BiosSpec
CONSTANTS
    KEYBUF_SIZE = 3
    Keys = {"escape", "none", "up", "[", "A", "w"}
    Esc = "escape"
    NoKey = "none"
    Chars = {"esc", "nul", "[", "A"}
    EscChar = "esc"
    Plain <- MCPlain
    Special <- MCSpecial
    GuestKeys = {"w", "escape"}
    MaxTyped = 3
    MaxWritten = 1
    RawPerDay = 7
    TickPerDay = 3
    SetTicks = {0, 2}
    MAX_X = 2
    MAX_Y = 3
    PAGES = 2
    Programs <- MCPrograms
    Codes = {97, 10, 13, 8, 7}
    Letters = {97, 129}
    Attributes = {1}
    Windows <- MCWindows
    StorePlaces = {0, 1, 2}
INVARIANTS PeekIsPromise TypingIsKept ClockRuns MidnightTold TerminalInStep
PROPERTIES ReadEnds ImplementsKeyQueue ImplementsDisplay
