SPECIFICATION PolicySpec

CONSTANTS
    Names <- AllNames
    Passwords <- AllPasswords
    Common <- Blocked
    NameAlphabet = {"a", "4", "o", "-"}
    Alphabet = {"a", "A", "@", "o", "-", " ", "bell"}
    MinName = 1
    MaxName = 2
    MinLength = 3
    MaxLength = 4
    MaxRun = 3
    Longest = 5

CHECK_DEADLOCK FALSE

INVARIANTS
    RunIsFound
    NameIsFound
