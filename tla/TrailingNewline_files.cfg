SPECIFICATION Spec
CONSTANTS
    Texts = {a, b}
    Blank = Blank
    MaxLines = 4
    Files <- AllFiles
INVARIANTS
    TypeOK
    ResultIsTrimmed
    FileKept
