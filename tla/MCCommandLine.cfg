\* Lines of five characters, tokens of three, a program and one argument.
CONSTANTS
    COMMAND = 6
    MAX_STRING = 4
    MAX_ARGS = 2
    Keys = {"a", " ", "(", "+", "1", "/", "CR", "BS", "EOT"}
SPECIFICATION Spec
INVARIANTS
    TypeOK
    OwnText
    LostOnlyByTheLine
PROPERTIES
    ParseEnds
    ImplementsShell
