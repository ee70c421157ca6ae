SPECIFICATION OutputSpec
CONSTANTS
    json = json
    markdown = markdown
    Commands = {w1, w2, w3}
    Targets <- JsonThenMarkdown
    Overlap = FALSE
    Before = Before
    Missing = Missing
CHECK_DEADLOCK FALSE
INVARIANTS
    PreviousRecoverable
PROPERTIES
    AllOrNothing
