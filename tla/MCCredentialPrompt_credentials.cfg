SPECIFICATION Spec
CONSTANTS
    s1 = s1
    sudo = sudo
    generic = generic
    k1 = k1
    k2 = k2
    e1 = e1
    e2 = e2
    Session <- MCSession
    Prompt <- MCPrompt
    Key <- MCKey
    Expect <- MCExpect
    ExpectOf <- MCExpectOf
    Answers <- MCAnswers
    Safe <- MCSafe
    Persistent <- MCPersistent
    Other = Other
    None = None
    HabitCap = 2
    MaxAsks = 4
    MaxEdits = 2
    MaxRestarts = 1
INVARIANT TypeOK
PROPERTIES  OnlyNewPromptsCount
CHECK_DEADLOCK FALSE
CONSTRAINT MCConstraint
