SPECIFICATION Spec
CONSTANTS
    j1 = j1
    j2 = j2
    s1 = s1
    s2 = s2
    None = None
    Jobs <- OneJob
    Slots <- TwoSlots
    Prompts <- NotPrompt
INVARIANTS
    PollingContinues
CHECK_DEADLOCK FALSE
