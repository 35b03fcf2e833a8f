SPECIFICATION FeedsSpec
CONSTANTS
    Flow <- GatedFlow
    Terminals = {1}
    Verbs <- ConsoleVerbs
    InCheckout = FALSE
    MaxIntents = 2
    MaxGates = 2
    MaxFaults = 1
    None = None
INVARIANTS
    PageInStep AnswerMeetsItsGate
PROPERTIES
    FeedsProgress
\* The log is bounded and the page may stop reading.
CHECK_DEADLOCK FALSE
