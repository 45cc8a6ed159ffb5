\* One invoice, delivered twice, one fault of every kind.
SPECIFICATION Spec
CONSTANTS
    Invoices = {i1}
    Configured <- StoredPolicy
    Submissions <- SampleSubmissions
    Answers <- SampleAnswers
    TopK = 1
    Levels = {0, 1}
    MaxDeliveries = 2
    Faults <- EveryFault
    MaxFaults = 1
INVARIANTS
    TypeOK
    AnswersAgreeWithMoney
    PaidOnGrounds
    PromptShowsWhatApplies
PROPERTIES
    AnswersStand
    OutcomeIsRecorded
