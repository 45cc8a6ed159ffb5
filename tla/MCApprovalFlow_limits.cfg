\* One invoice, delivered once, no fault.
SPECIFICATION Spec
CONSTANTS
    Invoices = {i1}
    Configured <- StoredPolicy
    Submissions <- SampleSubmissions
    Answers <- SampleAnswers
    TopK = 1
    Levels = {0, 1}
    MaxDeliveries = 1
    Faults <- NoFaults
    MaxFaults = 0
INVARIANT AgentObeysEveryLimit
