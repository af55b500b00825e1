\* Every pair of rules over every kind of condition, records of both adapters.
CONSTANTS
    Outputs <- TwoOutputs
    Labels <- TwoLabels
    Matches <- SomeMatches
    Events <- Emitted
    RuleLists <- TwoRules
    MaxSPN = 3
    Reserved <- Names
    Name = "fleet"
    Respelled <- Cases
    FileRecords <- SomeFileRecords
    FeedRecords <- SomeFeedRecords
SPECIFICATION IntakeSpec
INVARIANTS
    RouteCorrect
    OnlyReportedSPNRoutes
    FieldsSurvive
    SeverityNotLowered
    PrefixIsOurs
