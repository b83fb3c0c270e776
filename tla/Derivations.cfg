SPECIFICATION Spec
CONSTANTS
    null = null
    undefined = undefined
    none = null
    config <- MCConfig
INVARIANTS PagesShowTheRun AnalysisIsSound DeliveryRulesHold WireIsSound
CHECK_DEADLOCK FALSE
