CONSTANTS
    YearsShown <- MCYearsShown
    RuleForms <- MCRuleForms
    HandForms <- MCHandForms
    Generators = {"g"}
    MaxRules = 1
    MaxPeriods = 2
    MaxEdits = 0
SPECIFICATION YearSpec
PROPERTY SecondPeriodIsHarmless
CHECK_DEADLOCK FALSE
