\* Two rules whose days are the Saturday and the Sunday of one weekend; no period is
\* created, so that only the Go code observes them.
CONSTANTS
    YearsShown <- MCYearsShown
    RuleForms <- MCRuleForms
    HandForms <- MCHandForms
    Generators = {"g"}
    MaxRules = 2
    MaxPeriods = 0
    MaxEdits = 0
SPECIFICATION YearSpec
INVARIANT SubstitutesApart
CHECK_DEADLOCK FALSE
