SPECIFICATION Spec
CONSTANTS
    p1 = p1  p2 = p2
    Proc = {p1, p2}
    tests = tests  lockfile = lockfile
    Rule = {tests, lockfile}
    Waivable = {tests, lockfile}
    LastStep = 2
    StateOf <- TwoSteps
    Due <- DueSteps
    none = none  build = build
    Commands = {none, build}
    Unset = none
INVARIANTS RefereeAudited NothingSlips
PROPERTIES GrantsKept
SYMMETRY Symmetry
