\* docs/adapters.md: a cursor never advances past records nobody has looked at.
CONSTANTS
    MinRecords = 2
    MaxWrites = 4
    MaxRestarts = 1
SPECIFICATION Spec
PROPERTIES
    NeverPast
