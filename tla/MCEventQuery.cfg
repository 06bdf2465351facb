SPECIFICATION QuerySpec
CONSTANTS
    FirstYear = 2023
    LastYear = 2025
    Zone <- MCZone
    YearIn <- MCYearIn
    MonthIn <- MCMonthIn
    DateIn <- MCDateIn
    BadDate = BadDate
    UnknownZone = UnknownZone
    RowId = {1, 2, 3}
    Row <- MCRow
    RowDay <- MCRowDay
    Input <- MCInput
    NotANumber = NotANumber
    EnumValue = {0, 1}
    IntBits = 16
CHECK_DEADLOCK FALSE
INVARIANTS
    WholeDaysAskedFor
    WalkSeesAll
    WalkInOrder
