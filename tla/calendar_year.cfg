SPECIFICATION Spec
CONSTANTS
    MonthToDays <- RealMonthToDays
    HoursPerDay = 24
INVARIANTS
    WindowIsTheBirthday
    EndDateEndsTheBirthday
