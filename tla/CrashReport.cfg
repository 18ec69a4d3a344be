SPECIFICATION Spec
CONSTANTS
    RTC_BUF_SIZE = 3
    Main = main
    Others = {}
    MaxChars = 9
    MaxResets = 3
CHECK_DEADLOCK FALSE
INVARIANTS TypeOK ReportIsTail
