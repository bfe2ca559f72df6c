\* The command line "-c f g".
SPECIFICATION StartupSpec
CONSTANTS
  Line <- OneLine
  Asked = {}
  Input <- Inputs
  Word <- Words
  Nothing = ""
  Number <- ToNumber
  Absolute <- ToAbsolute
  MaxLines = 0
  MaxCalls = 0
  Argv <- CommandLines
  Attached <- Options
  Unknown = {"-x"}
  NoPath = "NULL"
  Enough <- AtLeast3
  MaxAsks = 1
INVARIANTS ConfFileIsTheGivenOne
