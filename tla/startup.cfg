\* Every command line and every file of up to four of the lines, then a call of the conf and a
\* second call of get_light_shadow.
SPECIFICATION FairStartup
CONSTANTS
  Line <- Lines
  Asked = {"port", "db_ip", "db_username", "log_file_path"}
  Input <- Inputs
  Word <- Words
  Nothing = ""
  Number <- ToNumber
  Absolute <- ToAbsolute
  MaxLines = 4
  MaxCalls = 1
  Argv <- CommandLines
  Attached <- Options
  Unknown = {"-x"}
  NoPath = "NULL"
  Enough <- AtLeast3
  MaxAsks = 2
INVARIANTS StateNamesWhatIsMissing LastWordCounts
INVARIANTS ServedIsReady AnswersAgree HelpStartsNothing
PROPERTIES EveryStartEnds
