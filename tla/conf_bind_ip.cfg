\* set_bind_ip, then get_bind_ip, after a start.
SPECIFICATION StartupSpec
CONSTANTS
  Line <- OneLine
  Asked = {"bind_ip"}
  Input <- Inputs
  Word <- Words
  Nothing = ""
  Number <- ToNumber
  Absolute <- ToAbsolute
  MaxLines = 0
  MaxCalls = 2
  Argv <- CommandLines
  Attached <- Options
  Unknown = {"-x"}
  NoPath = "NULL"
  Enough <- AtLeast3
  MaxAsks = 1
INVARIANTS BindIpIsAnswered
