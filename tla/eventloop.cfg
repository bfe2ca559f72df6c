\* Two threads and the functions they queue steer a loop; spurious wakeups included.
SPECIFICATION LoopSpec
CONSTANTS
  c1 = c1  c2 = c2  dispatcher = dispatcher  start = start  None = None  NoOne = NoOne
  Caller = {c1, c2, dispatcher}
  Loop = start
  Inserter = {c1, c2}
  Dispatcher = dispatcher
  Batch = 2
  MaxInserts = 3
INVARIANTS TypeOK NoSleepThroughContinue QueueTypeOK OnceInOrder NoneStranded
PROPERTIES ContinueIsHeard EndIsHeard
