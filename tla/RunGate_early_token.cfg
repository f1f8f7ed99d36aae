SPECIFICATION Spec
CONSTANTS
  Handler = {h1, h2}
  Gates = 1
  MaxTokens = 1
  MaxStarts = 1
  MaxFaults = 0
CHECK_DEADLOCK FALSE
PROPERTY CompletedIsTerminal
