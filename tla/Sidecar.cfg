CONSTANTS
  first = first
  again = again
  main = main
  None = None
  Starts = {first, again}
SPECIFICATION FairSpec
INVARIANTS ShellInv NoStrayTree
PROPERTIES NewInstanceKept CrashReported
