SPECIFICATION Spec
CONSTANTS
  p1 = p1
  p2 = p2
  Passwords <- MCPasswords
  Files <- MCFiles
  AdminFile = "admin"
  NoPassword = NoPassword
  None = None
  MaxTasks = 3
  MaxStarts = 2
  MaxFaults = 1
INVARIANTS
  ServesWhatIsUnlocked
  MacaroonsFollowPassword
PROPERTIES
  ServedAgain
  InitAnswers
CHECK_DEADLOCK FALSE
