SPECIFICATION Spec
CONSTANTS
  i1 = i1
  i2 = i2
  c1 = c1
  c2 = c2
  None = None
  Task = {0, 1, 2}
  Configured = {0, 1}
  Item = {i1, i2}
  Channel = {c1, c2}
  Time = {1, 2}
  First <- MCFirst
  DueAt <- MCDueAt
  Program <- MCProgram
  Minutes = 2
  MaxInputs = 3
INVARIANTS TypeOK RunningIsActive NothingLeftOn PlaysProgram RestartsAreCaused
PROPERTIES RunEnds RequestsTaken
