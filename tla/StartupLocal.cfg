SPECIFICATION Spec
CONSTANTS
  Commands <- MCCommands
  Worlds <- MCWorlds
  Model <- MCModel
  Node = "n"
  Labelled <- MCLabelled
  Work <- MCWork
INVARIANT LocalWorkOnly
CHECK_DEADLOCK FALSE
