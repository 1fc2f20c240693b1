SPECIFICATION FairSpec
CONSTANTS
  Commands <- MCCommands
  Worlds <- MCWorlds
  Model <- MCModel
  Node = "n"
  Labelled <- MCLabelled
  Work <- MCWork
INVARIANTS ConversionsTotal OutputsCovered RunsAsAsked
PROPERTY Settles
CHECK_DEADLOCK FALSE
