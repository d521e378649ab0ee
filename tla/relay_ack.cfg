SPECIFICATION FairSpec
CONSTANTS
  Protocols = {3}
  Reports = {"succeeded", "misfit"}
  Commands = {}
  Capacity = 2
  PageSize = 1
  MaxPages = 2
  MaxItems = 2
  MaxMail = 1
  MaxFaults = 1
CHECK_DEADLOCK FALSE
PROPERTY HomeLearnsAck
