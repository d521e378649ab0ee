SPECIFICATION FairSpec
CONSTANTS
  Protocols = {2, 3}
  Reports = {"succeeded", "misfit"}
  Commands = {}
  Capacity = 2
  PageSize = 1
  MaxPages = 2
  MaxItems = 2
  MaxMail = 1
  MaxFaults = 2
CHECK_DEADLOCK FALSE
PROPERTY ReportReachesHome
PROPERTY WorkerLearnsVerdict
PROPERTY MailArrives
