SPECIFICATION Spec
CONSTANTS
  Protocols = {2, 3}
  Reports = {"failed", "misfit"}
  Commands = {"stop", "abandon"}
  Capacity = 2
  PageSize = 2
  MaxPages = 2
  MaxItems = 2
  MaxMail = 2
  MaxFaults = 1
INVARIANT TypeOK
INVARIANT AckedReportIsHome
INVARIANT CursorsInOrder
INVARIANT MailOnceInOrder
PROPERTY ImplementsAgreement
CHECK_DEADLOCK FALSE
