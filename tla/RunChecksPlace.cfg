CONSTANTS
  NumNodes = 4
  Jobs = {1, 2, 3, 4, 5, 6}
  Job <- MCJob
  Queue <- MCQueue
  Account <- MCAccount
  CloudUsers <- MCCloudUsers
  Places = 1
  NameOk = {}
  MaxInstalling = 2
  Now = 50
  Limit <- MCLimit
  Licences <- MCLicences
  Reporting = {"lic"}
  Ded <- MCDed
  MaxDue = 3
  Situations <- MCSituations
  Statuses = {"unknown", "running"}
SPECIFICATION Spec
INVARIANT NoMismatch
