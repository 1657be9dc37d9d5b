SPECIFICATION FairSpec
CONSTANTS
  Hosts = {h1}
  Phases = {"RUNNING"}
  Unknown = "UNKNOWN"
  Zero = ""
  None = None
  HubCap = 1
  OutCap = 1
  SubscribeFirst = FALSE
  MaxChanges = 1
  MaxAudit = 2
INVARIANTS TypeOK PublishedIsOnItsWay
PROPERTIES ActionsInOrder HealthReconciles BgReconcilesUnlessLost
