SPECIFICATION Spec
CONSTANTS
  Sorted <- MCSorted
  Up <- MCUp
  First <- MCFirst
  May <- MCMay
  LinkTo <- MCLinkTo
  Names <- MCNames
  KeyName = {}
  Long = {"/root/.bashrc"}
  MayHoldKey = {"/root/.ssh/id"}
  UserOrder <- MCUsers
  Always = {"root"}
  In <- MCIn
  Globbed <- MCGlobbed
  Candidates <- MCCandidates
  MaxChanges = 2
  MaxFaults = 1
CHECK_DEADLOCK FALSE
INVARIANTS TypeOK CopyMatchesRecord  NothingTwice 
