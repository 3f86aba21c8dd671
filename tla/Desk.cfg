SPECIFICATION FairSpec
CONSTANTS
  n1 = n1
  n2 = n2
  n3 = n3
  alice = alice
  bob = bob
  Node = {n1, n2, n3}
  NoNode = none
  MaxDepth = 3
  Nothing = nothing
  NoPost = noPost
  Lower <- Spellings
  Scenes <- AllScenes
  Instants <- TypedInstants
  MaxPosts = 2
  EditBudget = 2
  WebFaults = 1
  CommandFaults = 1
INVARIANTS TenantHasAdmin UsersApart PasswordIsLast ScopeMatchesRollup SavedIsStored LastWins FilledFormAccepted GroupSentIffTouched
PROPERTIES TreeKeepsNodes EverythingSettles
CHECK_DEADLOCK FALSE
