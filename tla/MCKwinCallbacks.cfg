SPECIFICATION FairSpec
CONSTANTS
  Capacity = 2
  MaxCallbacks = 4
  MaxRequests = 2
INVARIANTS
  Inv
  MessagesAccounted
PROPERTIES
  InboxIsServed
  ImplementsMailbox
