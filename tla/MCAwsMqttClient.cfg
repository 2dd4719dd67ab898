CONSTANTS
  Topics = {a, b}
  NumHandlers = 2
  MaxWait = 2
  Applications <- MCApplications
  MaxDepth = 3
  MaxInbox = 1
SPECIFICATION Spec
INVARIANTS
  WriteBufferOwned
  SubscriptionsHandled
  ResubscribedPrefix
  SettledBetweenCalls
PROPERTIES
  BrokenLinkNoticed
