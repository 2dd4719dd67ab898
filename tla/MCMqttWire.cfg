CONSTANTS
  TxLen = 130
  RxLen = 13
  Filters <- MCFilters
  Inbound <- MCInbound
  Requests <- MCRequests
  MaxPacketId = 3
  Verification = TRUE
  MaxSent = 2
SPECIFICATION Spec
INVARIANTS
  PacketsIntact
  MessagesHandled
  RequestsUnderstood
