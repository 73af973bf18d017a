SPECIFICATION CacheSpec
CONSTANTS
  Objs <- FiveObjs
  KeyOf <- FiveKeys
  Prio <- FivePrio
  MaxElems = 3
  CacheClients <- DeletingClient
INVARIANTS NoUseAfterFree
CHECK_DEADLOCK FALSE
