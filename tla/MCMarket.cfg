CONSTANTS
  pass = pass
  watch = watch
  request = request
  g1 = g1
  Worker = {pass, watch, request}
  Background = {pass, watch}
  Watch = {watch}
  Past = {g1}
  Limit = 2
  Share = 1
  HistoryLimit = 2
  Tries = 2
  MaxMatches = 2
  MaxSnapshots = 2
  MaxActs = 1
SPECIFICATION Spec
INVARIANTS
  AllowanceInv
  NothingIsPassedOver
CHECK_DEADLOCK FALSE
