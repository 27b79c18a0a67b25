SPECIFICATION Spec
CONSTANTS
  Requests = {r1, r2, r3}
  Calls <- FewCalls
  None = None
INVARIANTS
  EntriesAreInFlight
  NewestIsCancellable
PROPERTIES
  ImplementsPromise
  StopAbortsOnlyChat
