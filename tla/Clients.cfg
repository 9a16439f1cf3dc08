CONSTANTS
  Callers = {c1, c2, c3}
  failure_threshold = 2
  open_cooldown = 2
  MaxFailures = 4
  Searches <- MCSearches
  max_attempts = 4
  base_delay = 1
  max_delay = 3
  Alias <- MCAlias
  Questions <- MCQuestions
  Unset = Unset
  Open = Open
SPECIFICATION Spec
INVARIANTS RequestsAreAllowed ScenesAreFaithful CatalogAnswersAreExact
PROPERTIES LateFailuresDoNotProlong TrippedCircuitRecovers
