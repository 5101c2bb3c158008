SPECIFICATION Spec
CONSTANT MaxPid = 3
INVARIANTS SurvivorsDetached QuietTreeDies
PROPERTIES AbortedReturns
