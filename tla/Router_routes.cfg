SPECIFICATION Spec
CONSTANTS
  Methods = {GET, POST}
  Texts = {"a", "b"}
  Names = {"x", "y"}
  Empty = ""
  MaxParts = 2
  MaxRoutes = 3
CHECK_DEADLOCK FALSE
INVARIANTS BestRouteAnswers MissesAreShadowed ParamsBoundUnlessRenamed
