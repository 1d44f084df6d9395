CONSTANTS
  HostIds = {"a", "b"}
  ServiceIds = {"s", "t"}
  Trusts = {35, 85}
  Tiers = {"gold", "bronze"}
SPECIFICATION Spec
INVARIANT CentralityIsFresh
INVARIANT DependenciesAgree
INVARIANT TiersAgree
