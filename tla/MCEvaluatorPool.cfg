SPECIFICATION PoolSpec
CONSTANT Accounts = {a1, a2, a3, a4, a5}
INVARIANTS
  PoolConsistent
  SelectionIndependent
  SelectionFillsPanel
PROPERTY ImplementsRegistry
