\* Directory operations of several proxies over one key-value database
SPECIFICATION Spec
CONSTANTS
  Setups <- MCSetups
  IdMax = 8
INVARIANT NamesKept
PROPERTY RequestsEnd
