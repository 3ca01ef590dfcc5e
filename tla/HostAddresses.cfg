\* Every list of up to three of nine entries, and texts at the parser's boundaries.
CONSTANTS
  eth = eth
  wlan = wlan
  a = a
  b = b
  c = c
  Interface = eth
  NoAddress = noAddress
  Lists <- MCLists
  Texts <- MCTexts
  IntMax = 999
SPECIFICATION Spec
INVARIANTS
  AddressesRight
  VerdictsRight
\* A call that has returned does nothing more.
CHECK_DEADLOCK FALSE
