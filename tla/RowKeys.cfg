CONSTANTS
  s1 = s1
  s2 = s2
  Schemas = {s1, s2}
  Names = {t1}
  Columns = {"a", "b"}
  Cols <- TheCols
  Pk <- ThePk
  NoTable = NoTable
  NoKey = NoKey
  MaxAsks = 4
  MaxEdits = 2
SPECIFICATION Spec
INVARIANTS
  KeysAddressRows
