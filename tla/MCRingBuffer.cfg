SPECIFICATION Spec
CONSTANTS
  Value = {a, b, c}
  Default = a
  Capacity = 3
  nullopt = nullopt
INVARIANTS
  TypeOK
  FieldsAgree
PROPERTY ImplementsFifo
