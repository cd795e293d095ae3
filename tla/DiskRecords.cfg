\* Two records, two values.
SPECIFICATION Spec
CONSTANTS
  Keys = {k1, k2}
  Values = {v1, v2}
  Absent = Absent
  Torn = Torn
  None = None
PROPERTIES ImplementsRecordStore
