SPECIFICATION Spec
CONSTANTS
  MaxPins = 4
  MaxStrokes = 1
INVARIANTS
  TypeOK
  EmptyNoteIsEdited
