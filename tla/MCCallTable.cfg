SPECIFICATION Spec
CONSTANTS
  Caller = {c1, c2}
  Copy = {b1}
  Text <- MCText
  Empty <- MCEmpty
SYMMETRY CallerSymmetry
INVARIANTS TypeOK SlotIsLive OneInside OwnTranslation
PROPERTIES TranslatedUnloads
