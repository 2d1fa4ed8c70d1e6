SPECIFICATION Spec
CONSTANTS
  Models = {}
  Radix = 4
  RawTypes = {1, 2, 3, 4, 5, 6, 7, 8, 9, 10, 11, 12, 13, 14, 22, 23, 24, 25, 26, 27, 28, 29, 30, 31, 32}
  RawFlags = {0, 8192, 16416}
  RawExternalTypes = {0, 100, 101, 102, 103, 107, 109, 110, 111, 112, 116}
  StoredTexts = {"json", "prose"}
INVARIANTS
  FieldsAsWritten
  FlexKeepsShape
  GeneratedReaderAgrees
  ListingSuffices
  SlotsDistinct
