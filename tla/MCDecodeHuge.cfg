SPECIFICATION Spec
CONSTANTS
  Models = {}
  Radix = 4
  RawTypes = {9}
  RawFlags = {0}
  RawExternalTypes = {109}
  StoredTexts = {"json", "prose", "hugeNumber"}
INVARIANT UnparsedTextKept
