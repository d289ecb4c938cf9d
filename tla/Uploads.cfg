\* A call at any time, while the file grows, is rewritten, replaced and deleted.
CONSTANTS
  Calls = {c1}
  Writers = {"append", "rewrite", "replace", "delete"}
  Lengths <- ThreeFiles
  MaxLength = 3
  MaxRetries = 2
SPECIFICATION UploadSpec
INVARIANTS
  UploadTypeOK
PROPERTIES
  StoresSnapshot
  ChunksFromFile
