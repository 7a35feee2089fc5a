SPECIFICATION Spec
CONSTANTS
  m1 = m1
  m2 = m2
  a = a
  b = b
  Owner = Owner
  Other = {u}
  Theirs = {m1}
  Manifest = {m1, m2}
  Blob = {a, b}
  FilesOf <- MCFilesOf
  None = None
  Empty = Empty
  Garbled = Garbled
INVARIANTS TypeOK BlobsComeFirst PayloadsHaveBlobs
PROPERTIES PushCopies
