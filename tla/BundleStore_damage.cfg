SPECIFICATION Spec
CONSTANTS
  m1 = m1
  m1x = m1x
  m2 = m2
  a = a
  b = b
  None = None
  Garbage = Garbage
  Manifest <- MCManifest
  Blob <- MCBlob
  VersionOf <- MCVersionOf
  FilesOf <- MCFilesOf
  Fault = {"pointer", "manifest", "blob", "seen"}
INVARIANTS SeenCoversHeld
PROPERTIES PutRepairs
CHECK_DEADLOCK FALSE
