SPECIFICATION RFairSpec
CONSTANTS
  m1 = m1
  m2 = m2
  a = a
  b = b
  c = c
  None = None
  Garbage = Garbage
  Manifest <- MCManifest
  Blob <- MCBlob
  VersionOf <- MCVersionOf
  FilesOf <- MCFilesOf
  Fault = {"pointer", "seen"}
INVARIANTS TypeOK CurrentIsWhole MemoryIsDisk VisitorFailsOnlyWhenSuperseded
PROPERTIES ImplementsRegister Reconverges EventuallyServed
