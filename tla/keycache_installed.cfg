SPECIFICATION MCSpec
CONSTANTS
  Threads = {t1, t2}
  Shapes = {s1, s2, s3}
  Slots = {0, 1, 2, 3, 4, 5}
  Capacity = 1
  None = None
  Keys <- KeysDef
  Blobs <- BlobsDef
  KeyShape <- KeyShapeDef
  Built <- BuiltDef
PROPERTY InstalledKeyIsHeld
