SPECIFICATION Spec
CONSTANTS
  j1 = j1
  j2 = j2
  j3 = j3
  t1 = t1
  t2 = t2
  m1 = m1
  m2 = m2
  base = base
  config = config
  Jobs = {j1, j2, j3}
  Tags = {t1, t2}
  Listing <- InOrder
  Manifests = {m1, m2}
  Blobs = {base, config}
  Layers <- SharedLayers
  Config <- Configs
  NoManifest = NoManifest
  Images <- SharedImages
  MaxWorkers = 2
  Deletions = TRUE
  MaxNetErrors = 1
  MaxFailures = 1
INVARIANTS
  TypeOK
  PushAccepted
  SerialAgrees
PROPERTIES
  MirrorsSource
SYMMETRY JobSymmetry
CHECK_DEADLOCK FALSE
CONSTRAINT OneError
VIEW LiveState
