CONSTANTS
  Manifests <- MCManifests
  NoDrop = TRUE
SPECIFICATION Spec
INVARIANT ParsedAsSpecified
