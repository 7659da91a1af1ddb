CONSTANTS
  a = a
  b = b
  p1 = p1
  p2 = p2
  h1 = h1
  v1 = v1
  v2 = v2
  wlOld = wlOld
  wlNew = wlNew
  Workers <- TwoWorkers
  Images <- TwoImages
  Hashes <- OneHash
  Hash <- Alike
  Versions <- TwoVersions
  Whitelists = {wlOld, wlNew}
  Releases <- ThreeReleases
SPECIFICATION Spec
INVARIANT OwnPrompt
INVARIANT OwnWhitelist
INVARIANT KnownFields
