SPECIFICATION Spec
CONSTANTS
  Nodes = {n1, n2}
  Unlinkers = {n1}
  Openers = {n2}
  ExtraAttempts = 1
  Tops <- MCTops
  Faults = {"mkdir", "access", "rename", "meta", "version", "hostdir", "rmtree"}
  Crashing = {n1}
INVARIANTS
  CacheIsTrueUnlessOvertaken
  GivesUpOnlyIfDisturbed
PROPERTIES
  CreatesAtomically
  CreatesReturn
