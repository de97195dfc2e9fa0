SPECIFICATION FairSpec
CONSTANTS
  rebuild = rebuild
  update = update
  Factory = Factory
  None = None
  Uploads = {rebuild, update}
  Revision <- MCRevision
  ImageSize = 2
  Backlog = 1
  MaxBoots = 3
  MaxChallenges = 2
INVARIANTS
  CleanSlate StagedIsCurrent
PROPERTIES
  Atomic UploadEnds
CHECK_DEADLOCK FALSE
