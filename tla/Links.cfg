CONSTANTS
  Skeletons <- MCSkeletons
  MaxFd = 7
  MaxExtra = 2
  MaxApp = 1
  MaxAttach = 2
SPECIFICATION Spec
INVARIANTS
  OwnDescriptorsOnly
  DescriptorsAccounted
  AttachmentsAccounted
