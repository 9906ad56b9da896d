\* Two services, lists of up to five names, batches of two; two bits for an int32.
\* 2 wraps around to a negative count, 4 to zero.
CONSTANTS
  Names = {web, api}
  MaxInt32 = 1
  Targets <- AroundTheRange
  Unknown = Unknown
  Gone = Gone
  Unread = Unread
  Requests <- UpToFive
  BatchSize = 2
SPECIFICATION Spec
INVARIANTS
  BatchesPartitionTheRequest
  NothingIsMissing
PROPERTIES
  ScaledCountIsRead
  ReadsEachIdentifier
