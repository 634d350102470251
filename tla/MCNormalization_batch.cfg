SPECIFICATION Spec
CONSTANTS
  Registry <- MCRegistry
  Events <- MCEvents
  Batches <- MCBatches
  MaxBatch = 4
INVARIANTS TypeOK PrimaryIsBest NothingLost IndependentlyCorroborated LaterDisagreementKnown
