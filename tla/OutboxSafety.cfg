CONSTANTS
  a = a
  b = b
  w1 = w1
  w2 = w2
  s1 = s1
  s2 = s2
  NoOne = NoOne
  Nobody = Nobody
  Events = {1}
  Recipients <- TwoRecipients
  Workers <- TwoWorkers
  Senders <- TwoSenders
  Setups = {"deliver", "skip", "unrenderable"}
  Marks = {"sent"}
  MaxFailures = 1
SPECIFICATION Spec
INVARIANTS
  OutboxTypeOK
  OneNotePerRecipient
  ProcessedLeavesNote
PROPERTIES
  OnlyProcessedFail
  DeliveredIsRecorded
SYMMETRY Symmetry
