CONSTANTS
  a = a
  b = b
  w1 = w1
  w2 = w2
  s1 = s1
  s2 = s2
  NoOne = NoOne
  Nobody = Nobody
  Events = {1, 2}
  Recipients <- OneRecipient
  Workers <- TwoWorkers
  Senders <- OneSender
  Setups = {"deliver", "no_rule"}
  Marks = {"failed"}
  MaxFailures = 1
SPECIFICATION FairSpec
PROPERTIES
  EventsEnd
  NotesEnd
