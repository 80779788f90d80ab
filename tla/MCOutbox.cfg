SPECIFICATION Spec
CONSTANTS
  N = 3
  Channels = {"email", "sms"}
  ChannelOf <- SmsFirst
  Switchable = {"sms"}
  Unsendable = {1}
  Batch = 2
  Candidates = 2
  MaxAttempts = 2
  MaxFaults = 1
INVARIANTS
  TriesAreBounded
PROPERTIES
  SettledStaysSettled
  RowsAreSettled
