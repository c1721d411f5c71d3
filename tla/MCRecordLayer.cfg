SPECIFICATION Spec

CONSTANTS
  MAX_TRANSPORT_PAYLOAD = 20
  PADDING_BLOCK = 4
  LARGE_PADDING_BLOCK = 2
  LARGE_PADDING_THRESHOLD = 8
  MAX_RECORDS = 6
  MAX_PLAINTEXT_BYTES = 60
  REKEY_RECORDS = 3
  REKEY_BYTES = 30
  Clients = {"native", "browser"}
  Payloads <- ShortAndLong
  MaxSealed = 4
  MaxFaults = 2

CHECK_DEADLOCK FALSE

INVARIANT NonceFresh
INVARIANT ReadFaithfully
INVARIANT KeysInStep
