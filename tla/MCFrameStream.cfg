SPECIFICATION StreamSpec
CONSTANTS
  ByteValues = 16
  FirstHigh = 8
  MaximumDomainLength = 2
  HoursWidth = 2
  MinutesWidth = 2
  HourTicks = 4
  MinuteTicks = 2
  LengthWidth = 1
  SignatureLength = 1
  MaximumMinutes = 31
  PartValues = 2
  SymbolValues = 8
  Incoming = {0, 1, 2, 8}
  MaxLength = 8
  Domains <- Offered
  Payloads <- SomePayloads
  Signatures <- SomeSignatures
  Others <- Passed
  MaxClock = 2
  MaxCreated = 1
  MaxSent = 3
CHECK_DEADLOCK FALSE
INVARIANTS
  ReadsWhatWasSigned
  ContractsAgree
  WaitingHelps
  ReadersAgree
  TextReadsAsBytes
  ValidIsSigned
PROPERTIES
  DecisionsStand
  QueueSpec
  QueueIsRead
