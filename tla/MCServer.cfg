SPECIFICATION Spec
CONSTANTS
  NoIp = NoIp
  None = None
INVARIANTS AdmissionSound WheelSound SessionsAccounted LimiterSound MemorySound FramesIntact WritesFaithful ShutdownSound HostSound
PROPERTIES MpscInOrder
CHECK_DEADLOCK FALSE
