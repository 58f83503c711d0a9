CONSTANTS
  c1 = c1
  s1 = s1
  v1 = v1
  v2 = v2
  m1 = m1
  NoOne = NoOne
  Kind <- ChatAndVision
  Requests <- ChatAndVisionRequests
  Faults = {"backend_error", "worker_timeout", "outer_timeout", "disconnect"}
SPECIFICATION DeadlineSpec
INVARIANTS OnlyTimedOutChatLeaks OneReaderPerWorker StrayWorkIsAbandoned ForeignReplyIsOfALateChat
PROPERTY AdmittedIsAnswered
CHECK_DEADLOCK FALSE
