SPECIFICATION Spec
CONSTANTS
  Types = {time, send}
  ByteTypes = {time}
  MaxStarts = 2
  MaxRequests = 3
  MaxReposts = 2
INVARIANTS OwnReply OneReplyOnItsWay
PROPERTIES Answered
