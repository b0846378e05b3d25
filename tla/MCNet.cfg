SPECIFICATION Spec
INVARIANTS  PacketsRight OwnAddress AnswersRight SocketsRight 
CHECK_DEADLOCK FALSE
