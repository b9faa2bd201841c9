SPECIFICATION ExtSpec
CONSTANTS
    PipeSize = 1
    RequestSize <- MCRequestSize
    AnswerSize = 3
    ExtraSize = 2
INVARIANTS
  NoChildIsLeft
  NoStandstill
PROPERTIES
  CallIsReported
  CallEnds
