\* A copy of a plugin that is disabled and enabled, its calls overtaken by the end
\* of its life; a stream started and stopped by two callers, a unit of two lives.
CONSTANTS
    a = a
    Units = {a}
    MaxLives = 2
    EndsLate = FALSE
    MaxLife = 2
    MaxCalls = 2
SPECIFICATION SessionsSpec
CONSTRAINT NoneStrayed
CHECK_DEADLOCK FALSE
INVARIANTS
    OneSession
    ParticipantIsLive
    NothingKept
    AnswerKept
PROPERTIES
    AdmissionKept
    FlowsEnd
