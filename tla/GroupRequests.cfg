\* Two threads, two operations, two groups, three calls: two at a time and a
\* third while threads of both may be running.  A process that died, or has
\* made its calls, stops.
CONSTANTS
    Callers = {c1, c2}
    Ops = {add, exit}
    Groups = {g1, g2}
    MaxCalls = 3
    Unanswered = Unanswered
SPECIFICATION RequestSpec
INVARIANTS
    AnswerIsOwn
    AnswerIsFresh
CHECK_DEADLOCK FALSE
