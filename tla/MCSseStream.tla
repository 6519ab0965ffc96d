------------------------------ MODULE MCSseStream ------------------------------
EXTENDS SseStream

Script(events, ends) == [events |-> events, ends |-> ends]

Small == Event(1, TRUE)
Large == Event(2, TRUE)
TooMuch == Event(4, TRUE)
Unfit == Event(1, FALSE)

\* nothing at all; one, two or three events, one of them at the limit, beyond
\* it, or not to be written
MCScripts ==
    {Script(events, ends) :
        events \in {<<>>, <<Small>>, <<Large, Small>>, <<Small, Unfit, Small>>, <<Small, TooMuch, Small>>},
        ends \in {"return", "throw"}}
=============================================================================
