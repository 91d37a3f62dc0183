------------------------------ MODULE MCFinance ------------------------------
\* Finance with the answers of the model TLC chooses from.
EXTENDS Finance

\* The hours of the treasury worker, whose invoice is far off, without an event
\* and from the event that wakes it; and the first half minute of a bridge
\* that bills every ten seconds.
MCSettings == {[interval |-> 9, ready |-> 0, events |-> 0],
               [interval |-> 9, ready |-> 9, events |-> 1],
               [interval |-> 1, ready |-> 9, events |-> 0]}

MCAnswers ==
    [status : {"healthy", "critical"},
     actions : {{}, {Action("throttle_inference", "critical", TRUE)},
                {Action("increase_reserve", "critical", TRUE)},
                {Action("transfer_funds", "critical", TRUE)}}]
=============================================================================
