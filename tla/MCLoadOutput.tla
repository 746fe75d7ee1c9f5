----------------------------- MODULE MCLoadOutput -----------------------------
EXTENDS LoadOutput

Healthy == [voltage |-> "normal", margin |-> "ample", overcurrent |-> FALSE]

MCSamples ==
  {Healthy}
  \cup {[Healthy EXCEPT !.voltage = v] : v \in {"low", "recovering", "high", "over"}}
  \cup {[Healthy EXCEPT !.margin = m] : m \in {"some", "slight", "none"}}
  \cup {[Healthy EXCEPT !.overcurrent = TRUE],
        [voltage |-> "low", margin |-> "some", overcurrent |-> TRUE],
        [voltage |-> "low", margin |-> "none", overcurrent |-> FALSE]}
===============================================================================
