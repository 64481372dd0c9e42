------------------------------ MODULE MCSources ------------------------------
\* Sources for TLC.  /proc/meminfo as it is today, with other lines in between,
\* and as before Linux 3.14, without MemAvailable.
EXTENDS Sources

MCNumbers == {-2, 0, 1, 4}
MCMisreads == {[l \in Line |-> [f \in Field |-> 0]],
               [l \in Line |-> [f \in Field |-> IF f = 0 THEN 100 ELSE l]]}

MCSteps == {-2, 1}

MCLayouts == {
  <<"total", "free", "available", "buffers", "cached", "other">>,
  <<"total", "other", "free", "available", "other", "buffers", "cached">>,
  <<"total", "free", "buffers", "cached">> }
=============================================================================
