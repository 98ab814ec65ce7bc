---- MODULE MCDigestBuckets ----
EXTENDS DigestBuckets

\* A date, and an instant of the same day.
MCDeadlines == {[dateOnly |-> TRUE, at |-> 1], [dateOnly |-> FALSE, at |-> 30]}
====
