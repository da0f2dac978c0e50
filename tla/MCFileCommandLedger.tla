------------------------ MODULE MCFileCommandLedger ------------------------
EXTENDS FileCommandLedger

\* Commands in the queue at once: an expired command may be evicted while it
\* is still queued and accepted again, so the queue is not bounded by Capacity.
MaxQueue == 2

Bounded == Len(ledger.queue) <= MaxQueue

=============================================================================
