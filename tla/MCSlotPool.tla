----------------------------- MODULE MCSlotPool -----------------------------
\* TLC instance of SlotPool: four goroutines on a pool resized between 0 (taken as
\* one) and three slots, so that a resize can serve several waiters at once.
EXTENDS SlotPool

MCLimits == {0, 1, 3}
=============================================================================
