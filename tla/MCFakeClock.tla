----------------------------- MODULE MCFakeClock -----------------------------
\* A timeout and an interval on one clock, with two advances that may overlap.
EXTENDS FakeClock

CONSTANTS a, b
=============================================================================
