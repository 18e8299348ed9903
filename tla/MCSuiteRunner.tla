---------------------------- MODULE MCSuiteRunner ----------------------------
\* A sequential test, a concurrent pair of which one is expected to fail, and a
\* skipped test; and, for one finding, two sequential tests with one name.
EXTENDS SuiteRunner

CONSTANTS a, b, c, d, x, y

MCPosition == [t \in Tests |-> CASE t = a -> 1 [] t = b -> 2 [] t = c -> 3 [] t = d -> 4]
MCOwnNames == [t \in Tests |-> t]
MCOneName == [t \in Tests |-> a]
MCLoaded == [k \in Keys |-> IF k \in {<<a, 1>>, <<c, 1>>, <<d, 1>>} THEN x ELSE NoEntry]
MCAllPolicies == {"immediate", "deferred", "describe"}
MCDescribe == {"describe"}
=============================================================================
