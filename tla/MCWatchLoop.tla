----------------------------- MODULE MCWatchLoop -----------------------------
\* Two files, each in a project of its own.  The setups of the passing run: hooks and a
\* terminal; a threshold and reporters; related tests in shards; a custom sequencer with
\* hooks and a threshold.
EXTENDS WatchLoop

CONSTANTS u, v, p, q

MCProjectOf == [x \in Units |-> IF x = v THEN q ELSE p]
MCPathOf == [x \in Units |-> x]
MCOwns == {<<MCProjectOf[x], x>> : x \in Units}
MCByHash == SetToSeq(Units)

MCPlain == [bail |-> 0, shard |-> [index |-> 1, count |-> 1], update |-> FALSE,
            watch |-> FALSE, custom |-> FALSE, hooked |-> FALSE, reported |-> FALSE,
            interactive |-> TRUE]
MCHooked == [MCPlain EXCEPT !.hooked = TRUE]
MCBail == [MCPlain EXCEPT !.bail = 1, !.reported = TRUE, !.interactive = FALSE]
MCShard == [MCPlain EXCEPT !.watch = TRUE, !.shard = [index |-> 1, count |-> 2],
                           !.interactive = FALSE]
MCCustom == [MCPlain EXCEPT !.bail = 2, !.custom = TRUE, !.hooked = TRUE, !.interactive = FALSE]

MCSetups == {MCHooked, MCBail, MCShard, MCCustom}
MCOne == {MCPlain}
=============================================================================
