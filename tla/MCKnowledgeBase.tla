--------------------------- MODULE MCKnowledgeBase ---------------------------
(* Instance of KnowledgeBase: a new, an older and a used database, the last with *)
(* a path k1 - k2 - k3 of votes; a file of other events and one in the way.      *)
EXTENDS KnowledgeBase, TLC
CONSTANTS k1, k2, k3, v1, v2

MCColumn == <<"truth_events.public_key", "impact.public_key", "node_metrics.quality_index">>

Signed(k) == [by |-> k, detected |-> NoRow]
NoEvents  == [e \in EventId |-> NoRow]
Votes     == {[id |-> v1, by |-> k1, ev |-> 1, value |-> TRUE],
              [id |-> v2, by |-> k2, ev |-> 2, value |-> FALSE]}

Used   == [cols |-> ToSet(MCColumn), locale |-> "ru", votes |-> Votes,
           events |-> [NoEvents EXCEPT ![1] = Signed(k2), ![2] = Signed(k3)]]
Older  == [cols |-> {MCColumn[2]}, locale |-> NoRow, votes |-> {}, events |-> NoEvents]
Unused == [cols |-> {}, locale |-> NoRow, votes |-> {}, events |-> NoEvents]
MCDatabase == {Used, Older, Unused}

Elsewhere == [events |-> [NoEvents EXCEPT ![3] = Signed(k1)], closed |-> TRUE,
              votes |-> {[id |-> v1, by |-> k3, ev |-> 3, value |-> TRUE]}]
InTheWay  == [events |-> [NoEvents EXCEPT ![2] = Signed(k1), ![3] = Signed(k1)],
              votes |-> {}, closed |-> TRUE]
MCArchive == {Elsewhere, InTheWay}

\* At, above and below the threshold; and with replies to questions nobody asked.
Given(valid, unknown, other) == [valid |-> valid, unknown |-> unknown, other |-> other]
MCReply == {Given(4, 0, 0), Given(4, 0, 14), Given(5, 0, 0), Given(6, 3, 0), Given(7, 7, 0), Given(7, 7, 14)}

Ask(depth, limit, passing) ==
    [minScore |-> 0, maxLinks |-> 1, depth |-> depth, limit |-> limit, passing |-> passing]
MCQuery == {Ask(-1, 2, Key), Ask(1, 3, Key), Ask(0, 3, Key), Ask(2, 2, {k1, k3}),
            [Ask(1, 3, Key) EXCEPT !.minScore = 1]}
==============================================================================
