---------------------------- MODULE MCTrustLedger ----------------------------
(* Instance of TrustLedger. Scores are tenths; two nodes, one event.           *)
EXTENDS TrustLedger, TLC

MCAverage == {-6, 6}
MCDelta == {-3, 2}

\* What a peer sends, again and again: it distrusts both nodes, prefers to relay
\* to them, and has a later group.
MCBatch ==
    {[ratings |-> [k \in Key |-> [et |-> 1, ef |-> 0, val |-> 2, reused |-> 0, trust |-> -10,
                                  prio |-> 10]],
      group   |-> [row |-> [members |-> {}, avg |-> 0, coherence |-> 0], ts |-> 1],
      metrics |-> [k \in Key |-> [quality |-> 10, prio |-> 10]]]}

MCProcess == {"server", "cli"}
Keys == Permutations(Key)
MCRole == {"observer", "admin"}
==============================================================================
