------------------------------- MODULE TrustGraph -------------------------------
(***************************************************************************)
(* The graph of trust that GET /graph and GET /graph/json show: a node for   *)
(* every row of node_ratings, a link from a key to the author of the events  *)
(* it has voted on. Pure queries, over                                       *)
(*   author - author[e]: the public_key of event e                           *)
(*   votes  - the rows of impact, with fields by, ev and value               *)
(*   trust  - trust[k]: trust_score in node_ratings, for the keys with a row *)
(* SQL and the hash maps of the code leave ties open: an answer is any       *)
(* element of a set.                                                         *)
(***************************************************************************)
EXTENDS Integers, SequencesExt

CONSTANT Unsigned  \* public_key is NULL

-----------------------------------------------------------------------------
(* Links.                                                                     *)

Cast(author, votes, s, t) ==
    {v \in votes : v.by = s /\ author[v.ev] = t}

\* The weight is (pos - neg) / total brought to 0..1, that is pos / total.
Link(author, votes, s, t) ==
    LET cast == Cast(author, votes, s, t)
    IN [source |-> s, target |-> t, pos |-> Cardinality({v \in cast : v.value}),
        total |-> Cardinality(cast)]

Links(author, votes) ==
    LET pairs == {Link(author, votes, s, t) : s \in {v.by : v \in votes} \ {Unsigned},
                                              t \in {author[v.ev] : v \in votes} \ {Unsigned}}
    IN {l \in pairs : l.source # l.target /\ l.total > 0}

Heavier(l, m) == l.pos * m.total > m.pos * l.total

\* load_graph: every row, in no given order, and every link.
FullGraph(author, votes, trust) == [order |-> SetToSeq(DOMAIN trust), links |-> Links(author, votes)]

-----------------------------------------------------------------------------
(* load_graph_filtered.                                                       *)

\* The orders in which ORDER BY trust_score DESC may list a set of keys.
Orders(keys, trust) ==
    {o \in Bijection(1..Cardinality(keys), keys) :
        \A i, j \in DOMAIN o : i < j => trust[o[i]] >= trust[o[j]]}

\* The choices of at most max links of each source, the heaviest ones.
Strongest(links, max) ==
    LET from(s, ls) == {l \in ls : l.source = s} IN
    {some \in SUBSET links : \A s \in {l.source : l \in links} :
        /\ Cardinality(from(s, some)) = Min({max, Cardinality(from(s, links))})
        /\ \A l \in from(s, some) : \A m \in from(s, links) \ some : ~Heavier(m, l)}

Beside(k, links) == {l.target : l \in {l \in links : l.source = k}}
                      \cup {l.source : l \in {l \in links : l.target = k}}

\* Keys to visit at a depth; their order is the one of a hash map.
Pairs(keys, d) == LET s == SetToSeq(keys) IN [i \in DOMAIN s |-> <<s[i], d>>]

\* Slip: the nodes at the limit are expanded.
VisitPastLimit(s, links, limit) ==
    LET k   == Head(s.queue)[1]
        d   == Head(s.queue)[2]
        new == IF d > limit THEN {} ELSE Beside(k, links) \ s.seen
    IN IF s.queue = <<>> THEN s
       ELSE [queue |-> Tail(s.queue) \o Pairs(new, d + 1), seen |-> s.seen \cup new]

\* One turn of the breadth-first search, whose queue holds pairs of a key and its depth.
Visit(s, links, limit) ==
    LET k   == Head(s.queue)[1]
        d   == Head(s.queue)[2]
        new == IF d >= limit THEN {} ELSE Beside(k, links) \ s.seen
    IN IF s.queue = <<>> THEN s
       ELSE [queue |-> Tail(s.queue) \o Pairs(new, d + 1), seen |-> s.seen \cup new]

\* The keys seen when the queue is empty: every one of at most n nodes enters it once.
Visited(center, n, links, limit) ==
    LET search[i \in 0..n] == IF i = 0 THEN [queue |-> <<<<center, 0>>>>, seen |-> {center}]
                              ELSE Visit(search[i - 1], links, limit)
    IN search[n].seen

\* SelectSeq for membership in a set, in a form that the proofs can unfold.
Kept(s, keep) ==
    LET kept[n \in 0..Len(s)] == IF n = 0 THEN <<>>
                                 ELSE IF s[n] \in keep THEN Append(kept[n - 1], s[n])
                                 ELSE kept[n - 1]
    IN kept[Len(s)]

\* The graph around the first node; a depth of 0 keeps no link.
Near(g, limit) ==
    LET seen == Visited(Head(g.order), Len(g.order), g.links, limit)
    IN [order |-> Kept(g.order, seen),
        links |-> {l \in g.links : limit > 0 /\ l.source \in seen /\ l.target \in seen}]

Among(links, keys) == {l \in links : l.source \in keys /\ l.target \in keys}

\* q: min_score, max_links and depth (a negative one when none is asked for).
Filtered(author, votes, trust, q) ==
    LET keys   == {k \in DOMAIN trust : trust[k] >= q.minScore}
        chosen == Strongest(Among(Links(author, votes), keys), q.maxLinks)
        whole  == [order : Orders(keys, trust), links : chosen]
    IN IF keys = {} THEN {[order |-> <<>>, links |-> {}]}
       ELSE IF q.depth < 0 THEN whole ELSE {Near(g, q.depth) : g \in whole}

\* GET /graph/json cuts the list of nodes and drops the links of the others.
Limited(g, limit) ==
    IF Len(g.order) <= limit THEN g
    ELSE LET first == SubSeq(g.order, 1, limit)
         IN [order |-> first, links |-> Among(g.links, {first[i] : i \in DOMAIN first})]

\* ... after it has left out the nodes below min_priority, and not their links;
\* q.passing: the keys that have the priority asked for.
Prioritised(g, passing) == [g EXCEPT !.order = Kept(@, passing)]

GraphJson(author, votes, trust, q) ==
    {Limited(Prioritised(g, q.passing), q.limit) : g \in Filtered(author, votes, trust, q)}

=============================================================================
