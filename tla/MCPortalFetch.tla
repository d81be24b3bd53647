--------------------------- MODULE MCPortalFetch ---------------------------
\* Values for PortalFetch that a configuration file cannot write.
EXTENDS PortalFetch, TLC

CONSTANTS r1, r2, r3, r4, w1, w2, w3

RowWords == (r1 :> {w1}) @@ (r2 :> {w2}) @@ (r3 :> {w2, w3}) @@ (r4 :> {w1, w3})
SortedWords == <<w1, w2, w3>>
\* w2 brings in w3, but w3 not w1: the first group was looked at before.
WordGroups == <<{w1, w3}, {w2, w3}>>
AskedFor == {{}, {w2}}
Lists == {<<>>, <<r1, r3, r2>>}

Live(kinds) ==
  {s \in SetupType : /\ s.kind \in kinds /\ s.live /\ s.client = FALSE}
\* A demo connector, one with a client of its own, one without a credential,
\* and all the live ones.
AllSetups ==
  {s \in Live(Kinds) : s.key /\ (s.kind = "ngo" => ~s.sized)}
    \cup {[kind |-> k, sync |-> m, client |-> TRUE, live |-> FALSE, key |-> FALSE,
           style |-> "next_page", sized |-> TRUE] : k \in Kinds, m \in BOOLEAN}
    \cup {[kind |-> k, sync |-> m, client |-> FALSE, live |-> l, key |-> FALSE,
           style |-> "has_more", sized |-> TRUE] :
            k \in Kinds, m \in BOOLEAN, l \in BOOLEAN}
=============================================================================
