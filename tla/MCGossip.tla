----------------------------- MODULE MCGossip -----------------------------
\* Three clients in a row: the two ends hear of each other through the middle.
EXTENDS Gossip

CONSTANTS a, b, c

Clients == {a, b, c}
Row == {<<a, b>>, <<b, c>>}
=============================================================================
