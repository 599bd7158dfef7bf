------------------------------ MODULE MCWsFeed ------------------------------
(* A small instance of WsFeed for TLC: sockets that can fall behind the       *)
(* channel, and filters that take every event, some, and none.                *)
EXTENDS WsFeed

CONSTANTS c1, i1, i2

MCFilters == {[inscription |-> i1, collection |-> FALSE],
              [inscription |-> None, collection |-> TRUE]}

=============================================================================
