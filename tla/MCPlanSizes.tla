---------------------------- MODULE MCPlanSizes ----------------------------
(* Requests of PlanSizes for TLC, around the limits of 9-bit sizes and 6-bit *)
(* integers.                                                                *)
EXTENDS PlanSizes

SmoothLengths == {n \in 1..SizeMax :
    \A d \in 2..n : n % d = 0 => \E r \in {2, 3, 5, 7} : d % r = 0}

\* Every length on one axis; on more axes, lengths at each limit, and primes
\* that expand two axes by different amounts.
Edges == {0, 1, 2, 3, 7, 8, 11, 13, 16, 17, 22, 31, 32, 33, 43, 64, 73, 127, 128, 129, 146,
          255, 256, 257, 511}
Shapes == {<<>>, <<2, 2, 2, 2>>} \union [1..1 -> 0..SizeMax] \union [1..2 -> Edges]
    \union [1..3 -> {1, 2, 3, 8, 11, 13, 31, 32}]

SomeRequests ==
    [provider : Providers, lengths : Shapes,
     batch : {0, 1, 2, 3, 4, 7, 31, 32, 255, 256, 511}]
=============================================================================
