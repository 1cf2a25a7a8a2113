------------------------- MODULE MCPlanConstruction -------------------------
(* Environments and requests of PlanConstruction for TLC.                   *)
EXTENDS PlanConstruction, TLC

CONSTANTS p1, p2

Environment(backend, fp64, usm, built, supports, path, known, first, installed) ==
    [backend |-> backend, fp64 |-> fp64, usm |-> usm, built |-> built, supports |-> supports,
     path |-> path, libraryKnown |-> known,
     holds |-> [f \in Files |-> [d \in Directories |->
                  IF d = "first" THEN first ELSE IF d = "installed" THEN installed ELSE "good"]]]

\* Every device and every build; every state of the modules in the
\* directories, on the device whose provider has the longer checks; and the first
\* of two directories, or of one named twice, in every state.
AllEnvironments ==
    {Environment(b, fp64, usm, built, supports, <<>>, TRUE, "missing", "good") :
        b \in {"cuda", "cpu", "opencl"}, fp64, usm, supports \in BOOLEAN, built \in SUBSET Files}
    \union
    {Environment("cuda", TRUE, TRUE, Files, TRUE, path, known, first, installed) :
        path \in {<<"first">>, <<"", "first">>, <<"first", "">>},
        known \in BOOLEAN, first, installed \in Statuses}
    \union
    {Environment("cpu", TRUE, TRUE, Files, TRUE, path, TRUE, first, "good") :
        path \in {<<"first", "second">>, <<"first", "first">>}, first \in Statuses}

Request(preferred, valid, double, lengths, oversized) ==
    [preferred |-> preferred, valid |-> valid, double |-> double, lengths |-> lengths,
     oversized |-> oversized]

\* The first plan asks for anything, with an axis of length 1, one that is a product
\* of radices, one of another prime and one that has both kinds of factors; the
\* second plan may share a module with it.
AllRequests ==
    p1 :> {Request(preferred, TRUE, FALSE, <<22, 12>>, {2}) :
              preferred \in Providers \union {"automatic"}}
          \union {Request("portable_sycl", TRUE, FALSE, <<1, 11>>, {}),
                  Request("portable_sycl", TRUE, FALSE, <<7, 13>>, {2})}
          \union {Request(preferred, TRUE, TRUE, <<12>>, {}) :
                    preferred \in {"automatic", "fftw"}}
          \union {Request("automatic", FALSE, FALSE, <<12>>, {})}
    @@ p2 :> {Request(preferred, TRUE, FALSE, <<12>>, {}) : preferred \in {"cufft", "fftw"}}
=============================================================================
