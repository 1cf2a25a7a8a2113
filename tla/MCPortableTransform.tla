------------------------ MODULE MCPortableTransform ------------------------
(* Shapes of PortableTransform for TLC.                                     *)
EXTENDS PortableTransform

\* Powers of two, products of 2, 3, 5 and 7, and several axes of both kinds.
RadixShapes ==
    {<<1>>, <<8>>, <<6>>, <<9>>, <<10>>, <<12>>, <<7>>, <<2, 3>>, <<3, 4>>, <<5, 1>>, <<2, 3, 2>>}

\* Lengths with a prime factor above 7, alone and between other axes.
BluesteinShapes == {<<11>>, <<2, 11>>, <<11, 3>>}
=============================================================================
