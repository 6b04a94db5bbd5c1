---------------------------- MODULE MCSspiFilter ----------------------------
(* Handshakes of every length, two of which are followed by blocks that are  *)
(* too long, and messages of two buffers, for TLC.                           *)
EXTENDS SspiFilter

Package(schannel, legs, extra) == [schannel |-> schannel, legs |-> legs, extra |-> extra]

SomePackages ==
    {Package(FALSE, 1, 2), Package(FALSE, 2, 0), Package(FALSE, 3, 1), Package(FALSE, 4, 2),
     Package(TRUE, 4, 1)}

Shapes == {<<1, 2>>}
=============================================================================
