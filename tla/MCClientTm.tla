----------------------------- MODULE MCClientTm -----------------------------
(* An instance of ClientTm for TLC.  Serial: two satellites whose sync words *)
(* overlap.  Tcp: one satellite keeps its native id on the wire, the other   *)
(* does not; one telecommand is for neither.                                 *)
EXTENDS ClientTm, TLC

CONSTANTS near, far
Syncs == (near :> <<0, 1>>) @@ (far :> <<1, 2>>)
Lengths == (near :> 4) @@ (far :> 5)
SumCrc(bytes) == FoldSeq(+, 0, bytes) % 3

CONSTANTS flight, engineering, short, long, stray
WireIds == (flight :> 68) @@ (engineering :> 67)
FrameSizes == (short :> 3) @@ (long :> 4) @@ (stray :> 3)
FrameIds == (short :> 68) @@ (long :> 67) @@ (stray :> 1)
SmallLimit == ("tm" :> 2) @@ ("tc" :> 2) @@ ("ioFail" :> 1) @@ ("interrupt" :> 1)
=============================================================================
