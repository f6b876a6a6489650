---------------------------- MODULE MCTcUplink ----------------------------
(* An instance of TcUplink for TLC: two satellites share a file, one does *)
(* not sign, and the counter wraps after three numbers.                   *)
EXTENDS TcUplink, TLC

CONSTANTS s1, s2, s3, plain, shared, own

FilesOf == (s1 :> shared) @@ (s2 :> shared) @@ (s3 :> own)
SmallLimit == ("tc" :> 4) @@ ("ioFail" :> 1) @@ ("damage" :> 1) @@ ("delete" :> 1)
                @@ ("restart" :> 2)
=============================================================================
