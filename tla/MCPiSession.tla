------------------------------ MODULE MCPiSession ------------------------------
(***************************************************************************)
(* PiSession on small instances.                                           *)
(***************************************************************************)
EXTENDS PiSession

CONSTANTS c1, c2

TwoConns == {c1, c2}

\* Two decimals can be asked for: bytes 0 and 1; 2 stands for ':'.
TwoDigits == {0, 1}

OtherBytes == {2}

AskBound == c1 :> 3 @@ c2 :> 2
================================================================================
