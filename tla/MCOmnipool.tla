---------------------------- MODULE MCOmnipool ----------------------------
(* Constants for the runs of Omnipool.                                     *)
EXTENDS Omnipool, TLC

CONSTANTS A, B

MCAssets == {HDX, A, B}

MCReserve == (HDX :> 30) @@ (A :> 40) @@ (B :> 24)

MCPrice == (HDX :> 700) @@ (A :> 1150) @@ (B :> 1000)

AllThree == <<HDX, A, B>>

HdxAndA == <<HDX, A>>

MCTradabilities == {{}, {"ADD", "REMOVE"}}
===========================================================================
