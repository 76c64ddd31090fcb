------------------------------- MODULE MCShares -------------------------------
(* Two builds of two jobsets, one of which has two steps of one start and a *)
(* younger one.                                                             *)
EXTENDS Shares, TLC

CONSTANTS s1, s2, p1, p2

MCNeedsOf  == <<{s1}, {s2}>>
MCJobsetOf == <<p1, p2>>
MCLocalOf  == <<0, 1>>
MCRdepsOf  == s1 :> 0 @@ s2 :> 1
MCRows     == p1 :> {<<1, 1, 1>>, <<2, 1, 1>>, <<3, 2, 1>>} @@ p2 :> {}
MCStartAge == <<1, 0>>
=============================================================================
