---------------------------- MODULE MCLiveConfig ----------------------------
(***************************************************************************)
(* Instances of LiveConfig for TLC.                                        *)
(***************************************************************************)
EXTENDS LiveConfig, TLC

CONSTANTS p1, p2, c1

TwoPropsOnePlain == <<p1, p2, c1>>
OneProps == <<p1>>
Twice == <<p1, p1>>

\* The file of p1 can always be decoded, that of p2 cannot.
DecodableShared == (p1 :> {"good", "missing"}) @@ (p2 :> {"good", "bad"})
AnyContent == (p1 :> {"good", "bad"})
=============================================================================
