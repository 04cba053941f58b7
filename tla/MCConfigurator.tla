--------------------------- MODULE MCConfigurator ---------------------------
(* Instances of Configurator for TLC. *)
EXTENDS Configurator, TLC

CONSTANTS h1, h2, p, q, r, s, h1p, h1q, h1r, h1s, h2p, h2q, h2r, h2s

OwnNames ==
    (<<h1, p>> :> h1p) @@ (<<h1, q>> :> h1q) @@ (<<h1, r>> :> h1r)
    @@ (<<h1, s>> :> h1s) @@ (<<h2, p>> :> h2p) @@ (<<h2, q>> :> h2q)
    @@ (<<h2, r>> :> h2r) @@ (<<h2, s>> :> h2s)

InSlurmOrder == <<p, q, r, s>>
InNameOrder == <<h1p, h1q, h1r, h1s, h2p, h2q, h2r, h2s>>

(* The second cluster has a partition that its own virtual node cannot be  *)
(* named after, and one that is listed behind it.                          *)
TwoAndTwo == (h1 :> {p, q}) @@ (h2 :> {r, s})
OneRefused == {h2r}
=============================================================================
