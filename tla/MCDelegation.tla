---------------------------- MODULE MCDelegation ----------------------------
(* Instances of Delegation for TLC.                                        *)
EXTENDS Delegation

Row(p, i, e, q) == [provider |-> p, id |-> i, effort |-> e, quality |-> q]

\* One model on two providers and at two efforts, a stronger and an
\* unmeasured model.
AlphaX  == Row("alpha", "x", 1, 1)
AlphaXH == Row("alpha", "x", 2, 1)
BetaX   == Row("beta", "x", 1, 1)
BetaY   == Row("beta", "y", 1, 2)
GammaZ  == Row("gamma", "z", 1, 0)

AllKeys     == {AlphaX, AlphaXH, BetaX, BetaY, GammaZ}
LoopChains  == {<<AlphaX, GammaZ, BetaY, BetaX>>, <<AlphaX, BetaX, AlphaXH, BetaY>>}
SemiKeys    == AllKeys
SemiChains  == {<<AlphaX, BetaX, BetaY>>, <<BetaY, AlphaX, AlphaXH>>,
                <<AlphaX, GammaZ, BetaY>>}
ShortChains == {<<BetaY, AlphaX>>}

\* Four registered models of one provider reach its strike limit with one
\* left and one missing.
Alpha(id) == Row("alpha", id, 1, 1)
StrikeKeys       == {Alpha(id) : id \in {"p", "q", "r", "s", "t"}} \union {BetaY}
StrikeRegistered == StrikeKeys \ {Alpha("q")}
StrikeChains     == {<<Alpha("p"), Alpha("q"), Alpha("r"), Alpha("s"), BetaY,
                       Alpha("t")>>}
=============================================================================
