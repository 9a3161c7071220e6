------------------------- MODULE MCExternalInvites -------------------------
(* Instances of ExternalInvites for TLC.                                    *)
EXTENDS ExternalInvites, TLC

CONSTANTS r1, r2, d1, d2

OneRow == {r1}
TwoRows == {r1, r2}
OneInstance == {d1}
TwoInstances == {d1, d2}
RowSymmetry == Permutations(Row)

ManualAndAutomatic == {"MANUAL", "AI_AUTO"}
FromTheForm == {"AI_FORM"}

ChangesOfMind == {"withdraw", "downgrade", "switch", "optOut", "click"}
Endings == {"close", "signUp", "verify"}

Works == {TRUE}
MayFail == {TRUE, FALSE}
============================================================================
