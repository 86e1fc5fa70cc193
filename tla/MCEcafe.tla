------------------------------- MODULE MCEcafe -------------------------------
EXTENDS EcafeRefinement

CONSTANTS m1, m2, w1, w2

\* PCs are interchangeable, and so are controllers: no action and no safety
\* property names one.
PeerSymmetry == Permutations(Machine) \cup Permutations(Controller)
=============================================================================
