---------------------------- MODULE MCUpdateText ----------------------------
\* UpdateText for a small configuration of all three kinds of module.
EXTENDS UpdateText

MCLayouts == <<SpaceAfterEach(2), OneValue, SpaceBetween(2)>>
=============================================================================
