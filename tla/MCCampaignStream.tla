-------------------------- MODULE MCCampaignStream --------------------------
\* Model values, bounds and the symmetry of workers for CampaignStream.
EXTENDS CampaignStream, TLC

Symmetry == Permutations(Workers) \cup Permutations(Recipients)
=============================================================================
