---------------------------- MODULE MCCampaigns ----------------------------
(* A campaign with up to three tiers over two amounts: a third tier, and   *)
(* the second of two equal ones, must be refused.  Reorder requests of up  *)
(* to four identities can repeat one.                                      *)
EXTENDS CampaignLadder, TLC

CONSTANTS t1, t2, t3

MCTiers == {t1, t2, t3}
MCAmounts == {1, 2}
MCStocks == {NoStock}
MCModes == {"none"}
=============================================================================
