------------------------------ MODULE MCCrawl ------------------------------
(* An instance of Crawl for TLC: three activities, two slots, three rows. *)
EXTENDS Crawl

CONSTANTS c1, c2, c3, hostA, hostB

MCClients  == {c1, c2, c3}
MCDomains  == {hostA, hostB}
MCBatch    == <<hostA, hostA, hostA>>
MCRuleSets == {{"home"}}
=============================================================================
