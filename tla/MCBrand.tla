------------------------------ MODULE MCBrand ------------------------------
(* Values of Brand's constants for TLC: a domain and a person, and what is found of them. *)
EXTENDS Brand

MCTermType == [t \in Terms |-> IF t = "acme.com" THEN "domain" ELSE "person"]
MCHits == {<<"acme.com", "fts">>, <<"acme.com", "dnstwist">>, <<"acme.com", "certstream">>, <<"Ann", "fts">>}
MCBroad == {<<"acme.com", "fts">>}
=============================================================================
