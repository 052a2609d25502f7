--------------------------- MODULE MCDiscoverCatalog ---------------------------
(***************************************************************************)
(* Three runs of seed.py: two with the same data, and one that puts a new  *)
(* photo in front of the section's first, which shifts the ids behind it.  *)
(***************************************************************************)
EXTENDS DiscoverCatalog, Sequences

CONSTANTS v1, again, v2

Section(category, section, photos) ==
    {[category |-> category, section |-> section, index |-> i,
      asset |-> photos[i]] : i \in DOMAIN photos}

MCRows == [r \in Runs |->
    Section("home", "kitchen", IF r = v2 THEN <<"loft", "oak">> ELSE <<"oak", "tile">>)
    \cup Section("garden", "main", <<"patio">>)]
MCAssets == [r \in Runs |-> {c.asset : c \in MCRows[r]}]
=============================================================================
