----------------------------- MODULE MCCatalog -----------------------------
EXTENDS Catalog

MCPlaces == {<<"defaultdb", "public">>, <<"d", "public">>}
=============================================================================
