---------------------------- MODULE MCTableView -----------------------------
(* Two tables whose rows have the same keys, of which one is read-only.    *)
EXTENDS TableView

MCReferenced == {<<"accounts", 1>>}
=============================================================================
