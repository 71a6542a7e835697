----------------------------- MODULE MCListings -----------------------------
(***************************************************************************)
(* A small instance of Listings for TLC.                                   *)
(***************************************************************************)
EXTENDS Listings

Everything == {<<"customer", "entries">>, <<"customer", "PENDING">>, <<"customer", "SETTLED">>,
               <<"admin", "PENDING">>, <<"admin", "FAILED">>}
=============================================================================
