------------------------------ MODULE MCSupply -----------------------------
(***************************************************************************)
(* Two builds of two blocks; one arrives by hand, one from the feed's host.  *)
(***************************************************************************)
EXTENDS SupplyProperties

MCContents == {<<"a", "a">>, <<"b", "b">>}
MCUploads == {[url |-> None, file |-> <<"a", "a">>]} \cup [url : {"u1"}, file : MCContents]
=============================================================================
