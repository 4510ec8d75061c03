-------------------------- MODULE MCSubscriptions --------------------------
(***************************************************************************)
(* Two services on one node, which has them in different orders over time.  *)
(***************************************************************************)
EXTENDS Subscriptions

CONSTANTS a, b

MCServices == {a, b}
MCHistories == {<< <<a>>, <<b, a>> >>, << <<a, b>>, <<b>> >>}
=============================================================================
