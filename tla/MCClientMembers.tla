-------------------------- MODULE MCClientMembers --------------------------
(***************************************************************************)
(* The instance of ClientMembers for TLC.  A session that the service      *)
(* closed before it replied, and a packet that could not be unpacked, each *)
(* double what is left to explore; the runs look no further when there are *)
(* more than MaxFailures of the two together (a wire has neither).         *)
(***************************************************************************)
EXTENDS ClientMembers

CONSTANT MaxFailures   \* bound

Unheard == {s \in DOMAIN sessions : sessions[s].unheard}

Undecoded == UNION {endpoints[e].undecoded : e \in DOMAIN endpoints}

FewFailures == Cardinality(Unheard) + Cardinality(Undecoded) <= MaxFailures

=============================================================================
