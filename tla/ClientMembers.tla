--------------------------- MODULE ClientMembers ---------------------------
(***************************************************************************)
(* A stub with one member, a pipe or a wire.  Members of a stub share only   *)
(* its release, which shuts down all of them, so that one of either kind is  *)
(* enough to see what the release does to it.                                *)
(***************************************************************************)
EXTENDS PipeClient

CONSTANTS MaxTime, MaxMessages  \* bounds of WireClient

ASSUME WireBoundsAssumption == MaxTime \in Nat /\ MaxMessages \in Nat

VARIABLES
    member,         \* "pipe" or "wire", fixed
    connection, wires, wire_attempts,
    service, wire_sessions, wire_to_service, wire_to_client,
    overlapped, closed_other, stray_value

pipeOnly == <<unreliable, connecting_endpoints, early_endpoints, pipeendpoints, endpoints,
              attempts, to_service, to_client, sessions>>
wireOnly == <<connection, wires, wire_attempts, service, wire_sessions, wire_to_service,
              wire_to_client, overlapped, closed_other, stray_value>>
memberVars == <<vars, wireOnly, member>>

Wire == INSTANCE WireClient WITH
    attempts <- wire_attempts, sessions <- wire_sessions,
    to_service <- wire_to_service, to_client <- wire_to_client

MembersInit == /\ Init /\ Wire!Init /\ member \in {"pipe", "wire"}
               /\ member = "wire" => ~unreliable     \* the pipe's

\* RRClose of the stub.
ReleaseStub == Shutdown /\ Wire!Shutdown /\ UNCHANGED member

MembersNext ==
    \/ member = "pipe" /\ MemberNext /\ UNCHANGED <<wireOnly, member>>
    \/ member = "wire" /\ Wire!MemberNext /\ UNCHANGED <<pipeOnly, member>>
    \/ ReleaseStub

MembersSpec == MembersInit /\ [][MembersNext]_memberVars

-----------------------------------------------------------------------------
\* Every variable of both kinds of member has its type: what is looked up leads
\* to endpoints, connections and sessions that exist (pipeendpoints, connection).
MembersTypeOK == TypeOK /\ Wire!TypeOK /\ member \in {"pipe", "wire"}

\* A wire connection only ever has a value of the session it was connected to.
ValueOfOwnSession == Wire!ValueOfOwnSession

\* A wire is not left with a connection whose other end is gone.
NoDeadConnection == Wire!NoDeadConnection

\* The service ends up with the value that was set last.
LastValueReached == Wire!LastValueReached
=============================================================================
