---------------------------- MODULE MCSyncEngine ----------------------------
(***************************************************************************)
(* Instances of SyncEngine for TLC.                                        *)
(***************************************************************************)
EXTENDS SyncEngine

\* Behaviours with one failure, of the process or of the connection.
OneFailure == crashes + drops <= 1

\* Behaviours of two connections that stream two revisions each, the second of
\* a pair on the path the user edits: how segment Acks outlive a connection.
TwoSegments ==
    /\ \A r \in 1..Len(log) : /\ ~log[r].own /\ log[r].body = r
                             /\ log[r].path \in UserPaths <=> r % 2 = 0
    /\ Len(log) <= 2 * (drops + 1)
    /\ conn # "off" => Len(log) = 2 * (drops + 1)
    /\ \A row \in outbox : ~row.sent
=============================================================================
