----------------------------- MODULE AppendLog ------------------------------
(* What the audit trail of one execution promises its readers: a sequence    *)
(* without gaps that only grows at its end, a whole chunk at a time, and     *)
(* holds no chunk twice.                                                     *)
EXTENDS Naturals, Sequences

CONSTANTS
    ChunkIds,
    Sizes       \* how many events a chunk may hold

VARIABLE log    \* for each sequence number, the chunk its event came with

Written == {log[i] : i \in 1 .. Len(log)}

AppendInit == log = << >>

Append1(chunk, size) ==
    /\ chunk \notin Written
    /\ log' = log \o [i \in 1 .. size |-> chunk]

AppendNext == \E chunk \in ChunkIds, size \in Sizes : Append1(chunk, size)

AppendSpec == AppendInit /\ [][AppendNext]_log

=============================================================================
