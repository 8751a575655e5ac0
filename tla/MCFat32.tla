------------------------------- MODULE MCFat32 -------------------------------
(***************************************************************************)
(* Two volumes: one with clusters of a sector in a chain that is out of    *)
(* order, one with clusters of two sectors.  Both directories hold deleted *)
(* entries, a label, and an end mark in the middle of a cluster.           *)
(***************************************************************************)
EXTENDS Fat32

Empty == <<0, 0>>

\* FAT in sectors 1 to 3, cluster c in sector c + 2; the chain is 2, 4, 3.
Single == (0 :> <<1, 1, 3, 1, 2>>) @@ (1 :> <<14, 14>>) @@ (2 :> <<4, 14>>) @@ (3 :> <<3, 0>>)
    @@ (4 :> <<1, 3>>) @@ (5 :> <<5, 0>>) @@ (6 :> <<4, 2>>)
    @@ [s \in 7 .. 11 |-> Empty]

\* FAT in sectors 1 and 2, cluster c in sectors 2c - 1 and 2c; the chain is 3, 2.
Double == (0 :> <<1, 1, 2, 2, 3>>) @@ (1 :> <<14, 14>>) @@ (2 :> <<14, 2>>)
    @@ (3 :> <<7, 5>>) @@ (4 :> <<0, 8>>) @@ (5 :> <<3, 4>>) @@ (6 :> <<1, 6>>)
    @@ [s \in 7 .. 11 |-> Empty]

MCVolumes == {Single, Double}
=============================================================================
