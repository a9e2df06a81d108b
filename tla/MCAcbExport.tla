----------------------------- MODULE MCAcbExport -----------------------------
(* Small instances of AcbExport for TLC. *)
EXTENDS AcbExport, TLC

CONSTANTS a1, a2, a3, n1, n2, n3

\* Two tracks, one and none, with names of their own.
Disjoint == (a1 :> {n1, n2}) @@ (a2 :> {n3}) @@ (a3 :> {})
\* Two files with a track of the same name.
Shared   == (a1 :> {n1}) @@ (a2 :> {n1})
=============================================================================
