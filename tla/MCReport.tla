------------------------------ MODULE MCReport ------------------------------
(***************************************************************************)
(* Three units, two of one package, on a table of two slots and a terminal *)
(* that is dragged between a height for two names and one for none.        *)
(***************************************************************************)
EXTENDS Report

CONSTANTS a, b, c

MCLabel(u) ==
  IF u \in {a, b} THEN [origin |-> "registry", package |-> <<"zlib">>]
    ELSE [origin |-> "project", package |-> <<>>]
=============================================================================
