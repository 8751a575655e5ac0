------------------------------- MODULE MCVfs --------------------------------
(***************************************************************************)
(* Vfs for TLC: two names, one directory level below the root, "..", and a *)
(* trailing slash.                                                         *)
(***************************************************************************)
EXTENDS Vfs

SomePaths == {<<"a">>, <<"a", "b">>, <<"a", "..", "b">>, <<"a", "">>}

SomeSeeks == {-1, 1}

\* After an access outside a buffer the heap can hold anything; nothing is
\* claimed of what follows it.
NoFaultYet == fault = "none"
=============================================================================
