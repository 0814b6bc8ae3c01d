----------------------------- MODULE MCWorkspace -----------------------------
(* A workspace of two files: a.pony in the main package, and b.pony in a     *)
(* package it uses, in the directory below; with Nested FALSE in the main    *)
(* package too.                                                              *)
EXTENDS Requests, TLC

CONSTANTS Nested, here, other, a, b, top, sub, nameA, nameB, t1, t2, bad

MCDir(f) == IF Nested /\ f = b THEN sub ELSE top
MCAbove(f) == IF Nested /\ f = b THEN <<sub, top>> ELSE <<top>>
MCBase(f) == IF f = b THEN nameB ELSE nameA
MCUses(p) == IF p = top /\ Nested THEN {top, sub} ELSE {p}
MCErrorsIn(text) == 2

\* The two texts that compile differ in nothing but their names.
TextSymmetry == Permutations({t1, t2})
==============================================================================
