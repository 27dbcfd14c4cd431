----------------------------- MODULE MCIndexStore -----------------------------
(* IndexStore for TLC: two executables, and a built-in that is indexed first. *)
EXTENDS IndexStore

CONSTANTS awk, grep, echo, bge, nomic

\* One order of priority: built-ins first, and an executable of a high rank that
\* comes and goes and shifts the other.
OneOrder == {<<echo, grep, awk>>}
=============================================================================
