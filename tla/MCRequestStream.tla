---------------------------- MODULE MCRequestStream ----------------------------
EXTENDS RequestStream, TLC

\* Request ids are interchangeable.
Symmetry == Permutations(Req)
===============================================================================
