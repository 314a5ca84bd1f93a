------------------------------ MODULE MCHttpPool -------------------------------
EXTENDS HttpPool, TLC

\* Jobs, connections and ports are interchangeable.
Symmetry == Permutations(Job) \cup Permutations(Conn) \cup Permutations(Port)
===============================================================================
