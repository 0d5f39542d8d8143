------------------------------- MODULE MCDebate -------------------------------
(* A small instance of DebateEngine for TLC: numbers with three significant  *)
(* bits in place of the 53 of a double.                                      *)
EXTENDS DebateEngine

ThreeBits == {m * 2^e : m \in 0 .. 7, e \in 0 .. 3}

\* The number with three bits that is nearest to 0.7 is 6/8; a share rounds to it
\* from half-way between 5/8 and 6/8, since 6 is even as the last bit of the
\* double 0.7 is.
ThreeBitThreshold == [num |-> 11, den |-> 16]

=============================================================================
