----------------------------- MODULE MCSettings -----------------------------
EXTENDS Settings
\* Seconds before the end of a leap February and minutes before that of a year.
Ends  == { At(20, 2, 28, 23, 59, 50), At(18, 12, 31, 23, 57, 10) }
\* A number that a uint8 cuts, and a lower one of another type, which an answer
\* to an unbound device reads as one of type 0.
Named == { [type |-> 0, num |-> 300], [type |-> 2, num |-> 1] }
=============================================================================
