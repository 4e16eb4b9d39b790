----------------------------- MODULE MCFlashLog -----------------------------
EXTENDS FlashLog
CONSTANTS a, b
\* One body of one cell and one of two: a cursor may land inside the second.
SizeMixed == [i \in Id \cup {Junk} |-> IF i = b THEN 2 ELSE 1]
\* The same where the second is that of a gathering without new addresses.
SizeJunk  == [i \in Id \cup {Junk} |-> IF i = Junk THEN 2 ELSE 1]
=============================================================================
