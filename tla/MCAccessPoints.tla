--------------------------- MODULE MCAccessPoints ---------------------------
EXTENDS AccessPoints
\* Addresses of one byte: with a letter in it, of figures, of letters.
Points == {<<42>>, <<56>>, <<222>>}
Nothing == <<0>>
Ours == {<<56>>}
Sound(l, n) == [level |-> l, channel |-> n]
\* Near, and far off on the channels at the ends of the band.
Skies == {[p \in Points |-> IF p = <<42>> THEN Sound(-45, 1) ELSE IF p = <<56>> THEN Sound(-99, 13)
                             ELSE Sound(-101, 14)]}
=============================================================================
