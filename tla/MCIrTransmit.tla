---------------------------- MODULE MCIrTransmit ----------------------------
EXTENDS IrTransmit

\* Codes of every width up to 16 digits: none of the bits, the lowest, the
\* highest, alternating ones, the sign of an int.
MCCodes ==
  {[digits |-> d, word |-> w \cap 0 .. 4 * d - 1] :
     d \in {1, 4, 8},
     w \in {{}, 0 .. 63, {2 * i : i \in 0 .. 31}, {0, 3, 12, 15, 23}, {0, 2, 5, 9, 14, 30}}}
  \cup {[digits |-> 6, word |-> {1, 23}], [digits |-> 8, word |-> {31}],
        [digits |-> 11, word |-> {0, 33, 41}], [digits |-> 16, word |-> {7, 34, 63}]}

\* A frame that ends in the idle gap, one of odd length, one with durations too
\* wide for an item, one with a 0 in it, one that does not fit the line.
MCCaptures ==
  {<<>>, <<9000, 4500, 560, 0>>, <<560, 1690, 560>>, <<560, 40000, 9, 65535>>,
   <<560, 0, 560, 1690>>, <<9000, 4500, 560, 1690, 560, 560>>,
   <<9000, 4500, 560, 1690, 560, 1690, 560, 560, 560, 0>>}
=============================================================================
