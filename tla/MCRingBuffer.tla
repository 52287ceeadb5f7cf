---------------------------- MODULE MCRingBuffer ----------------------------
(* Model values for the ring buffer: messages of 1, 2 and 4 bytes, one that *)
(* is empty and one that is longer than the block.                          *)
EXTENDS RingBuffer

CONSTANTS m0, m1, m2, m4, big

MCMessages == {m0, m1, m2, m4, big}

MCLenOf == [m \in MCMessages |->
              CASE m = m0 -> 0 [] m = m1 -> 1 [] m = m2 -> 2 [] m = m4 -> 4
                [] m = big -> Length + 1]
=============================================================================
