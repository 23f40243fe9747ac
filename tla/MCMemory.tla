----------------------------- MODULE MCMemory -----------------------------
(* What the model-checked instances share: addresses as sets of bits and the
   frames of the allocator. *)
EXTENDS Integers

MC_Zero == {}
MC_PA0 == {}
MC_NoFrame == {-1}

Frames(n) == {{15 + i} : i \in 1 .. n}

\* The address n, a multiple of 4K.
Bits(n) == {b \in 12 .. 20 : (n \div 2^b) % 2 = 1}

\* Bits 13 and 14 are what one and two index bits of two entries cover.
MC_align_down(p, s) == {b \in p : b >= 12 + s}

Addresses(frames, targets) ==
    frames \cup {{}} \cup {MC_align_down(p, s) : p \in targets, s \in 0 .. 2}

\* The allocator hands out the first free frame.
FirstFree(frames, used) ==
    LET free == frames \ used
    IN  {f \in free : \A g \in free : \E b \in f : \A c \in g : b <= c}
===========================================================================
