----------------------------- MODULE MCGenetic -----------------------------
(* 16 sections, 4 rooms of 10 seats, 4 slots; sections 1 and 9 share their instructor. *)
EXTENDS GeneticSearch

C16 == 1 .. 16
Halls == 1 .. 4
Slots == 1 .. 4
Ten == [h \in Halls |-> 10]
Eight == [c \in C16 |-> 8]
Teachers == [c \in C16 |-> IF c = 9 THEN 1 ELSE c]
AllPreferred == (1 .. 16) \X Slots

At(n) == <<(n % 4) + 1, (n \div 4) + 1>>     \* the n-th place

(* Two draws: one that places the first half and section 10, and one that places *)
(* the second half and section 1.                                                *)
FirstHalf == [c \in C16 |-> IF c <= 8 THEN At(2 * c - 2) ELSE IF c = 10 THEN At(3) ELSE Nowhere]
SecondHalf == [c \in C16 |-> IF c >= 9 THEN At(2 * c - 17) ELSE IF c = 1 THEN At(14) ELSE Nowhere]
MCFounders == {FirstHalf, SecondHalf}
=============================================================================
