------------------------------ MODULE MCFsbArena -----------------------------
EXTENDS FsbArena

CONSTANTS p1, p2, p3

MCPages == {p1, p2, p3}
====
