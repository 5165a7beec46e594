----------------------------- MODULE MCProcesser -----------------------------
EXTENDS Processer, TLC

CONSTANTS w1, w2, t1, t2, c1

\* Coroutines are interchangeable, so are the other threads, and the workers
\* that are active from the start.
Symmetry == {p @@ q @@ r : p \in Permutations(Coroutines),
                           q \in Permutations(Threads),
                           r \in Permutations(Initial)}
=============================================================================
