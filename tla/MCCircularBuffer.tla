-------------------------- MODULE MCCircularBuffer --------------------------
(* A ring of 7 cells, seeks below position 3, datagrams of 1 to 3 bytes:    *)
(* the writer wraps twice, and can lap a reader that is still seeking.      *)
EXTENDS CircularBuffer

MCDatagrams == {1, 3}
MCReadSizes == {1, 2, 3}
=============================================================================
