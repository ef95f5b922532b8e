---------------------------- MODULE MCDataServer ----------------------------
(* Workloads on which TLC checks DataServer. *)
EXTENDS DataServer, TLC

CONSTANTS w1, w2, a, b, c, v1, v2

Threads == {w1, w2}
Payloads == {v1, v2}

Put(r, l, v)     == [op |-> "PUT", row |-> r, col |-> l, old |-> NULL, new |-> v]
Cput(r, l, o, n) == [op |-> "CPUT", row |-> r, col |-> l, old |-> o, new |-> n]
Get(r, l)        == [op |-> "GET", row |-> r, col |-> l, old |-> NULL, new |-> v1]
Delete(r, l)     == [op |-> "DELETE", row |-> r, col |-> l, old |-> NULL, new |-> v1]
List             == [op |-> "LIST", row |-> a, col |-> c, old |-> NULL, new |-> v1]

RowA == {a}
RowsAB == {a, b}
ColC == {c}
ColAC == {a, c}

\* Writers and readers of two keys; no name is both a row and a column.
Puts == {Put(a, c, v1), Put(a, c, v2), Put(b, c, v1), Get(a, c)}

\* Every operation on two keys of one row.  A PUT of (a, c) puts another Cell under
\* the key, one of (a, a), a column named like its row, writes in place, and a
\* DELETE frees the Cell: each may come between a CPUT's read and its lock.
All == {Put(a, c, v1), Put(a, a, v1), Cput(a, a, NULL, v1), Cput(a, a, v1, v2),
        Cput(a, c, v1, v2), Delete(a, c), Get(a, c), List}

\* Where the code deviates: two CPUTs of an absent key, a CPUT and a PUT of one
\* key, and a DELETE that is replayed from the log.
CreateTwice == {Cput(a, c, NULL, v1), Cput(a, c, NULL, v2)}
PutAndCput  == {Put(a, c, v1), Cput(a, c, v1, v2), Get(a, c)}
PutAndDelete == {Put(a, c, v1), Delete(a, c)}

Symm == Permutations(Threads)
=============================================================================
