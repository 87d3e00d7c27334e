---------------------------- MODULE MCChangeOutbox ----------------------------
(* Small instances of the change outbox.                                    *)
EXTENDS ChangeOutbox, TLC
CONSTANTS p, q, r, a, b

Modify(path, text) == [kind |-> "modify", path |-> path, old |-> NoPath, text |-> text]
Remove(path) == [kind |-> "remove", path |-> path, old |-> NoPath, text |-> Missing]
Rename(old, path, text) == [kind |-> "rename", path |-> path, old |-> old, text |-> text]

One(change) == [mode |-> "one", changes |-> <<change>>]
Many(changes) == [mode |-> "many", changes |-> changes]

SingleJobs == {One(Modify(p, b)), One(Remove(p))}
BatchJobs == {Many(<<Modify(p, b), Rename(q, r, b)>>)}

FilesThere == [x \in Path |-> IF x = r THEN Missing ELSE a]
WriterSymmetry == Permutations(Writer)
===============================================================================
