--------------------------- MODULE MCDatasetBuffers ---------------------------
(* Small instances of DatasetBuffers.                                        *)
EXTENDS DatasetBuffers, TLC

CONSTANTS c1, c2

\* The writers of a dataset one after the other, and deletions beside them.
OneWriter == (c1 :> (AllOps \ {"configure", "delete"})) @@ (c2 :> {"delete"})
\* One appender, and everything that is not a writer beside it.
AppenderAlone == (c1 :> {"append"}) @@ (c2 :> {"tick", "manual", "configure", "delete"})
Workloads == {OneWriter, AppenderAlone}
AppendAndTick == {(c1 :> {"append", "tick"})}
=============================================================================
