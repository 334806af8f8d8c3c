------------------------------- MODULE MCDataset -------------------------------
(***************************************************************************)
(* Datasets of two files of up to three bytes, two processes.              *)
(***************************************************************************)
EXTENDS DatasetInv

CONSTANTS p, q

Input(sizes, max, format) == [sizes |-> sizes, max |-> max, format |-> format]

\* Two files that share a shard, two that need one each, one to be split,
\* one alone in its iso.
SomeInputs ==
    {Input(<<1, 1>>, 2, "bin"), Input(<<1, 2>>, 2, "tar"), Input(<<3>>, 2, "bin"),
     Input(<<1>>, 1, "iso")}

\* One file of three bytes, two to a shard.
SplitInput == {Input(<<3>>, 2, "bin")}

\* One file of one byte.
OneShardInput == {Input(<<1>>, 1, "iso")}

Symmetry == Permutations(Procs)

\* Bound: only a dataset of bin shards goes on without a source; of the others a
\* process that misses one ends and leaves no file behind.
BinLoses == Unchanged \/ input.format = "bin"

\* Bound: datasets of one file are also built, made and marked before dataset create
\* has written the configuration; of two files no command begins before it.
OneFileEarly ==
    Len(input.sizes) = 1
    \/ \A w \in Procs : At(w, "idle") \/ At(w, "scan") \/ At(w, "status") \/ proc[w].meta # None
==============================================================================
