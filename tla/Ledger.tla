------------------------------- MODULE Ledger --------------------------------
(***************************************************************************)
(* What processing a chain of finalized blocks promises: the ledger moves  *)
(* from one height to the next in one indivisible step, which executes the *)
(* block on the world the previous one left and appends its outputs.       *)
(***************************************************************************)
EXTENDS Integers, Sequences

CONSTANTS
  CommitOp,          \* the marker that ends the outputs of a block
  InitialWorld,      \* the world before the first block
  Execute(_, _)      \* executing a block: [world, outputs, ...]

VARIABLES
  chain,   \* the finalized blocks, a sequence of sequences of transactions
  height,  \* the height of the last block applied
  world,   \* the stored state
  log      \* the stored outputs

vars == <<chain, height, world, log>>

Init == height = 0 /\ world = InitialWorld /\ log = <<>>

ApplyBlock ==
  /\ height + 1 \in DOMAIN chain
  /\ LET run == Execute(world, chain[height + 1])
     IN  /\ height' = height + 1
         /\ world' = run.world
         /\ log' = Append(log \o run.outputs, CommitOp)
  /\ UNCHANGED chain

Spec == Init /\ [][ApplyBlock]_vars /\ WF_vars(ApplyBlock)
SafeSpec == Init /\ [][ApplyBlock]_vars
=============================================================================
