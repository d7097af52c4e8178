-------------------------------- MODULE Layer --------------------------------
(***************************************************************************)
(* Executing the transactions of a block on top of the stored world        *)
(* (execution/src/layer/mod.rs, Layer::execute).                           *)
(*                                                                         *)
(* A transaction is <<account, nonce>>.  The world has a key for the next  *)
(* nonce of every account, and one key, Rest, for all else that executing  *)
(* transactions changes: it counts them modulo 3, so that applying one     *)
(* twice shows.  A transaction that is executed leaves one output, which   *)
(* says nothing about Rest; one that is dropped leaves none.               *)
(***************************************************************************)
EXTENDS Integers, Sequences, SequencesExt, Functions

CONSTANTS
  Accounts,  \* the public keys that send transactions
  Rest,      \* the key that stands for everything but the nonces
  MaxNonce   \* bound: the nonces of transactions are 0 .. MaxNonce

Transactions == Accounts \X (0 .. MaxNonce)
Genesis == [k \in Accounts \cup {Rest} |-> 0]

\* Mutant: a nonce from the future is accepted.
ApplyAnyLater(acc, tx) ==
  IF tx[2] < acc.world[tx[1]]
    THEN acc
    ELSE [world   |-> [acc.world EXCEPT ![tx[1]] = tx[2] + 1, ![Rest] = (@ + 1) % 3],
          outputs |-> Append(acc.outputs, tx),
          nonces  |-> [a \in DOMAIN acc.nonces \cup {tx[1]} |->
                         IF a = tx[1] THEN tx[2] + 1 ELSE acc.nonces[a]]]

\* One turn of the loop: prepare drops a transaction whose nonce is not the
\* account's next one, and otherwise stores the incremented nonce.
Apply(acc, tx) ==
  IF tx[2] # acc.world[tx[1]]
    THEN acc
    ELSE [world   |-> [acc.world EXCEPT ![tx[1]] = tx[2] + 1, ![Rest] = (@ + 1) % 3],
          outputs |-> Append(acc.outputs, tx),
          nonces  |-> [a \in DOMAIN acc.nonces \cup {tx[1]} |->
                         IF a = tx[1] THEN tx[2] + 1 ELSE acc.nonces[a]]]

\* The pending overlay on top of world, the outputs, and processed_nonces.
ExecuteBlock(world, transactions) ==
  FoldLeft(Apply,
           [world |-> world, outputs |-> <<>>, nonces |-> [a \in {} |-> 0]],
           transactions)
=============================================================================
