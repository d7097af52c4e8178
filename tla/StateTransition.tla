--------------------------- MODULE StateTransition ---------------------------
(***************************************************************************)
(* Applying finalized blocks to the two authenticated databases of a       *)
(* validator (execution/src/state_transition.rs): the events log and the   *)
(* state, each with its own commit, under crashes and storage errors.      *)
(*                                                                         *)
(* mem is what the process sees, disk what survives a crash; each holds    *)
(*   height  the height in the metadata of the last state commit;          *)
(*   world   the state, a function from keys to values;                    *)
(*   ops     the operations of the events log: outputs and commit markers; *)
(*   commit  the metadata of the last events commit and its location.      *)
(* Locations count from 0, as in the code: location i is ops[i + 1].       *)
(***************************************************************************)
EXTENDS Integers, Sequences

CONSTANTS
  Keys, Values,     \* what the state stores
  KeyOrder,         \* the keys in the order of the code's Key enum
  Outputs,          \* what executing a transaction may append to the log
  CommitOp,         \* the commit operation in the events log
  Bodies,           \* the transaction lists a block may have
  InitialWorld,     \* the state before the first block
  Execute(_, _),    \* Layer::execute and commit: [world, outputs, ...]
  MaxHeight,        \* bound: the height of the last finalized block
  MaxFaults         \* bound: how often the process faults or its storage fails

Worlds == [Keys -> Values]

ASSUME StateTransitionAssumption ==
  /\ CommitOp \notin Outputs
  /\ InitialWorld \in Worlds
  /\ KeyOrder \in Seq(Keys)
  /\ MaxHeight \in Nat
  /\ MaxFaults \in Nat
  /\ \A w \in Worlds, b \in Bodies :
       /\ Execute(w, b).world \in Worlds
       /\ Execute(w, b).outputs \in Seq(Outputs)

VARIABLES
  chain,    \* the finalized blocks
  mem,      \* the databases as the process sees them
  disk,     \* the databases as a restart finds them
  call,     \* the running call of execute_state_transition and its locals
  result,   \* what the latest call returned
  faults    \* how many faults and storage errors there were

vars == <<chain, mem, disk, call, result, faults>>

Heights == 1 .. MaxHeight
NoCommit == [height |-> 0, start |-> 0, loc |-> -1]
Empty == [height |-> 0, world |-> InitialWorld, ops |-> <<>>, commit |-> NoCommit]
Idle == [pc |-> "idle"]

Returned(outcome, height, start, end) ==
  [outcome |-> outcome, height |-> height, start |-> start, end |-> end]

NoResult == Returned("none", 0, 0, 0)

Init ==
  /\ chain \in [Heights -> Bodies]
  /\ mem = Empty
  /\ disk = Empty
  /\ call = Idle
  /\ result = NoResult
  /\ faults = 0

-----------------------------------------------------------------------------
(* The decision at the start of a call. *)

\* Mutant: events committed ahead of the state are taken for the normal case.
ExecutableIgnoringEvents(m, h) == h = m.height + 1 /\ m.commit.height <= h

Executable(m, h) == h = m.height + 1 /\ m.commit.height = m.height

\* Events are committed for h and the state is not: the block is executed again and
\* its outputs are compared with the ones stored, in number and one by one.
Recoverable(m, h) ==
  /\ h = m.height + 1
  /\ m.commit.height = h
  /\ Len(m.ops) = m.commit.loc + 1
  /\ SubSeq(m.ops, m.commit.start + 1, m.commit.loc) = Execute(m.world, chain[h]).outputs

Started(pc, h, start) ==
  [pc |-> pc, height |-> h, start |-> start, world |-> Execute(mem.world, chain[h]).world,
   outputs |-> Execute(mem.world, chain[h]).outputs]

\* A height at or below the state's is a no-op.
Skip(h) ==
  /\ call = Idle
  /\ h <= mem.height
  /\ result' = Returned("noop", h, Len(mem.ops), Len(mem.ops))
  /\ UNCHANGED <<chain, mem, disk, call, faults>>

\* A height gap, databases at incompatible heights, or a failed recovery check.
Reject(h) ==
  /\ call = Idle
  /\ h > mem.height
  /\ ~Executable(mem, h)
  /\ ~Recoverable(mem, h)
  /\ result' = Returned("error", h, 0, 0)
  /\ UNCHANGED <<chain, mem, disk, call, faults>>

Begin(h) ==
  /\ call = Idle
  /\ Executable(mem, h)
  /\ call' = Started("append", h, Len(mem.ops))
  /\ UNCHANGED <<chain, mem, disk, result, faults>>

\* Mutant: the range to prove starts at the end of the log, not at the commit's start.
RecoverFromEnd(h) ==
  /\ call = Idle
  /\ Recoverable(mem, h)
  /\ call' = Started("apply", h, Len(mem.ops))
  /\ UNCHANGED <<chain, mem, disk, result, faults>>

Recover(h) ==
  /\ call = Idle
  /\ Recoverable(mem, h)
  /\ call' = Started("apply", h, mem.commit.start)
  /\ UNCHANGED <<chain, mem, disk, result, faults>>

-----------------------------------------------------------------------------
(* The storage operations of a call, in the order of the code. *)

Appended == Len(mem.ops) - call.start

AppendOutput ==
  /\ call.pc = "append"
  /\ Appended < Len(call.outputs)
  /\ mem' = [mem EXCEPT !.ops = Append(@, call.outputs[Appended + 1])]
  /\ UNCHANGED <<chain, disk, call, result, faults>>

CommittedEvents ==
  [mem EXCEPT !.ops = Append(@, CommitOp),
              !.commit = [height |-> call.height, start |-> call.start, loc |-> Len(mem.ops)]]

\* Mutant: the events reach the disk only with the next commit, after the state.
CommitEventsLate ==
  /\ call.pc = "append"
  /\ Appended = Len(call.outputs)
  /\ mem' = CommittedEvents
  /\ call' = [call EXCEPT !.pc = "apply"]
  /\ UNCHANGED <<chain, disk, result, faults>>

CommitEvents ==
  /\ call.pc = "append"
  /\ Appended = Len(call.outputs)
  /\ mem' = CommittedEvents
  /\ disk' = [disk EXCEPT !.ops = CommittedEvents.ops, !.commit = CommittedEvents.commit]
  /\ call' = [call EXCEPT !.pc = "apply"]
  /\ UNCHANGED <<chain, result, faults>>

ApplyState ==
  /\ call.pc = "apply"
  /\ mem' = [mem EXCEPT !.world = call.world]
  /\ call' = [call EXCEPT !.pc = "commit"]
  /\ UNCHANGED <<chain, disk, result, faults>>

CommitState ==
  /\ call.pc = "commit"
  /\ mem' = [mem EXCEPT !.height = call.height]
  /\ disk' = [disk EXCEPT !.height = call.height, !.world = mem.world]
  /\ result' = Returned("applied", call.height, call.start, Len(mem.ops))
  /\ call' = Idle
  /\ UNCHANGED <<chain, faults>>

-----------------------------------------------------------------------------
(* Crashes, and errors that the storage returns to a process that lives on. *)

\* A crash at any point: what was not committed is gone.
Crash ==
  /\ faults < MaxFaults
  /\ faults' = faults + 1
  /\ mem' = disk
  /\ call' = Idle
  /\ result' = NoResult
  /\ UNCHANGED <<chain, disk>>

\* Mutant: the changes are stored in the opposite order.
StoredFromEnd(n) == {KeyOrder[i] : i \in n + 1 .. Len(KeyOrder)}

\* The keys that apply has stored after n turns: changes is a BTreeMap, so they come
\* in the order of the Key enum, the account nonces first.
Stored(n) == {KeyOrder[i] : i \in 1 .. n}

\* The ? of append, of apply and of the commits: the call returns, nothing is undone,
\* and apply, a loop over the changes, may have stored some of them.
StorageError ==
  /\ call # Idle
  /\ faults < MaxFaults
  /\ faults' = faults + 1
  /\ \/ call.pc # "apply" /\ UNCHANGED mem
     \/ call.pc = "apply" /\ \E n \in 0 .. Len(KeyOrder) :
          mem' = [mem EXCEPT !.world =
                    [k \in Keys |-> IF k \in Stored(n) THEN call.world[k] ELSE @[k]]]
  /\ result' = Returned("error", call.height, 0, 0)
  /\ call' = Idle
  /\ UNCHANGED <<chain, disk>>

-----------------------------------------------------------------------------

Step == AppendOutput \/ CommitEvents \/ ApplyState \/ CommitState

Request(h) == Skip(h) \/ Reject(h) \/ Begin(h) \/ Recover(h)

Next == Step \/ Crash \/ \E h \in Heights : Request(h)

FaultyNext == Next \/ StorageError

SafeSpec == Init /\ [][Next]_vars
FaultySpec == Init /\ [][FaultyNext]_vars

\* A call runs to its end, and the application asks for the next block for as long
\* as it lags behind the finalized chain.
Spec ==
  /\ SafeSpec
  /\ WF_vars(Step)
  /\ WF_vars(\E h \in Heights : Begin(h) \/ Recover(h))

-----------------------------------------------------------------------------
(* Properties. *)

Database ==
  [height : 0 .. MaxHeight, world : Worlds, ops : Seq(Outputs \cup {CommitOp}),
   commit : [height : 0 .. MaxHeight, start : Nat, loc : Nat \cup {-1}]]

Calls ==
  [pc : {"append", "apply", "commit"}, height : Heights, start : Nat,
   world : Worlds, outputs : Seq(Outputs)]

\* Types: among them, that the outputs of a running call start inside the log, also
\* after a crash has cut the log short.
TypeOK ==
  /\ chain \in [Heights -> Bodies]
  /\ mem \in Database
  /\ disk \in Database
  /\ call \in Calls \cup {Idle}
  /\ call # Idle => call.start <= Len(mem.ops)
  /\ result \in [outcome : {"none", "applied", "noop", "error"}, height : 0 .. MaxHeight,
                 start : Nat, end : Nat]
  /\ faults \in 0 .. MaxFaults

AcceptsNext(m) ==
  m.height < MaxHeight => \/ Executable(m, m.height + 1)
                          \/ Recoverable(m, m.height + 1)

\* The comment before the events commit: "Events must be committed before state,
\* otherwise a crash could wedge on restart."  Wherever a crash strikes, also after
\* storage errors, the databases it leaves accept the next block, by executing it or
\* by recovering it.
RestartNeverWedges == AcceptsNext(disk)

\* Between two calls the running process accepts the next block.
NeverWedged == call = Idle => AcceptsNext(mem)

\* The range of event locations that a successful call returns, from which the
\* block's proof is built, holds exactly the outputs of the block and its commit,
\* whether the block was executed or recovered.
AppliedRangeIsTheBlock ==
  result.outcome = "applied" =>
    /\ result.start < result.end
    /\ mem.ops[result.end] = CommitOp
    /\ \A i \in result.start + 1 .. result.end - 1 : mem.ops[i] \in Outputs
    /\ result.start > 0 => mem.ops[result.start] = CommitOp

\* Whatever fails, the committed state only ever moves by one block, to what
\* executing that block on the previous committed state gives: a call repeated after
\* a storage error never commits the effects of a transaction twice.
StateMovesByBlocks ==
  [][<<disk.height, disk.world>>' # <<disk.height, disk.world>> =>
       /\ disk'.height = disk.height + 1
       /\ disk'.world = Execute(disk.world, chain[disk'.height]).world]_vars

\* The outputs of the blocks whose state is committed.
LedgerLog ==
  IF disk.commit.height = disk.height
    THEN disk.ops
    ELSE SubSeq(disk.ops, 1, disk.commit.start)

Abstract ==
  INSTANCE Ledger WITH height <- disk.height, world <- disk.world, log <- LedgerLog

\* The two commits and the recovery between them implement one indivisible step per
\* block, and every finalized block is applied in the end.
ImplementsLedger == Abstract!Spec

\* The same without progress.
SafelyImplementsLedger == Abstract!SafeSpec
=============================================================================
