------------------------ MODULE StateTransitionProofs ------------------------
(***************************************************************************)
(* For every Execute, every chain of blocks and every number of crashes:   *)
(* the databases never wedge, and the two commits implement the one-step   *)
(* ledger.                                                                 *)
(***************************************************************************)
EXTENDS StateTransition, SequenceTheorems, TLAPS

\* The events of the next block are committed and its state is not.
Ahead(m) ==
  /\ m.height + 1 \in Heights
  /\ m.commit.height = m.height + 1
  /\ m.commit.start \in Nat
  /\ m.commit.loc \in Nat
  /\ m.commit.start <= m.commit.loc
  /\ Len(m.ops) = m.commit.loc + 1
  /\ m.ops[m.commit.loc + 1] = CommitOp
  /\ SubSeq(m.ops, m.commit.start + 1, m.commit.loc) =
       Execute(m.world, chain[m.height + 1]).outputs

Level(m) == m.commit.height = m.height

\* The locals of a call are what executing the block on the durable state gives.
CallIsCurrent ==
  /\ call.height = disk.height + 1
  /\ call.world = Execute(disk.world, chain[call.height]).world
  /\ call.outputs = Execute(disk.world, chain[call.height]).outputs

Appending ==
  /\ CallIsCurrent
  /\ Level(disk)
  /\ call.start = Len(disk.ops)
  /\ Appended \in 0 .. Len(call.outputs)
  /\ mem = [disk EXCEPT !.ops = disk.ops \o SubSeq(call.outputs, 1, Appended)]

Applying ==
  /\ CallIsCurrent
  /\ Ahead(disk)
  /\ call.start = disk.commit.start
  /\ mem = disk

Committing ==
  /\ CallIsCurrent
  /\ Ahead(disk)
  /\ call.start = disk.commit.start
  /\ mem = [disk EXCEPT !.world = call.world]

\* The inductive invariant: what memory holds beyond the disk is determined by how
\* far the running call has come.
IInv ==
  /\ TypeOK
  /\ Level(disk) \/ Ahead(disk)
  /\ call = Idle => mem = disk
  /\ call # Idle /\ call.pc = "append" => Appending
  /\ call # Idle /\ call.pc = "apply" => Applying
  /\ call # Idle /\ call.pc = "commit" => Committing

LogOps == Outputs \cup {CommitOp}

-----------------------------------------------------------------------------
(* Facts about sequences. *)

\* A log closed by its commit: its parts can be read back.
LEMMA CloseLog ==
  ASSUME NEW T, NEW s \in Seq(T), NEW out \in Seq(T), NEW c \in T
  PROVE  LET r == Append(s \o out, c)
         IN  /\ r \in Seq(T)
             /\ Len(r) = Len(s) + Len(out) + 1
             /\ r[Len(r)] = c
             /\ SubSeq(r, Len(s) + 1, Len(s) + Len(out)) = out
             /\ SubSeq(r, 1, Len(s)) = s
OBVIOUS

\* The converse: the parts put together are the log.
LEMMA ReadLog ==
  ASSUME NEW T, NEW r \in Seq(T), NEW i \in Nat, NEW j \in Nat, i <= j,
         Len(r) = j + 1
  PROVE  r = Append(SubSeq(r, 1, i) \o SubSeq(r, i + 1, j), r[j + 1])
BY SMTT(60)
-----------------------------------------------------------------------------
(* The invariant is inductive. *)

\* The databases start level and empty.
LEMMA InitIInv == Init => IInv
  <1> USE StateTransitionAssumption
  <1> SUFFICES ASSUME Init PROVE IInv
    OBVIOUS
  <1>1. Empty \in Database
    BY DEF Empty, Database, NoCommit
  <1>2. TypeOK
    BY <1>1 DEF TypeOK, Init, NoResult, Returned, Idle, Heights
  <1>3. Level(disk) /\ mem = disk /\ call = Idle
    BY DEF Init, Level, Empty, NoCommit
  <1> QED
    BY <1>2, <1>3 DEF IInv, Idle

\* A call that has started is never mistaken for none.
LEMMA CallsAreNotIdle == ASSUME NEW c \in Calls PROVE c # Idle
  BY DEF Calls, Idle

\* Executing a block of the chain on a stored world is well typed.
LEMMA ExecuteType ==
  ASSUME TypeOK, NEW w \in Worlds, NEW h \in Heights
  PROVE  /\ Execute(w, chain[h]).world \in Worlds
         /\ Execute(w, chain[h]).outputs \in Seq(Outputs)
  BY StateTransitionAssumption DEF TypeOK

\* Ahead is what a recovery accepts.
LEMMA AheadIsRecoverable ==
  ASSUME TypeOK, NEW m \in Database, Ahead(m)
  PROVE  Recoverable(m, m.height + 1)
  BY DEF Ahead, Recoverable, Database

\* A step of a call, a request or a crash keeps the invariant.
LEMMA NextIInv == IInv /\ [Next]_vars => IInv'
  <1> SUFFICES ASSUME IInv, [Next]_vars PROVE IInv'
    OBVIOUS
  <1>t. TypeOK /\ MaxHeight \in Nat /\ MaxFaults \in Nat
    BY StateTransitionAssumption DEF IInv
  <1>0. CASE UNCHANGED vars
    BY <1>0 DEF IInv, TypeOK, vars, Level, Ahead, Appending, Applying, Committing,
                CallIsCurrent, Appended
  <1>1. CASE AppendOutput
    <2>1. call # Idle /\ call \in Calls /\ Appending
      BY <1>1 DEF IInv, TypeOK, AppendOutput, Idle
    <2>2. /\ call.outputs \in Seq(LogOps) /\ disk.ops \in Seq(LogOps)
          /\ call.outputs \in Seq(Outputs) /\ call.start = Len(disk.ops)
      BY <2>1, <1>t DEF Calls, TypeOK, Database, LogOps, Appending
    <2>3. PICK k \in 0 .. Len(call.outputs) - 1 : k = Appended
      BY <1>1, <2>1, <2>2 DEF AppendOutput, Appending
    <2> DEFINE ops == disk.ops \o SubSeq(call.outputs, 1, k)
               more == disk.ops \o SubSeq(call.outputs, 1, k + 1)
    <2>4. /\ Append(ops, call.outputs[k + 1]) = more
          /\ more \in Seq(LogOps)
          /\ Len(more) = Len(disk.ops) + k + 1
      <3> DEFINE s == disk.ops
                 out == call.outputs
      <3>1. s \in Seq(LogOps) /\ out \in Seq(LogOps) /\ k \in 0 .. Len(out) - 1
        BY <2>2
      <3> HIDE DEF s, out
      <3>2. /\ Append(s \o SubSeq(out, 1, k), out[k + 1]) = s \o SubSeq(out, 1, k + 1)
            /\ s \o SubSeq(out, 1, k + 1) \in Seq(LogOps)
            /\ Len(s \o SubSeq(out, 1, k + 1)) = Len(s) + k + 1
        BY <3>1, SMTT(60)
      <3> QED BY <3>2 DEF s, out
    <2>5. mem.ops = ops
      BY <2>1, <2>3, <1>t DEF Appending, TypeOK, Database
    <2>6. mem' = [disk EXCEPT !.ops = more]
      BY <1>1, <2>1, <2>3, <2>4, <2>5, <1>t DEF AppendOutput, Appending, TypeOK, Database
    <2>7. mem' \in Database /\ mem'.ops = more
      <3> HIDE DEF more
      <3> QED BY <2>4, <2>6, <1>t DEF TypeOK, Database, LogOps
    <2>8. Len(mem'.ops) - call.start = k + 1 /\ call.start <= Len(mem'.ops)
      <3>1. Len(mem'.ops) = Len(disk.ops) + k + 1
        BY <2>4, <2>7
      <3>2. Len(disk.ops) \in Nat /\ k \in Nat
        BY <2>2
      <3>3. call.start = Len(disk.ops)
        BY <2>2
      <3> DEFINE old == Len(disk.ops)
                 new == Len(mem'.ops)
      <3>4. old \in Nat /\ new = old + k + 1 /\ call.start = old
        BY <3>1, <3>2, <3>3
      <3> HIDE DEF more, old, new
      <3>5. new - old = k + 1 /\ old <= new
        BY <3>2, <3>4
      <3> QED BY <3>4, <3>5 DEF new
    <2>9. Appended' = k + 1 /\ call' = call /\ disk' = disk /\ chain' = chain
      BY <1>1, <2>8 DEF AppendOutput, Appended
    <2>10. Appending'
      <3>1. CallIsCurrent' /\ Level(disk)' /\ (call.start = Len(disk.ops))'
        BY <2>1, <2>9 DEF Appending, CallIsCurrent, Level
      <3>2. Appended' \in 0 .. Len(call'.outputs)
        BY <2>9, <2>2
      <3>3. (mem = [disk EXCEPT !.ops = disk.ops \o SubSeq(call.outputs, 1, Appended)])'
        BY <2>6, <2>9
      <3> QED BY <3>1, <3>2, <3>3 DEF Appending
    <2>11. TypeOK'
      BY <1>1, <2>7, <2>8, <1>t DEF AppendOutput, TypeOK
    <2> QED
      BY <1>1, <2>1, <2>10, <2>11 DEF IInv, AppendOutput, Level, Appending
  <1>2. CASE CommitEvents
    <2> DEFINE out == call.outputs
               r == Append(disk.ops \o out, CommitOp)
    <2>1. call # Idle /\ call \in Calls /\ Appending /\ Appended = Len(out)
      BY <1>2 DEF IInv, TypeOK, CommitEvents, Idle
    <2>2. /\ out \in Seq(LogOps) /\ disk.ops \in Seq(LogOps)
          /\ call.start = Len(disk.ops) /\ call.height \in Heights /\ disk \in Database
      BY <2>1, <1>t DEF Calls, TypeOK, Database, Appending, LogOps
    <2>3. mem.ops = disk.ops \o out
      <3>1. SubSeq(out, 1, Len(out)) = out
        BY <2>2
      <3> QED BY <2>1, <2>2, <3>1 DEF Appending, Database
    <2>4. /\ r \in Seq(LogOps)
          /\ Len(r) = Len(disk.ops) + Len(out) + 1
          /\ r[Len(r)] = CommitOp
          /\ SubSeq(r, Len(disk.ops) + 1, Len(disk.ops) + Len(out)) = out
      <3> DEFINE s == disk.ops
      <3>1. CommitOp \in LogOps /\ s \in Seq(LogOps) /\ out \in Seq(LogOps)
        BY <2>2 DEF LogOps
      <3> HIDE DEF s, out
      <3>2. LET t == Append(s \o out, CommitOp)
            IN  /\ t \in Seq(LogOps)
                /\ Len(t) = Len(s) + Len(out) + 1
                /\ t[Len(t)] = CommitOp
                /\ SubSeq(t, Len(s) + 1, Len(s) + Len(out)) = out
        BY <3>1, CloseLog
      <3> QED BY <3>2 DEF s
    <2>5. Len(mem.ops) = Len(disk.ops) + Len(out) /\ Len(out) \in Nat /\ Len(disk.ops) \in Nat
      BY <2>2, <2>3
    <2> DEFINE c == [height |-> call.height, start |-> Len(disk.ops),
                     loc |-> Len(disk.ops) + Len(out)]
    <2>6. disk' = [disk EXCEPT !.ops = r, !.commit = c] /\ mem' = disk'
      BY <1>2, <2>1, <2>2, <2>3, <2>5, <1>t DEF CommitEvents, CommittedEvents, Appending, TypeOK, Database
    <2>7. disk' \in Database /\ disk'.ops = r /\ disk'.commit = c
          /\ disk'.height = disk.height /\ disk'.world = disk.world
      <3>1. c \in [height : 0 .. MaxHeight, start : Nat, loc : Nat \cup {-1}]
        <4>1. call.height \in 0 .. MaxHeight
          BY <2>2 DEF Heights
        <4>2. Len(disk.ops) \in Nat /\ Len(disk.ops) + Len(out) \in Nat
          <5> HIDE DEF out
          <5> QED BY <2>5
        <4> HIDE DEF out
        <4> QED BY <4>1, <4>2
      <3> HIDE DEF r, c
      <3> QED BY <2>2, <2>4, <2>6, <3>1 DEF Database, LogOps
    <2>8. CallIsCurrent /\ call' = [call EXCEPT !.pc = "apply"] /\ chain' = chain
      BY <1>2, <2>1 DEF CommitEvents, Appending
    <2>9. /\ call' \in Calls /\ call'.pc = "apply" /\ call'.height = call.height
          /\ call'.start = call.start /\ call'.world = call.world /\ call'.outputs = out
      BY <2>8, <2>1 DEF Calls
    <2>10. CallIsCurrent'
      BY <2>7, <2>8, <2>9 DEF CallIsCurrent
    <2>11. Ahead(disk)'
      <3>1. disk.height + 1 = call.height /\ out = Execute(disk.world, chain[disk.height + 1]).outputs
        BY <2>8 DEF CallIsCurrent
      <3>2. /\ disk'.commit.height = call.height /\ disk'.commit.start = Len(disk.ops)
            /\ disk'.commit.loc = Len(disk.ops) + Len(out)
        BY <2>7
      <3>3. Len(disk'.ops) = disk'.commit.loc + 1 /\ disk'.ops[disk'.commit.loc + 1] = CommitOp
        <4> HIDE DEF r, out, c
        <4> QED BY <3>2, <2>4, <2>5, <2>7
      <3>4. SubSeq(disk'.ops, disk'.commit.start + 1, disk'.commit.loc) = out
        <4> HIDE DEF r, out, c
        <4> QED BY <3>2, <2>4, <2>7
      <3>5. Execute(disk'.world, chain'[disk'.height + 1]).outputs = out
        BY <3>1, <2>7, <2>8
      <3>6. disk'.height + 1 = call.height
        BY <3>1, <2>7
      <3> HIDE DEF r, out, c
      <3>7. /\ disk'.commit.start \in Nat /\ disk'.commit.loc \in Nat
            /\ disk'.commit.start <= disk'.commit.loc
        BY <3>2, <2>5
      <3>8. disk'.commit.height = disk'.height + 1 /\ disk'.height + 1 \in Heights
        BY <3>2, <3>6, <2>2
      <3> QED BY <3>3, <3>4, <3>5, <3>7, <3>8, Zenon DEF Ahead
    <2>12. Applying'
      BY <2>2, <2>6, <2>7, <2>9, <2>10, <2>11 DEF Applying
    <2>13. TypeOK'
      <3>1. (call.start <= Len(mem.ops))'
        <4> HIDE DEF r, out
        <4> QED BY <2>2, <2>4, <2>5, <2>6, <2>7, <2>9
      <3>2. call' # Idle
        BY <2>9, CallsAreNotIdle
      <3> QED BY <1>2, <2>6, <2>7, <2>9, <3>1, <3>2, <1>t DEF CommitEvents, TypeOK
    <2>14. call' # Idle
      BY <2>9, CallsAreNotIdle
    <2> QED
      BY <2>9, <2>11, <2>12, <2>13, <2>14 DEF IInv
  <1>3. CASE ApplyState
    <2>1. call # Idle /\ call \in Calls /\ Applying
      BY <1>3 DEF IInv, TypeOK, ApplyState, Idle
    <2>2. /\ call' \in Calls /\ call'.pc = "commit" /\ call'.height = call.height
          /\ call'.start = call.start /\ call'.world = call.world /\ call'.outputs = call.outputs
      BY <1>3, <2>1 DEF ApplyState, Calls
    <2>3. mem' = [disk EXCEPT !.world = call.world] /\ mem' \in Database /\ mem'.ops = disk.ops
      BY <1>3, <2>1, <1>t DEF ApplyState, Applying, TypeOK, Database, Calls
    <2>4. Ahead(disk)' /\ CallIsCurrent'
      BY <1>3, <2>1, <2>2 DEF ApplyState, Applying, Ahead, CallIsCurrent
    <2>5. Committing'
      BY <1>3, <2>1, <2>2, <2>3, <2>4 DEF ApplyState, Applying, Committing
    <2>6. call' # Idle
      BY <2>2, CallsAreNotIdle
    <2>7. TypeOK'
      BY <1>3, <2>1, <2>2, <2>3, <2>6, <1>t DEF ApplyState, Applying, TypeOK
    <2> QED
      BY <2>2, <2>4, <2>5, <2>6, <2>7 DEF IInv
  <1>4. CASE CommitState
    <2>1. call # Idle /\ call \in Calls /\ Committing
      BY <1>4 DEF IInv, TypeOK, CommitState, Idle
    <2>2. call.height \in Heights /\ call.world \in Worlds /\ call.start \in Nat
      BY <2>1 DEF Calls
    <2>3. disk' = [disk EXCEPT !.height = call.height, !.world = call.world] /\ mem' = disk'
      BY <1>4, <2>1, <1>t DEF CommitState, Committing, TypeOK, Database
    <2>4. disk' \in Database /\ disk'.height = call.height /\ disk'.commit = disk.commit
      <3>1. call.height \in 0 .. MaxHeight /\ disk \in Database
        BY <2>2, <1>t DEF Heights, TypeOK
      <3> QED BY <2>2, <2>3, <3>1 DEF Database
    <2>5. Level(disk)'
      BY <2>1, <2>4 DEF Committing, CallIsCurrent, Ahead, Level
    <2>6. result' \in [outcome : {"none", "applied", "noop", "error"}, height : 0 .. MaxHeight,
                       start : Nat, end : Nat]
      <3>1. Len(mem.ops) \in Nat
        BY <1>t DEF TypeOK, Database
      <3>2. result' = Returned("applied", call.height, call.start, Len(mem.ops))
        BY <1>4 DEF CommitState
      <3>3. call.height \in 0 .. MaxHeight
        BY <2>2 DEF Heights
      <3> DEFINE R == [outcome : {"none", "applied", "noop", "error"}, height : 0 .. MaxHeight,
                       start : Nat, end : Nat]
      <3>4. \A h \in 0 .. MaxHeight, i \in Nat, j \in Nat : Returned("applied", h, i, j) \in R
        BY DEF Returned
      <3> HIDE DEF R
      <3>5. result' \in R
        BY <2>2, <3>1, <3>2, <3>3, <3>4
      <3> QED BY <3>5 DEF R
    <2>7. call' = Idle /\ UNCHANGED <<chain, faults>>
      BY <1>4 DEF CommitState
    <2>8. TypeOK'
      BY <2>3, <2>4, <2>6, <2>7, <1>t DEF TypeOK
    <2> QED
      BY <2>3, <2>5, <2>7, <2>8 DEF IInv
  <1>5. CASE Crash
    BY <1>5, <1>t DEF Crash, IInv, TypeOK, Level, Ahead, NoResult, Returned, Idle
  <1>6. ASSUME NEW h \in Heights, Skip(h) \/ Reject(h)
        PROVE  IInv'
    <2>1. result' \in [outcome : {"none", "applied", "noop", "error"}, height : 0 .. MaxHeight,
                       start : Nat, end : Nat]
      <3>1. Len(mem.ops) \in Nat
        BY <1>t DEF TypeOK, Database
      <3> QED BY <1>6, <3>1 DEF Skip, Reject, Returned, Heights
    <2>2. UNCHANGED <<chain, mem, disk, call, faults>> /\ call = Idle
      BY <1>6 DEF Skip, Reject
    <2> QED
      BY <2>1, <2>2, <1>t DEF IInv, TypeOK, Level, Ahead
  <1>7. ASSUME NEW h \in Heights, Begin(h)
        PROVE  IInv'
    <2>1. call = Idle /\ mem = disk /\ Executable(disk, h) /\ UNCHANGED <<chain, mem, disk, result, faults>>
      BY <1>7 DEF Begin, IInv
    <2>2. call' = Started("append", h, Len(disk.ops))
      BY <1>7, <2>1 DEF Begin
    <2>3. /\ Execute(mem.world, chain[h]).world \in Worlds
          /\ Execute(mem.world, chain[h]).outputs \in Seq(Outputs)
          /\ disk.ops \in Seq(Outputs \cup {CommitOp})
      BY <1>t, ExecuteType DEF TypeOK, Database
    <2>4. /\ call' \in Calls /\ call'.pc = "append" /\ call'.height = h /\ call'.start = Len(disk.ops)
          /\ call'.world = Execute(mem.world, chain[h]).world
          /\ call'.outputs = Execute(mem.world, chain[h]).outputs
      BY <2>2, <2>3 DEF Started, Calls
    <2>5. CallIsCurrent' /\ Level(disk)'
      BY <2>1, <2>4 DEF CallIsCurrent, Executable, Level
    <2>6. Appended' = 0
      BY <2>1, <2>3, <2>4 DEF Appended
    <2>7. mem' = [disk' EXCEPT !.ops = disk'.ops \o SubSeq(call'.outputs, 1, 0)]
      <3>1. SubSeq(call'.outputs, 1, 0) = << >>
        BY <2>3, <2>4
      <3>2. disk.ops \o << >> = disk.ops
        BY <2>3
      <3> QED BY <2>1, <3>1, <3>2, <1>t DEF TypeOK, Database
    <2>8. Appending'
      <3>1. Appended' \in 0 .. Len(call'.outputs)
        BY <2>3, <2>4, <2>6
      <3>2. mem' = [disk' EXCEPT !.ops = disk'.ops \o SubSeq(call'.outputs, 1, Appended')]
        BY <2>6, <2>7
      <3> QED BY <2>1, <2>4, <2>5, <3>1, <3>2 DEF Appending
    <2>9. call' # Idle
      BY <2>4, CallsAreNotIdle
    <2>10. TypeOK'
      BY <2>1, <2>3, <2>4, <1>t DEF TypeOK
    <2> QED
      BY <2>4, <2>5, <2>8, <2>9, <2>10 DEF IInv
  <1>8. ASSUME NEW h \in Heights, Recover(h)
        PROVE  IInv'
    <2>1. call = Idle /\ mem = disk /\ Recoverable(disk, h) /\ UNCHANGED <<chain, mem, disk, result, faults>>
      BY <1>8 DEF Recover, IInv
    <2>2. call' = Started("apply", h, disk.commit.start)
      BY <1>8, <2>1 DEF Recover
    <2>3. /\ Execute(mem.world, chain[h]).world \in Worlds
          /\ Execute(mem.world, chain[h]).outputs \in Seq(Outputs)
          /\ disk.commit.start \in Nat
      BY <1>t, ExecuteType DEF TypeOK, Database
    <2>4. /\ call' \in Calls /\ call'.pc = "apply" /\ call'.height = h /\ call'.start = disk.commit.start
          /\ call'.world = Execute(mem.world, chain[h]).world
          /\ call'.outputs = Execute(mem.world, chain[h]).outputs
      BY <2>2, <2>3 DEF Started, Calls
    <2>5. Ahead(disk)
      BY <2>1, <1>t DEF IInv, Level, Recoverable, TypeOK, Database
    <2>6. Applying' /\ Ahead(disk)'
      BY <2>1, <2>4, <2>5 DEF Applying, CallIsCurrent, Recoverable, Ahead
    <2>7. call' # Idle
      BY <2>4, CallsAreNotIdle
    <2>8. TypeOK'
      <3>1. disk.commit.start <= Len(disk.ops)
        BY <2>5 DEF Ahead
      <3> QED BY <2>1, <2>4, <3>1, <1>t DEF TypeOK
    <2> QED
      BY <2>4, <2>6, <2>7, <2>8 DEF IInv
  <1> QED
    BY <1>0, <1>1, <1>2, <1>3, <1>4, <1>5, <1>6, <1>7, <1>8 DEF Next, Step, Request

\* What a process does between and inside its calls, with crashes at any point,
\* never leaves the inductive invariant.
THEOREM IInvAlways == SafeSpec => []IInv
  BY InitIInv, NextIInv, PTL DEF SafeSpec

-----------------------------------------------------------------------------
(* What follows. *)

\* Type correctness of the databases and of the running call.
THEOREM TypeCorrect == SafeSpec => []TypeOK
  <1>1. IInv => TypeOK
    BY DEF IInv
  <1> QED BY <1>1, IInvAlways, PTL

\* Committing events before state is enough: wherever a crash strikes, a restart finds
\* databases that accept the next block.
THEOREM RestartCorrect == SafeSpec => []RestartNeverWedges
  <1>1. IInv => RestartNeverWedges
    <2> SUFFICES ASSUME IInv, disk.height < MaxHeight
                 PROVE  Executable(disk, disk.height + 1) \/ Recoverable(disk, disk.height + 1)
      BY DEF RestartNeverWedges, AcceptsNext
    <2>1. TypeOK /\ disk \in Database
      BY DEF IInv, TypeOK
    <2>2. CASE Level(disk)
      BY <2>2 DEF Level, Executable
    <2>3. CASE Ahead(disk)
      BY <2>1, <2>3, AheadIsRecoverable
    <2> QED BY <2>2, <2>3 DEF IInv
  <1> QED BY <1>1, IInvAlways, PTL

\* Between two calls the running process, too, accepts the next block.
THEOREM ProcessCorrect == SafeSpec => []NeverWedged
  <1>1. IInv /\ RestartNeverWedges => NeverWedged
    BY DEF IInv, NeverWedged, RestartNeverWedges
  <1> QED BY <1>1, IInvAlways, RestartCorrect, PTL

\* Every step of the two-commit pipeline is a step of the ledger or none: the state
\* commit is where a block takes effect, and the events committed ahead of it are the
\* outputs that the ledger's step appends.
THEOREM RefinesLedger == SafeSpec => SafelyImplementsLedger
  <1>1. Init => Abstract!Init
    <2> SUFFICES ASSUME Init PROVE Abstract!Init
      OBVIOUS
    <2> QED BY DEF Init, Empty, NoCommit, LedgerLog, Abstract!Init
  <1>2. IInv /\ [Next]_vars => [Abstract!ApplyBlock]_Abstract!vars
    <2> SUFFICES ASSUME IInv, [Next]_vars
                 PROVE  Abstract!ApplyBlock \/ UNCHANGED Abstract!vars
      OBVIOUS
    <2>t. TypeOK
      BY DEF IInv
    <2>1. CASE disk' = disk /\ chain' = chain
      BY <2>1 DEF Abstract!vars, LedgerLog
    <2>2. CASE CommitEvents
      <3> DEFINE out == call.outputs
                 s == disk.ops
                 r == Append(s \o out, CommitOp)
      <3>1. call # Idle /\ call \in Calls /\ Appending /\ Appended = Len(out)
        BY <2>2 DEF IInv, TypeOK, CommitEvents, Idle
      <3>2. out \in Seq(LogOps) /\ s \in Seq(LogOps) /\ disk \in Database /\ CommitOp \in LogOps
        BY <3>1, <2>t DEF Calls, TypeOK, Database, LogOps
      <3>3. mem.ops = s \o out
        <4>1. SubSeq(out, 1, Len(out)) = out
          BY <3>2
        <4> QED BY <3>1, <3>2, <4>1 DEF Appending, Database
      <3>4. SubSeq(r, 1, Len(s)) = s
        <4> HIDE DEF s, out
        <4> QED BY <3>2, CloseLog
      <3>5. /\ disk'.ops = r /\ disk'.commit.height = call.height /\ disk'.commit.start = call.start
            /\ disk'.height = disk.height /\ disk'.world = disk.world /\ chain' = chain
        BY <2>2, <3>2, <3>3 DEF CommitEvents, CommittedEvents, Database
      <3>6. /\ call.start = Len(s) /\ call.height = disk.height + 1 /\ Level(disk)
            /\ disk.height \in Int
        BY <3>1, <3>2 DEF Appending, CallIsCurrent, Database
      <3>7. LedgerLog = s
        BY <3>6 DEF LedgerLog, Level
      <3>8. LedgerLog' = s
        <4>1. disk'.commit.height # disk'.height
          BY <3>5, <3>6
        <4> QED BY <4>1, <3>4, <3>5, <3>6 DEF LedgerLog
      <3> QED BY <3>5, <3>7, <3>8 DEF Abstract!vars
    <2>3. CASE CommitState
      <3> DEFINE w == disk.world
                 b == chain[disk.height + 1]
      <3>1. call # Idle /\ call \in Calls /\ Committing
        BY <2>3 DEF IInv, TypeOK, CommitState, Idle
      <3>2. /\ call.height = disk.height + 1 /\ call.world = Execute(w, b).world
            /\ Ahead(disk) /\ disk \in Database /\ call.height \in Heights
        BY <3>1, <2>t DEF Committing, CallIsCurrent, TypeOK, Calls
      <3>3. /\ disk'.height = disk.height + 1 /\ disk'.world = Execute(w, b).world
            /\ disk'.ops = disk.ops /\ disk'.commit = disk.commit /\ chain' = chain
        BY <2>3, <3>1, <3>2, <2>t DEF CommitState, Committing, Database
      <3>4. LedgerLog' = disk.ops
        BY <3>2, <3>3 DEF LedgerLog, Ahead
      <3>5. LedgerLog = SubSeq(disk.ops, 1, disk.commit.start)
        <4>1. disk.commit.height # disk.height
          BY <3>2 DEF Ahead, Database
        <4> QED BY <4>1 DEF LedgerLog
      <3>6. disk.ops = Append(LedgerLog \o Execute(w, b).outputs, CommitOp)
        <4> DEFINE r == disk.ops
                   i == disk.commit.start
                   j == disk.commit.loc
        <4>1. /\ r \in Seq(LogOps) /\ i \in Nat /\ j \in Nat /\ i <= j /\ Len(r) = j + 1
              /\ r[j + 1] = CommitOp /\ SubSeq(r, i + 1, j) = Execute(w, b).outputs
          BY <3>2 DEF Ahead, Database, LogOps
        <4>2. LedgerLog = SubSeq(r, 1, i)
          BY <3>5
        <4> HIDE DEF r, i, j
        <4>3. r = Append(SubSeq(r, 1, i) \o SubSeq(r, i + 1, j), r[j + 1])
          BY <4>1, ReadLog
        <4>4. r = Append(LedgerLog \o Execute(w, b).outputs, CommitOp)
          BY <4>1, <4>2, <4>3
        <4> QED BY <4>4 DEF r
      <3>7. disk.height + 1 \in DOMAIN chain
        BY <3>2, <2>t DEF TypeOK
      <3>8. Abstract!ApplyBlock
        BY <3>3, <3>4, <3>6, <3>7 DEF Abstract!ApplyBlock
      <3> QED BY <3>8
    <2> QED
      BY <2>1, <2>2, <2>3 DEF Next, Step, Request, AppendOutput, ApplyState, Crash, Skip, Reject,
                              Begin, Recover, vars
  <1> QED BY <1>1, <1>2, IInvAlways, PTL DEF SafeSpec, SafelyImplementsLedger, Abstract!SafeSpec
=============================================================================
