---------------------------- MODULE OpLogProofs ----------------------------
(***************************************************************************)
(* Proofs, for every set of items, every set of processes and every bound *)
(* on the log, that the state keeps its type (TypeOK): in particular the  *)
(* op heads store is never empty and names operations of the log, and an  *)
(* open transaction is based on an operation of the log.                  *)
(***************************************************************************)
EXTENDS OpLog, SequenceTheorems, TLAPS

Descs == [kind : {"init", "merge", "other"}] \cup [kind : {"undo", "restore"}, op : Nat]
OpRecs == [parents : Seq(Nat), view : SUBSET Items, desc : Descs]
TxRecs == {Idle} \cup [st : {"tx"}, base : Nat, desc : Descs, view : SUBSET Items]

\* The view an undo of operation b computes over the view `cur`.
UndoView(cur, b) == MergeViews(cur, ops[b].view, ops[ops[b].parents[1]].view)

\* Operation u, if an undo, undid an earlier single-parent operation and
\* holds the view that undo computed over its own parent's view.
OpUndoOK(u) ==
  ops[u].desc.kind = "undo" =>
    /\ ops[u].desc.op \in 1 .. u - 1
    /\ Len(ops[ops[u].desc.op].parents) = 1
    /\ Len(ops[u].parents) = 1
    /\ ops[u].view = UndoView(ops[ops[u].parents[1]].view, ops[u].desc.op)

\* An open transaction r is based on an operation of the log and, if an
\* undo, is the undo of a single-parent operation over its base's view.
TxOK(r) ==
  /\ r.base \in OpIds
  /\ r.desc.kind = "undo" =>
       /\ r.desc.op \in OpIds
       /\ Len(ops[r.desc.op].parents) = 1
       /\ r.view = UndoView(ops[r.base].view, r.desc.op)

\* Every parent of an operation is an earlier operation of the log.
ParentsBefore ==
  \A i \in OpIds : \A k \in DOMAIN ops[i].parents : ops[i].parents[k] \in 1 .. i - 1

\* The parents of an operation record, as a set.
PSet(o) == {o.parents[k] : k \in DOMAIN o.parents}

\* Operation i is a parent of some operation of the log.
HasChild(i) == \E j \in OpIds : \E k \in DOMAIN ops[j].parents : ops[j].parents[k] = i

\* The op heads store holds exactly the operations no operation has as a parent.
OpHeadsAreLeaves == opHeads = {i \in OpIds : ~HasChild(i)}

(***************************************************************************)
(* The inductive invariant.  The op heads store is not empty because it   *)
(* is the set of leaves of the log, and the log always has one: a new     *)
(* operation's parents are earlier ones, so no operation ever names a     *)
(* later one as its parent.  OpUndoOK and TxOK say what every undo        *)
(* operation and every open undo transaction hold (an earlier single-     *)
(* parent operation undone over the view of its base); they carry the    *)
(* ids an undo names, which the type of the log speaks of.                *)
(***************************************************************************)
IInv ==
  /\ ops \in Seq(OpRecs) /\ Len(ops) >= 1
  /\ opHeads \subseteq OpIds /\ opHeads # {}
  /\ tx \in [Procs -> TxRecs]
  /\ \A p \in Procs : tx[p] # Idle => TxOK(tx[p])
  /\ ParentsBefore
  /\ OpHeadsAreLeaves
  /\ \A u \in OpIds : OpUndoOK(u)

-----------------------------------------------------------------------------
\* The single-parent entries of the log, by the invariant.
LEMMA ParentBefore ==
  ASSUME IInv, NEW i \in OpIds, Len(ops[i].parents) = 1
  PROVE  /\ ops[i].parents[1] \in 1 .. i - 1
         /\ DOMAIN ops[i].parents = {1}
<1>1. ops[i] \in OpRecs
  BY ElementOfSeq DEF IInv, OpIds
<1>2. ops[i].parents \in Seq(Nat)
  BY <1>1 DEF OpRecs
<1>3. DOMAIN ops[i].parents = {1}
  BY <1>2, LenProperties
<1>4. QED
  BY <1>3 DEF IInv, ParentsBefore

\* The views of an undo stay within the items.
LEMMA MergeViewsType ==
  ASSUME NEW cur \in SUBSET Items, NEW base, NEW other \in SUBSET Items
  PROVE  MergeViews(cur, base, other) \in SUBSET Items
BY DEF MergeViews

(***************************************************************************)
(* A step that appends an operation o to the log keeps the invariant when *)
(* o is well formed, names an earlier operation as its single parent, and *)
(* is, if an undo, the undo of a single-parent operation over its parent.  *)
(* Finish and ResolveOpHeads are such steps.                               *)
(***************************************************************************)
LEMMA AppendStep ==
  ASSUME IInv, NEW o \in OpRecs,
         PSet(o) \subseteq OpIds,
         o.desc.kind = "undo" =>
           /\ o.desc.op \in OpIds
           /\ Len(ops[o.desc.op].parents) = 1
           /\ Len(o.parents) = 1
           /\ o.view = UndoView(ops[o.parents[1]].view, o.desc.op),
         ops' = Append(ops, o),
         opHeads' = (opHeads \ PSet(o)) \cup {Len(ops) + 1},
         tx' \in [Procs -> TxRecs],
         \A p \in Procs : tx'[p] = tx[p] \/ tx'[p] = Idle
  PROVE  IInv'
<1> DEFINE n == Len(ops) + 1
<1>1. /\ ops' \in Seq(OpRecs) /\ Len(ops') = n
      /\ \A i \in OpIds : ops'[i] = ops[i]
      /\ ops'[n] = o
  <2>1. ops \in Seq(OpRecs)
    BY DEF IInv
  <2>2. QED
    BY <2>1, AppendProperties DEF OpIds
<1>2. Len(ops) \in Nat
  BY LenProperties DEF IInv
<1>3. OpIds' = OpIds \cup {n}
  BY <1>1, <1>2 DEF OpIds
\* The views and parents the invariant looks up are those of earlier
\* operations, which the append leaves alone.
<1>4. ASSUME NEW b \in OpIds, Len(ops[b].parents) = 1, NEW c \in OpIds
      PROVE  UndoView(ops[c].view, b)' = UndoView(ops[c].view, b)
  <2>1. ops[b].parents[1] \in OpIds
    BY <1>4, ParentBefore DEF OpIds
  <2>2. /\ ops'[b] = ops[b] /\ ops'[c] = ops[c]
        /\ ops'[ops[b].parents[1]] = ops[ops[b].parents[1]]
    BY <1>1, <2>1
  <2>3. QED
    BY <2>2 DEF UndoView
<1>5. \A p \in Procs : tx'[p] # Idle => TxOK(tx[p])'
  <2> SUFFICES ASSUME NEW p \in Procs, tx'[p] # Idle PROVE TxOK(tx[p])'
    OBVIOUS
  <2>1. tx'[p] = tx[p] /\ TxOK(tx[p])
    BY DEF IInv
  <2>2. CASE tx[p].desc.kind = "undo"
    <3>1. tx[p].desc.op \in OpIds /\ Len(ops[tx[p].desc.op].parents) = 1
          /\ tx[p].view = UndoView(ops[tx[p].base].view, tx[p].desc.op)
          /\ tx[p].base \in OpIds
      BY <2>1, <2>2 DEF TxOK
    <3>2. UndoView(ops[tx[p].base].view, tx[p].desc.op)'
            = UndoView(ops[tx[p].base].view, tx[p].desc.op)
      BY <3>1, <1>4
    <3>3. QED
      BY <3>1, <3>2, <1>1, <1>3, <2>1 DEF TxOK
  <2>3. CASE tx[p].desc.kind # "undo"
    BY <2>1, <2>3, <1>3 DEF TxOK
  <2>4. QED
    BY <2>2, <2>3
<1>6. ParentsBefore'
  <2> SUFFICES ASSUME NEW i \in OpIds', NEW k \in DOMAIN ops'[i].parents
               PROVE  ops'[i].parents[k] \in 1 .. i - 1
    BY DEF ParentsBefore
  <2>1. CASE i \in OpIds
    BY <1>1, <2>1 DEF IInv, ParentsBefore
  <2>2. CASE i = n
    <3>1. ops'[i].parents[k] \in PSet(o)
      BY <1>1, <2>2 DEF PSet
    <3>2. QED
      BY <1>2, <2>2, <3>1 DEF OpIds
  <2>3. QED
    BY <1>3, <2>1, <2>2
<1>7. \A u \in OpIds : OpUndoOK(u)'
  <2> SUFFICES ASSUME NEW u \in OpIds, ops[u].desc.kind = "undo" PROVE OpUndoOK(u)'
    BY <1>1 DEF OpUndoOK
  <2>1. /\ ops[u].desc.op \in 1 .. u - 1
        /\ Len(ops[ops[u].desc.op].parents) = 1
        /\ Len(ops[u].parents) = 1
        /\ ops[u].view = UndoView(ops[ops[u].parents[1]].view, ops[u].desc.op)
    BY DEF IInv, OpUndoOK
  <2>2. ops[u].desc.op \in OpIds /\ ops[u].parents[1] \in OpIds
    BY <2>1, ParentBefore DEF OpIds
  <2>3. UndoView(ops[ops[u].parents[1]].view, ops[u].desc.op)'
          = UndoView(ops[ops[u].parents[1]].view, ops[u].desc.op)
    <3>1. ops[ops[u].desc.op].parents[1] \in OpIds
      BY <2>1, <2>2, ParentBefore DEF OpIds
    <3>2. QED
      BY <1>1, <2>2, <3>1 DEF UndoView
  <2>4. QED
    BY <1>1, <2>1, <2>2, <2>3 DEF OpUndoOK
<1>8. ASSUME NEW k \in Nat, k = n PROVE OpUndoOK(k)'
  <2> SUFFICES ASSUME o.desc.kind = "undo" PROVE OpUndoOK(k)'
    BY <1>1, <1>8 DEF OpUndoOK
  <2>1. /\ o.desc.op \in OpIds /\ Len(ops[o.desc.op].parents) = 1
        /\ Len(o.parents) = 1 /\ o.parents[1] \in OpIds
        /\ o.view = UndoView(ops[o.parents[1]].view, o.desc.op)
    <3>1. 1 \in DOMAIN o.parents
      BY LenProperties DEF OpRecs
    <3>2. QED
      BY <3>1 DEF PSet
  <2>2. UndoView(ops[o.parents[1]].view, o.desc.op)'
          = UndoView(ops[o.parents[1]].view, o.desc.op)
    <3>1. ops[o.desc.op].parents[1] \in OpIds
      BY <2>1, ParentBefore DEF OpIds
    <3>2. QED
      BY <1>1, <2>1, <3>1 DEF UndoView
  <2>3. QED
    BY <1>1, <1>2, <1>8, <2>1, <2>2 DEF OpUndoOK, OpIds, n
<1>9. \A u \in OpIds' : OpUndoOK(u)'
  BY <1>2, <1>3, <1>7, <1>8
\* The new operation has no child, and the old ones gain exactly its parents.
<1>10. ASSUME NEW i \in OpIds' PROVE HasChild(i)' <=> (i \in OpIds /\ (HasChild(i) \/ i \in PSet(o)))
  <2>1. ASSUME NEW j \in OpIds', NEW k \in DOMAIN ops'[j].parents
        PROVE  ops'[j].parents[k] \in 1 .. j - 1
    BY <1>6, <2>1 DEF ParentsBefore
  <2>2. HasChild(i)' <=> \/ \E j \in OpIds : \E k \in DOMAIN ops[j].parents : ops[j].parents[k] = i
                        \/ \E k \in DOMAIN o.parents : o.parents[k] = i
    <3>1. OpIds' = OpIds \cup {n}
      BY <1>2 DEF OpIds
    <3>2. HasChild(i)' <=> \E j \in OpIds \cup {n} : \E k \in DOMAIN ops'[j].parents : ops'[j].parents[k] = i
      BY <3>1 DEF HasChild
    <3>3. (\E j \in OpIds : \E k \in DOMAIN ops'[j].parents : ops'[j].parents[k] = i)
            <=> \E j \in OpIds : \E k \in DOMAIN ops[j].parents : ops[j].parents[k] = i
      BY <1>1
    <3>4. (\E k \in DOMAIN ops'[n].parents : ops'[n].parents[k] = i)
            <=> \E k \in DOMAIN o.parents : o.parents[k] = i
      BY <1>1
    <3>5. QED
      BY <3>2, <3>3, <3>4, Zenon
  <2>3. HasChild(i)' => i \in OpIds
    BY <1>2, <1>3, <2>1 DEF HasChild, OpIds
  <2>4. QED
    BY <2>2, <2>3 DEF HasChild, PSet
<1>11. OpHeadsAreLeaves'
  <2>1. opHeads = {i \in OpIds : ~HasChild(i)}
    BY DEF IInv, OpHeadsAreLeaves
  <2>2. n \notin OpIds
    BY <1>2 DEF OpIds
  <2>3. {i \in OpIds' : ~HasChild(i)'} = ({i \in OpIds : ~HasChild(i)} \ PSet(o)) \cup {n}
    BY <1>3, <1>10, <2>2
  <2>4. QED
    BY <2>1, <2>3 DEF OpHeadsAreLeaves
<1>12. opHeads' \subseteq OpIds' /\ opHeads' # {}
  BY <1>3 DEF IInv
<1>13. QED
  <2>1. ops' \in Seq(OpRecs) /\ Len(ops') >= 1
    BY <1>1, <1>2
  <2>2. QED
    BY <2>1, <1>5, <1>6, <1>9, <1>11, <1>12 DEF IInv

\* A step that leaves the log, the op heads and the transactions alone.
LEMMA LogUnchanged ==
  ASSUME IInv, ops' = ops, opHeads' = opHeads, tx' = tx
  PROVE  IInv'
<1>1. (ParentsBefore /\ OpHeadsAreLeaves)'
  BY DEF IInv, OpIds, ParentsBefore, OpHeadsAreLeaves, HasChild
<1>2. QED
  BY <1>1 DEF IInv, TxOK, OpUndoOK, UndoView, OpIds

\* A step that opens transaction r of process p, leaving the log alone.
LEMMA OpenTx ==
  ASSUME IInv, NEW p \in Procs, NEW r \in TxRecs, r # Idle, TxOK(r),
         tx' = [tx EXCEPT ![p] = r], ops' = ops, opHeads' = opHeads
  PROVE  IInv'
<1>1. tx' \in [Procs -> TxRecs]
  BY DEF IInv
<1>3. (\A q \in Procs : tx[q] # Idle => TxOK(tx[q]))'
  <2> SUFFICES ASSUME NEW q \in Procs, tx'[q] # Idle PROVE TxOK(tx[q])'
    OBVIOUS
  <2>1. CASE q = p
    <3>1. tx'[q] = r
      BY <2>1 DEF IInv
    <3>2. QED
      BY <3>1 DEF TxOK, UndoView, OpIds
  <2>2. CASE q # p
    <3>1. tx'[q] = tx[q] /\ TxOK(tx[q])
      BY <2>2 DEF IInv
    <3>2. QED
      BY <3>1 DEF TxOK, UndoView, OpIds
  <2>3. QED
    BY <2>1, <2>2
<1>4. (ParentsBefore /\ OpHeadsAreLeaves)'
  BY DEF IInv, OpIds, ParentsBefore, OpHeadsAreLeaves, HasChild
<1>5. (\A u \in OpIds : OpUndoOK(u))'
  BY DEF IInv, OpUndoOK, UndoView, OpIds
<1>6. QED
  BY <1>1, <1>3, <1>4, <1>5 DEF IInv, OpIds

\* The op head a command loads is an operation of the log.
LEMMA HeadOpInLog ==
  ASSUME IInv
  PROVE  HeadOp \in OpIds
BY DEF IInv, HeadOp

\* An entry of the log is a well-formed operation.
LEMMA OpInLog ==
  ASSUME IInv, NEW i \in OpIds
  PROVE  ops[i] \in OpRecs /\ ops[i].view \in SUBSET Items
<1>1. ops[i] \in OpRecs
  BY ElementOfSeq DEF IInv, OpIds
<1>2. QED
  BY <1>1 DEF OpRecs

LEMMA InitIInv == Init => IInv
<1> SUFFICES ASSUME Init PROVE IInv
  OBVIOUS
<1>1. RootOp \in OpRecs
  BY DEF RootOp, OpRecs, Descs
<1>2. ops \in Seq(OpRecs) /\ Len(ops) = 1 /\ ops[1] = RootOp
  BY <1>1 DEF Init
<1>3. ParentsBefore /\ OpHeadsAreLeaves
  BY <1>2 DEF Init, ParentsBefore, OpHeadsAreLeaves, HasChild, OpIds, RootOp
<1>4. QED
  BY <1>2, <1>3 DEF Init, IInv, OpIds, TxRecs, OpUndoOK, RootOp

\* tx.finish appends the open transaction to the log as an operation.
LEMMA FinishKeeps ==
  ASSUME IInv, NEW p \in Procs, Finish(p)
  PROVE  IInv'
<1> DEFINE o == [parents |-> <<tx[p].base>>, view |-> tx[p].view, desc |-> tx[p].desc]
<1>1. tx[p] \in [st : {"tx"}, base : Nat, desc : Descs, view : SUBSET Items]
      /\ TxOK(tx[p])
  BY DEF Finish, IInv, TxRecs, Idle
<1>2. o \in OpRecs
  BY <1>1 DEF OpRecs
<1>3. PSet(o) = {tx[p].base} /\ tx[p].base \in OpIds
  BY <1>1 DEF TxOK, PSet
<1>4. o.desc.kind = "undo" =>
        /\ o.desc.op \in OpIds
        /\ Len(ops[o.desc.op].parents) = 1
        /\ Len(o.parents) = 1
        /\ o.view = UndoView(ops[o.parents[1]].view, o.desc.op)
  BY <1>1 DEF TxOK
<1>5. opHeads' = (opHeads \ PSet(o)) \cup {Len(ops) + 1}
  BY <1>3 DEF Finish
<1>6. tx' \in [Procs -> TxRecs] /\ \A q \in Procs : tx'[q] = tx[q] \/ tx'[q] = Idle
  BY DEF Finish, IInv, TxRecs
<1>7. ops' = Append(ops, o)
  BY DEF Finish
<1>8. QED
  BY <1>2, <1>3, <1>4, <1>5, <1>6, <1>7, AppendStep

\* The merge operation the repo loader writes for two op heads.
MergeRec(h1, h2) ==
  [parents |-> <<h1, h2>>,
   view    |-> MergeViews(ops[h1].view, ops[MaxOf(OpAncestors(h1) \cap OpAncestors(h2))].view,
                          ops[h2].view),
   desc    |-> [kind |-> "merge"]]

LEMMA ResolveKeeps ==
  ASSUME IInv, ResolveOpHeads
  PROVE  IInv'
<1>1. PICK h1 \in opHeads, h2 \in opHeads :
             /\ ops' = Append(ops, MergeRec(h1, h2))
             /\ opHeads' = (opHeads \ {h1, h2}) \cup {Len(ops) + 1}
  BY DEF ResolveOpHeads, MergeRec
<1>2. h1 \in OpIds /\ h2 \in OpIds
  BY DEF IInv
<1>3. MergeRec(h1, h2) \in OpRecs
  <2>1. ops[h1].view \in SUBSET Items /\ ops[h2].view \in SUBSET Items
    BY <1>2, OpInLog
  <2>2. MergeRec(h1, h2).view \in SUBSET Items
    BY <2>1, MergeViewsType DEF MergeRec
  <2>3. <<h1, h2>> \in Seq(Nat)
    BY <1>2 DEF OpIds
  <2>4. QED
    BY <2>2, <2>3 DEF MergeRec, OpRecs, Descs
<1>4. Len(MergeRec(h1, h2).parents) # 1 /\ MergeRec(h1, h2).desc.kind # "undo"
  BY DEF MergeRec
<1>5. PSet(MergeRec(h1, h2)) = {h1, h2}
  BY DEF PSet, MergeRec
<1>6. tx' = tx
  BY DEF ResolveOpHeads
<1>7. QED
  BY <1>1, <1>2, <1>3, <1>4, <1>5, <1>6, AppendStep DEF IInv

LEMMA StartOtherKeeps ==
  ASSUME IInv, NEW p \in Procs, NEW item \in Items, StartOtherCommand(p, item)
  PROVE  IInv'
<1> DEFINE v == ops[HeadOp].view
           r == [st |-> "tx", base |-> HeadOp, desc |-> [kind |-> "other"],
                 view |-> IF item \in v THEN v \ {item} ELSE v \cup {item}]
<1>1. HeadOp \in OpIds /\ v \in SUBSET Items
  BY HeadOpInLog, OpInLog
<1>2. r \in TxRecs /\ r # Idle /\ TxOK(r)
  BY <1>1 DEF TxRecs, Descs, Idle, TxOK, OpIds
<1>3. tx' = [tx EXCEPT ![p] = r] /\ ops' = ops /\ opHeads' = opHeads
  BY DEF StartOtherCommand
<1>4. QED
  BY <1>2, <1>3, OpenTx

LEMMA RestoreKeeps ==
  ASSUME IInv, NEW p \in Procs, NEW t \in OpIds, CmdOpRestore(p, t)
  PROVE  IInv'
<1> DEFINE r == [st |-> "tx", base |-> HeadOp, desc |-> [kind |-> "restore", op |-> t],
                 view |-> ops[t].view]
<1>1. HeadOp \in OpIds /\ ops[t].view \in SUBSET Items
  BY HeadOpInLog, OpInLog
<1>2. r \in TxRecs /\ r # Idle /\ TxOK(r)
  BY <1>1 DEF TxRecs, Descs, Idle, TxOK, OpIds
<1>3. tx' = [tx EXCEPT ![p] = r] /\ ops' = ops /\ opHeads' = opHeads
  BY DEF CmdOpRestore
<1>4. QED
  BY <1>2, <1>3, OpenTx

(***************************************************************************)
(* cmd_op_undo either refuses (nothing but its outcome changes) or opens  *)
(* the undo of a single-parent operation: the guards are what make the    *)
(* open transaction satisfy TxOK.                                          *)
(***************************************************************************)
LEMMA UndoKeeps ==
  ASSUME IInv, NEW p \in Procs, NEW t \in OpIds, CmdOpUndo(p, t)
  PROVE  IInv'
<1> DEFINE parent_ops == ops[t].parents
           r == [st |-> "tx", base |-> HeadOp, desc |-> [kind |-> "undo", op |-> t],
                 view |-> MergeViews(ops[HeadOp].view, ops[t].view, ops[parent_ops[1]].view)]
<1>1. CASE Len(parent_ops) = 1
  <2>1. HeadOp \in OpIds /\ parent_ops[1] \in OpIds
    BY <1>1, HeadOpInLog, ParentBefore DEF OpIds
  <2>2. ops[HeadOp].view \in SUBSET Items /\ ops[parent_ops[1]].view \in SUBSET Items
    BY <2>1, OpInLog
  <2>3. r.view \in SUBSET Items
    BY <2>2, MergeViewsType
  <2>4. r \in TxRecs /\ r # Idle
    BY <2>1, <2>3 DEF TxRecs, Descs, Idle, OpIds
  <2>5. TxOK(r)
    BY <1>1, <2>1 DEF TxOK, UndoView
  <2>6. tx' = [tx EXCEPT ![p] = r] /\ ops' = ops /\ opHeads' = opHeads
    BY <1>1 DEF CmdOpUndo
  <2>7. QED
    BY <2>4, <2>5, <2>6, OpenTx
<1>2. CASE Len(parent_ops) # 1
  <2>1. tx' = tx /\ ops' = ops /\ opHeads' = opHeads
    BY <1>2 DEF CmdOpUndo
  <2>2. QED
    BY <2>1, LogUnchanged
<1>3. QED
  BY <1>1, <1>2

LEMMA NextKeepsIInv == IInv /\ [Next]_vars => IInv'
<1> SUFFICES ASSUME IInv, [Next]_vars PROVE IInv'
  OBVIOUS
<1>1. CASE ResolveOpHeads
  BY <1>1, ResolveKeeps
<1>2. ASSUME NEW p \in Procs, CmdOperation(p) PROVE IInv'
  BY <1>2, UndoKeeps, RestoreKeeps DEF CmdOperation
<1>3. ASSUME NEW p \in Procs, NEW item \in Items, StartOtherCommand(p, item) PROVE IInv'
  BY <1>3, StartOtherKeeps
<1>4. ASSUME NEW p \in Procs, Finish(p) PROVE IInv'
  BY <1>4, FinishKeeps
<1>5. CASE UNCHANGED vars
  BY <1>5, LogUnchanged DEF vars
<1>6. QED
  BY <1>1, <1>2, <1>3, <1>4, <1>5 DEF Next

\* The outcome of each process's last command is one of four.
OutOK == out \in [Procs -> {"none", "ok", "cannot_undo_merge", "cannot_undo_init"}]

LEMMA OutKeeps == OutOK /\ [Next]_vars => OutOK'
<1> SUFFICES ASSUME OutOK, [Next]_vars PROVE OutOK'
  OBVIOUS
<1>1. CASE ResolveOpHeads
  BY <1>1 DEF ResolveOpHeads, OutOK
<1>2. ASSUME NEW p \in Procs, NEW t \in OpIds, CmdOpUndo(p, t) PROVE OutOK'
  BY <1>2 DEF CmdOpUndo, OutOK
<1>3. ASSUME NEW p \in Procs, NEW t \in OpIds, CmdOpRestore(p, t) PROVE OutOK'
  BY <1>3 DEF CmdOpRestore, OutOK
<1>4. ASSUME NEW p \in Procs, NEW item \in Items, StartOtherCommand(p, item) PROVE OutOK'
  BY <1>4 DEF StartOtherCommand, OutOK
<1>5. ASSUME NEW p \in Procs, Finish(p) PROVE OutOK'
  BY <1>5 DEF Finish, OutOK
<1>6. CASE UNCHANGED vars
  BY <1>6 DEF vars, OutOK
<1>7. QED
  BY <1>1, <1>2, <1>3, <1>4, <1>5, <1>6 DEF Next, CmdOperation

\* The invariant gives the type: OpRecs is the type's record set, and an
\* open transaction's base is an operation of the log.
LEMMA IInvType == IInv /\ OutOK => TypeOK
<1> SUFFICES ASSUME IInv, OutOK PROVE TypeOK
  OBVIOUS
<1>1. OpRecs = [parents : Seq(Nat), view : SUBSET Items, desc : [kind : {"init", "merge", "other"}]]
               \cup [parents : Seq(Nat), view : SUBSET Items,
                     desc : [kind : {"undo", "restore"}, op : Nat]]
  BY DEF OpRecs, Descs
<1>2. \A p \in Procs : tx[p] = Idle \/ (tx[p].st = "tx" /\ tx[p].base \in OpIds)
  BY DEF IInv, TxRecs, TxOK
<1>3. QED
  BY <1>1, <1>2 DEF IInv, OutOK, TypeOK

(***************************************************************************)
(* The state keeps its type for every set of processes: in particular the *)
(* op heads store is never emptied by tx.finish or the op heads merge,    *)
(* and every open transaction is based on an operation of the log.        *)
(***************************************************************************)
THEOREM TypeCorrect == Spec => []TypeOK
<1>1. Init => IInv /\ OutOK
  BY InitIInv DEF Init, OutOK
<1>2. IInv /\ OutOK /\ [Next]_vars => IInv' /\ OutOK'
  BY NextKeepsIInv, OutKeeps
<1>3. IInv /\ OutOK => TypeOK
  BY IInvType
<1>4. QED
  BY <1>1, <1>2, <1>3, PTL DEF Spec

=============================================================================
