------------------------------- MODULE OpLog -------------------------------
(***************************************************************************)
(* `jj op undo` and `jj op restore` (src/commands/operation.rs) over the   *)
(* operation log, with commands of several processes interleaving.         *)
(*                                                                         *)
(* An operation has its parents, the view it recorded and the description *)
(* of its transaction.  A view is abstracted to the set of items (heads,  *)
(* refs) it holds.  A command loads the repo at the single op head, works *)
(* in a transaction based on that operation and later commits it as a new *)
(* operation whose parent is that base, even when another process has     *)
(* committed meanwhile; the op heads then diverge and the next load       *)
(* merges them into a merge operation.  The operation store, the repo     *)
(* loader and MutableRepo::merge are outside src/ and are modelled from   *)
(* the documented behaviour of the operation log.                          *)
(***************************************************************************)
EXTENDS Naturals, Sequences, FiniteSets

CONSTANTS Items,   \* what a view may hold
          Procs,   \* processes running jj commands
          MaxOps   \* the most operations the log may hold

ASSUME OpLogAssumption == IsFiniteSet(Items) /\ MaxOps \in Nat \ {0}

VARIABLES ops,      \* the operation log: ops[i] is operation i
          opHeads,  \* the op heads store
          tx,       \* each process: idle, or its open transaction
          out       \* each process: how its last command ended

vars == <<ops, opHeads, tx, out>>

OpIds == 1 .. Len(ops)

Idle == [st |-> "idle"]

\* The root operation, written at repo initialization.
RootOp == [parents |-> <<>>, view |-> {}, desc |-> [kind |-> "init"]]

\* An operation and its ancestors in the log; parents have lower ids.
OpAncestors(i) ==
  LET anc[j \in OpIds] ==
        {j} \cup UNION {anc[ops[j].parents[k]] : k \in DOMAIN ops[j].parents}
  IN  anc[i]

MaxOf(S) == CHOOSE m \in S : \A x \in S : x <= m

\* MutableRepo::merge(base, other) applied to the view `cur`: what `other`
\* removed from `base` is removed, what it added is added.
MergeViews(cur, base, other) == (cur \ (base \ other)) \cup (other \ base)

Init ==
  /\ ops = <<RootOp>>
  /\ opHeads = {1}
  /\ tx = [p \in Procs |-> Idle]
  /\ out = [p \in Procs |-> "none"]

\* Mutant: the merge operation is written but not recorded as an op head.
ResolveOpHeadsDropsMerge ==
  /\ Cardinality(opHeads) >= 2 /\ Len(ops) < MaxOps
  /\ \E h1, h2 \in opHeads :
       /\ h1 < h2
       /\ LET lca == MaxOf(OpAncestors(h1) \cap OpAncestors(h2)) IN
          ops' = Append(ops, [parents |-> <<h1, h2>>,
                              view    |-> MergeViews(ops[h1].view, ops[lca].view, ops[h2].view),
                              desc    |-> [kind |-> "merge"]])
       /\ opHeads' = opHeads \ {h1, h2}
  /\ UNCHANGED <<tx, out>>

(***************************************************************************)
(* The repo loader finds several op heads and merges them, over their     *)
(* latest common ancestor, into a merge operation that replaces them as   *)
(* an op head.  The merge of n heads is taken as n-1 merges of two, each  *)
(* recorded as an operation; no command runs until one head is left.      *)
(***************************************************************************)
ResolveOpHeads ==
  /\ Cardinality(opHeads) >= 2 /\ Len(ops) < MaxOps
  /\ \E h1, h2 \in opHeads :
       /\ h1 < h2
       /\ LET lca == MaxOf(OpAncestors(h1) \cap OpAncestors(h2)) IN
          ops' = Append(ops, [parents |-> <<h1, h2>>,
                              view    |-> MergeViews(ops[h1].view, ops[lca].view, ops[h2].view),
                              desc    |-> [kind |-> "merge"]])
       /\ opHeads' = (opHeads \ {h1, h2}) \cup {Len(ops) + 1}
  /\ UNCHANGED <<tx, out>>

\* The one op head a command loads (`@`).
HeadOp == CHOOSE h \in opHeads : TRUE

\* Any other command: a transaction that adds or removes one item.
StartOtherCommand(p, item) ==
  /\ tx[p] = Idle /\ Cardinality(opHeads) = 1
  /\ LET v == ops[HeadOp].view IN
     tx' = [tx EXCEPT ![p] = [st |-> "tx", base |-> HeadOp, desc |-> [kind |-> "other"],
                              view |-> IF item \in v THEN v \ {item} ELSE v \cup {item}]]
  /\ UNCHANGED <<ops, opHeads, out>>

\* Mutant: tx.mut_repo().merge(&parent_repo, &bad_repo), arguments swapped.
CmdOpUndoSwapped(p, t) ==
  LET parent_ops == ops[t].parents IN
  /\ tx[p] = Idle /\ Cardinality(opHeads) = 1
  /\ \/ /\ Len(parent_ops) > 1
        /\ out' = [out EXCEPT ![p] = "cannot_undo_merge"] /\ UNCHANGED tx
     \/ /\ parent_ops = <<>>
        /\ out' = [out EXCEPT ![p] = "cannot_undo_init"] /\ UNCHANGED tx
     \/ /\ Len(parent_ops) = 1
        /\ tx' = [tx EXCEPT ![p] = [st |-> "tx", base |-> HeadOp, desc |-> [kind |-> "undo", op |-> t],
                                    view |-> MergeViews(ops[HeadOp].view, ops[parent_ops[1]].view,
                                                        ops[t].view)]]
        /\ UNCHANGED out
  /\ UNCHANGED <<ops, opHeads>>

(***************************************************************************)
(* cmd_op_undo: resolve the operation `t`; refuse a merge operation, then *)
(* the root operation; otherwise start a transaction at the head and      *)
(* merge into it the change from the bad operation back to its parent.    *)
(***************************************************************************)
CmdOpUndo(p, t) ==
  LET parent_ops == ops[t].parents IN
  /\ tx[p] = Idle /\ Cardinality(opHeads) = 1
  /\ \/ /\ Len(parent_ops) > 1
        /\ out' = [out EXCEPT ![p] = "cannot_undo_merge"] /\ UNCHANGED tx
     \/ /\ parent_ops = <<>>
        /\ out' = [out EXCEPT ![p] = "cannot_undo_init"] /\ UNCHANGED tx
     \/ /\ Len(parent_ops) = 1
        /\ tx' = [tx EXCEPT ![p] = [st |-> "tx", base |-> HeadOp, desc |-> [kind |-> "undo", op |-> t],
                                    view |-> MergeViews(ops[HeadOp].view, ops[t].view,
                                                        ops[parent_ops[1]].view)]]
        /\ UNCHANGED out
  /\ UNCHANGED <<ops, opHeads>>

\* cmd_op_restore: a transaction at the head whose view is set to the
\* view of operation `t`.
CmdOpRestore(p, t) ==
  /\ tx[p] = Idle /\ Cardinality(opHeads) = 1
  /\ tx' = [tx EXCEPT ![p] = [st |-> "tx", base |-> HeadOp, desc |-> [kind |-> "restore", op |-> t],
                              view |-> ops[t].view]]
  /\ UNCHANGED <<ops, opHeads, out>>

\* cmd_operation: dispatch on the subcommand (`op log` only reads).
CmdOperation(p) ==
  \E t \in OpIds : CmdOpRestore(p, t) \/ CmdOpUndo(p, t)

\* tx.finish: the transaction becomes an operation whose parent is its
\* base; the base is replaced by it among the op heads.
Finish(p) ==
  /\ tx[p].st = "tx" /\ Len(ops) < MaxOps
  /\ ops' = Append(ops, [parents |-> <<tx[p].base>>, view |-> tx[p].view, desc |-> tx[p].desc])
  /\ opHeads' = (opHeads \ {tx[p].base}) \cup {Len(ops) + 1}
  /\ tx' = [tx EXCEPT ![p] = Idle]
  /\ out' = [out EXCEPT ![p] = "ok"]

Next ==
  \/ ResolveOpHeads
  \/ \E p \in Procs :
       \/ CmdOperation(p)
       \/ \E item \in Items : StartOtherCommand(p, item)
       \/ Finish(p)

Spec == Init /\ [][Next]_vars

-----------------------------------------------------------------------------
\* The type invariant; the op heads store is never empty.
TypeOK ==
  /\ ops \in Seq([parents : Seq(Nat), view : SUBSET Items, desc : [kind : {"init", "merge", "other"}]]
                 \cup [parents : Seq(Nat), view : SUBSET Items,
                       desc : [kind : {"undo", "restore"}, op : Nat]])
  /\ opHeads \subseteq OpIds /\ opHeads # {}
  /\ \A p \in Procs : tx[p] = Idle \/ (tx[p].st = "tx" /\ tx[p].base \in OpIds)
  /\ out \in [Procs -> {"none", "ok", "cannot_undo_merge", "cannot_undo_init"}]

\* Operation o is a command's operation (one parent) that changed item x.
ChangedBy(o, x) ==
  /\ Len(ops[o].parents) = 1
  /\ (x \in ops[o].view) # (x \in ops[ops[o].parents[1]].view)

(***************************************************************************)
(* An undo keeps its effect at the op head, across the commits and the    *)
(* merges of diverged op heads that follow it or run beside it: for every *)
(* undo operation u of b that an op head h descends from, an item b       *)
(* changed and no other command after b (on any branch h merges) changed  *)
(* is, at h, as it was before b.  cmd_op_undo merges the change from b    *)
(* back to its parent into a transaction at the head it loaded, which     *)
(* another process may have left behind by the time tx.finish runs.       *)
(***************************************************************************)
UndoneAtHead ==
  \A h \in opHeads, u \in OpIds :
    (u \in OpAncestors(h) /\ ops[u].desc.kind = "undo") =>
      LET b == ops[u].desc.op IN
      \A x \in Items :
        (/\ ChangedBy(b, x)
         /\ \A o \in OpAncestors(h) \ OpAncestors(b) : o # u => ~ChangedBy(o, x))
        => ((x \in ops[h].view) = (x \in ops[ops[b].parents[1]].view))

=============================================================================
