----------------------------- MODULE ConfigTree -----------------------------
(***************************************************************************)
(* voltha/core/config: the versioned configuration tree, its transactions  *)
(* and their three-way merge.                                              *)
(*                                                                         *)
(* Every node has a committed branch and, per transaction that touched it, *)
(* a branch of its own.  A branch holds the revision it was forked from    *)
(* and its latest one.  A revision refers to the revisions of the node's   *)
(* children, so a change is carried up to the root.  commit() merges the   *)
(* branches of a transaction into the committed ones, recursively.         *)
(*                                                                         *)
(* The code runs in one thread without yielding, so an operation is a      *)
(* step; what interleaves are the operations of several clients.           *)
(*                                                                         *)
(* Data: a node's own configuration is an element of Cfg, its children are *)
(* one keyed list, and every node has a proxy.  Un-keyed and single child  *)
(* fields are left out.  A revision is a record; node and id tell revision *)
(* objects apart.                                                          *)
(***************************************************************************)
EXTENDS Naturals, FiniteSets, Sequences, SequencesExt, Functions, TLC

CONSTANTS
  Keys,      \* keys of the root's children
  SubKeys,   \* keys of their children
  Cfg,       \* values of a node's own configuration
  Tx,        \* transaction ids
  Main,      \* the id of the committed branch (None in the code)
  None,      \* Python's None
  Initial,   \* the tree at the start: a sequence of <<path, key>>
  InitCfg,   \* the configuration of its nodes
  MaxOps     \* bound: operations per transaction, and on the committed tree

VARIABLES
  store,     \* the nodes, see Empty
  tx,        \* what became of each transaction
  announced, \* the post-operation callbacks run in the last step, in order
  ops,       \* number of operations so far, per branch
  wrote      \* history: the paths that a transaction's operations concern

vars == <<store, tx, announced, ops, wrote>>

Root == 1

NodePaths == {<<>>} \cup {<<k>> : k \in Keys}

Paths == NodePaths \cup {<<k, j>> : k \in Keys, j \in SubKeys}

\* The keys that children of the node at a path may have.
ChildKeys(path) == IF path = <<>> THEN Keys ELSE SubKeys

\* The operations, for the node at the end of a path.  The data of an update
\* has the key under which the node is listed: the ValueError that update()
\* raises for another key, when the child has its new revision already, is
\* left out.
Operations(path) ==
  [kind : {"update"}, cfg : Cfg]
    \cup (IF path \notin NodePaths THEN {}
          ELSE [kind : {"add"}, key : ChildKeys(path), cfg : Cfg]
                 \cup [kind : {"remove"}, key : ChildKeys(path)])

-----------------------------------------------------------------------------
(* Revisions and nodes.                                                    *)

\* The hash stands for the content: configuration and hashes of children.
RECURSIVE Hash(_)
Hash(rev) == <<rev.key, rev.cfg, [i \in DOMAIN rev.kids |-> Hash(rev.kids[i])]>>

\* A new revision of node n in branch t.  It counts once it is made latest.
NewRev(s, n, t, key, cfg, kids) ==
  [node |-> n, tx |-> t, id |-> s.count[n] + 1, key |-> key, cfg |-> cfg,
   kids |-> kids]

\* ConfigNode(): the new node with its first revision on a committed branch.
MkNode(s, key, cfg) ==
  LET n   == Len(s.branches) + 1
      rev == [node |-> n, tx |-> Main, id |-> 1, key |-> key, cfg |-> cfg,
              kids |-> <<>>]
  IN  [s EXCEPT !.branches = Append(@, Main :> [origin |-> None, latest |-> rev]),
                !.count = Append(@, 1)]

Empty ==
  MkNode([branches |-> <<>>, count |-> <<>>, queue |-> <<>>,
          dirty |-> [t \in Tx |-> {}]], None, InitCfg)

Latest(s, n, t) == s.branches[n][t].latest

\* Only changes of the committed branch are announced.
MakeLatest(s, n, t, rev, changes) ==
  [s EXCEPT !.branches[n][t].latest = rev,
            !.count[n] = @ + 1,
            !.queue = IF t = Main THEN @ \o changes ELSE @]

\* Mutant: the node is not noted as dirty.
MkTxBranch_NotDirty(s, n, t) ==
  [s EXCEPT !.branches[n] = @ @@ (t :> [origin |-> Latest(s, n, Main),
                                        latest |-> Latest(s, n, Main)])]

\* The branch point is the committed revision at the time of the first touch.
MkTxBranch(s, n, t) ==
  [s EXCEPT !.branches[n] = @ @@ (t :> [origin |-> Latest(s, n, Main),
                                        latest |-> Latest(s, n, Main)]),
            !.dirty[t] = @ \cup {n}]

Touched(s, n, t) ==
  IF t \in DOMAIN s.branches[n] THEN s ELSE MkTxBranch(s, n, t)

DelTxBranch(s, n, t) ==
  [s EXCEPT !.branches[n] = Restrict(@, DOMAIN @ \ {t})]

KeysOf(kids) == {kids[i].key : i \in DOMAIN kids}

\* find_rev_by_key, and the keymap of AnalyzeChanges.
IndexOf(kids, key) == CHOOSE i \in DOMAIN kids : kids[i].key = key

-----------------------------------------------------------------------------
(* update, add and remove.  A result holds the store after the call, the   *)
(* revision it returns and the exception it raised, if any.                *)

Returns(s, rev) == [s |-> s, rev |-> rev, raised |-> "none"]

Raises(s, what) == [s |-> s, rev |-> None, raised |-> what]

\* A new latest revision of n in t, with a new configuration or new children.
Renewed(s, n, t, cfg, kids, changes) ==
  LET rev == NewRev(s, n, t, Latest(s, n, t).key, cfg, kids)
  IN  Returns(MakeLatest(s, n, t, rev, changes), rev)

DoUpdate(s, n, t, cfg) ==
  LET rev == Latest(s, n, t)
  IN  IF rev.cfg = cfg THEN Returns(s, rev)
      ELSE Renewed(s, n, t, cfg, rev.kids, <<<<"POST_UPDATE", n, rev.key>>>>)

DoAdd(s, n, t, key, cfg) ==
  LET rev  == Latest(s, n, t)
      s1   == MkNode(s, key, cfg)
      kids == Append(rev.kids, Latest(s1, Len(s1.branches), Main))
  IN  IF key \in KeysOf(rev.kids) THEN Raises(s, "ValueError")
      ELSE Renewed(s1, n, t, rev.cfg, kids, <<<<"POST_ADD", n, key>>>>)

DoRemove(s, n, t, key) ==
  LET rev  == Latest(s, n, t)
      kids == RemoveAt(rev.kids, IndexOf(rev.kids, key))
  IN  IF key \notin KeysOf(rev.kids) THEN Raises(s, "KeyError")
      ELSE Renewed(s, n, t, rev.cfg, kids, <<<<"POST_REMOVE", n, key>>>>)

\* The child at index i returned a new revision: carry the change up.  Only
\* update() looks whether there is a change at all, and for a changed key,
\* which Operations excludes.
Escalate(s, n, t, i, child, kind) ==
  LET rev == Latest(s, n, t)
  IN  IF kind = "update" /\ Hash(child) = Hash(rev.kids[i]) THEN Returns(s, rev)
      ELSE Renewed(s, n, t, rev.cfg, [rev.kids EXCEPT ![i] = child], <<>>)

\* ConfigNode.update, add and remove of op below node n in branch t.  A node
\* on the way gets its transaction branch even if the call raises later.
RECURSIVE Apply(_, _, _, _, _)
Apply(s0, n, t, path, op) ==
  LET s    == Touched(s0, n, t)
      kids == Latest(s, n, t).kids
      i    == IndexOf(kids, Head(path))
      r    == Apply(s, kids[i].node, t, Tail(path), op)
  IN  CASE path = <<>> /\ op.kind = "update" -> DoUpdate(s, n, t, op.cfg)
        [] path = <<>> /\ op.kind = "add"    -> DoAdd(s, n, t, op.key, op.cfg)
        [] path = <<>> /\ op.kind = "remove" -> DoRemove(s, n, t, op.key)
        [] path # <<>> /\ Head(path) \notin KeysOf(kids) -> Raises(s, "KeyError")
        [] OTHER -> IF r.raised # "none" THEN r
                    ELSE Escalate(r.s, n, t, i, r.rev, op.kind)

-----------------------------------------------------------------------------
(* The merge of a transaction's branches.  An accumulator holds the store, *)
(* the children list under construction, the changes to announce and the   *)
(* exception raised, if any; nothing happens after an exception.  A dry    *)
(* run yields None for the revision of a merged child.                     *)

KeySeq(kids) == [i \in DOMAIN kids |-> kids[i].key]

AddedKeys(old, new) == SelectSeq(KeySeq(new), LAMBDA k : k \notin KeysOf(old))

RemovedKeys(old, new) == AddedKeys(new, old)

ChangedKeys(old, new) ==
  SelectSeq(KeySeq(old), LAMBDA k :
    /\ k \in KeysOf(new)
    /\ Hash(old[IndexOf(old, k)]) # Hash(new[IndexOf(new, k)]))

RECURSIVE MergeTxBranch(_, _, _, _)

MergeChild(s, rev, t, dry) ==
  IF rev.tx = t THEN MergeTxBranch(s, rev.node, t, dry) ELSE Returns(s, rev)

\* Merge the child and put its revision at index i of the list; 0 is nowhere.
Place(a, i, rev, t, dry) ==
  LET m == MergeChild(a.s, rev, t, dry)
  IN  IF a.raised # "none" THEN a
      ELSE [s       |-> m.s,
            list    |-> IF i = 0 THEN a.list
                        ELSE [j \in DOMAIN a.list \cup {i} |->
                                IF j = i THEN m.rev ELSE a.list[j]],
            changes |-> a.changes,
            raised  |-> m.raised]

\* The same for an added child.  Its data is announced; a child that was
\* added and then changed in the transaction has none in a dry run.
PlaceAdded(a, n, i, rev, t, dry) ==
  LET b == Place(a, i, rev, t, dry)
  IN  IF b.raised # "none" THEN b
      ELSE IF b.list[i] = None THEN [b EXCEPT !.raised = "AttributeError"]
      ELSE [b EXCEPT !.changes = Append(@, <<"POST_ADD", n, rev.key>>)]

\* new_list.pop(i), with the announcement of what was popped.
Pop(a, n, i) ==
  IF a.raised # "none" THEN a
  ELSE IF i > Len(a.list) THEN [a EXCEPT !.raised = "IndexError"]
  ELSE IF a.list[i] = None THEN [a EXCEPT !.raised = "AttributeError"]
  ELSE [a EXCEPT !.list = RemoveAt(@, i),
                 !.changes = Append(@, <<"POST_REMOVE", n, a.list[i].key>>)]

Conflict(a) == IF a.raised # "none" THEN a ELSE [a EXCEPT !.raised = "MergeConflict"]

\* The lists are the same; the children may still have branches to purge.
MergeSame(a0, t, dry) ==
  FoldLeft(LAMBDA a, rev : Place(a, 0, rev, t, dry), a0, a0.list)

\* Mutant: the removals are not announced.
MergeIntoFork_RemovesSilently(a0, n, fork, src, t, dry) ==
  LET add(a, k)    == PlaceAdded(a, n, IndexOf(src, k), src[IndexOf(src, k)], t, dry)
      change(a, k) == Place(a, IndexOf(src, k), src[IndexOf(src, k)], t, dry)
      a1 == FoldLeft(add, [a0 EXCEPT !.list = src], AddedKeys(fork, src))
  IN  FoldLeft(change, a1, ChangedKeys(fork, src))

\* The committed list did not change since the fork: start from the source's.
MergeIntoFork(a0, n, fork, src, t, dry) ==
  LET add(a, k)    == PlaceAdded(a, n, IndexOf(src, k), src[IndexOf(src, k)], t, dry)
      remove(a, k) == [a EXCEPT !.changes = Append(@, <<"POST_REMOVE", n, k>>)]
      change(a, k) == Place(a, IndexOf(src, k), src[IndexOf(src, k)], t, dry)
      a1 == FoldLeft(add, [a0 EXCEPT !.list = src], AddedKeys(fork, src))
      a2 == FoldLeft(remove, a1, RemovedKeys(fork, src))
  IN  FoldLeft(change, a2, ChangedKeys(fork, src))

\* Mutant: a key that was added on both sides is added again.
MergeAdded_Twice(a, n, fork, src, dst, k, t, dry) ==
  PlaceAdded(a, n, Len(a.list) + 1, src[IndexOf(src, k)], t, dry)

\* A key that the transaction added.
MergeAdded(a, n, fork, src, dst, k, t, dry) ==
  LET rev == src[IndexOf(src, k)]
  IN  IF k \notin KeysOf(dst) THEN PlaceAdded(a, n, Len(a.list) + 1, rev, t, dry)
      ELSE IF Hash(dst[IndexOf(dst, k)]) = Hash(rev)
             THEN Place(a, 0, dst[IndexOf(dst, k)], t, dry)
             ELSE Conflict(a)

\* A key that the transaction changed.
MergeChanged(a, fork, src, dst, k, t, dry) ==
  LET i     == IndexOf(dst, k)
      rev   == src[IndexOf(src, k)]
      there == k \in Range(ChangedKeys(fork, dst))
  IN  CASE k \notin KeysOf(dst)                     -> Conflict(a)
        [] k \in KeysOf(dst) /\ there /\ Hash(dst[i]) = Hash(rev) ->
             Place(a, 0, rev, t, dry)
        [] k \in KeysOf(dst) /\ there /\ dst[i].cfg # rev.cfg -> Conflict(a)
        [] OTHER                                    -> Place(a, i, rev, t, dry)

\* Mutant: a child that changed on the committed branch is removed as well.
MergeRemoved_Unchecked(a, n, fork, dst, k) ==
  IF k \notin KeysOf(dst) THEN a ELSE Pop(a, n, IndexOf(dst, k))

\* A key that the transaction removed.  The index is the one that the key has
\* in the committed list, whatever was popped before.
MergeRemoved(a, n, fork, dst, k) ==
  IF k \in Range(ChangedKeys(fork, dst)) THEN Conflict(a)
  ELSE IF k \notin KeysOf(dst) THEN a
  ELSE Pop(a, n, IndexOf(dst, k))

\* Both lists changed: start from the committed one.
MergeLists(a0, n, fork, src, dst, t, dry) ==
  LET add(a, k)    == MergeAdded(a, n, fork, src, dst, k, t, dry)
      change(a, k) == MergeChanged(a, fork, src, dst, k, t, dry)
      remove(a, k) == MergeRemoved(a, n, fork, dst, k)
      a1 == FoldLeft(add, a0, AddedKeys(fork, src))
      a2 == FoldLeft(change, a1, ChangedKeys(fork, src))
  IN  FoldLeft(remove, a2, Reverse(RemovedKeys(fork, src)))

\* merge_3way for the children of node n.
MergeKids(s, n, fork, src, dst, t, dry) ==
  LET a == [s |-> s, list |-> dst, changes |-> <<>>, raised |-> "none"]
  IN  IF dst = src THEN MergeSame(a, t, dry)
      ELSE IF dst = fork THEN MergeIntoFork(a, n, fork, src, t, dry)
      ELSE MergeLists(a, n, fork, src, dst, t, dry)

\* A configuration changed by both must have been changed alike.
CfgCollision(fork, src, dst) == dst.cfg # fork.cfg /\ dst.cfg # src.cfg

CfgChanged(fork, src, dst) == dst.cfg # fork.cfg \/ dst.cfg # src.cfg

\* The end of merge_3way and of _merge_txbranch, a being the merged children.
MergeNode(s, n, t, dry, a) ==
  LET fork == s.branches[n][t].origin
      src  == Latest(s, n, t)
      dst  == Latest(s, n, Main)
      chg  == CfgChanged(fork, src, dst)
      r    == Renewed(a.s, n, Main, IF chg THEN src.cfg ELSE dst.cfg, a.list,
                a.changes \o IF chg THEN <<<<"POST_UPDATE", n, dst.key>>>> ELSE <<>>)
  IN  IF CfgCollision(fork, src, dst) THEN Raises(s, "MergeConflict")
      ELSE IF a.raised # "none" THEN Raises(a.s, a.raised)
      ELSE IF dry THEN Returns(s, None)
      ELSE Returns(DelTxBranch(r.s, n, t), r.rev)

\* ConfigNode._merge_txbranch with merge_3way.
MergeTxBranch(s, n, t, dry) ==
  MergeNode(s, n, t, dry,
            MergeKids(s, n, s.branches[n][t].origin.kids, Latest(s, n, t).kids,
                      Latest(s, n, Main).kids, t, dry))

-----------------------------------------------------------------------------
(* The operations of the root, which clients call through proxies and      *)
(* transactions.  Deferred callbacks run before an operation returns.      *)

RunCallbacks(s) ==
  /\ announced' = s.queue
  /\ store' = [s EXCEPT !.queue = <<>>]

\* Mutant: only the root's branch is deleted.
DelTx_RootOnly(s, t) == DelTxBranch(s, Root, t)

DelTx(s, t) ==
  [s EXCEPT !.branches = [n \in DOMAIN @ |->
                            IF n \in s.dirty[t] THEN Restrict(@[n], DOMAIN @[n] \ {t})
                            ELSE @[n]],
            !.dirty[t] = {}]

\* Mutant: no dry run.
FoldTxBranch_NoDryRun(s, t) ==
  LET r == MergeTxBranch(s, Root, t, FALSE)
  IN  IF r.raised = "MergeConflict" THEN Raises(DelTx(r.s, t), r.raised) ELSE r

\* fold_txbranch: a dry run first; only a merge conflict deletes the branches.
FoldTxBranch(s, t) ==
  LET d == MergeTxBranch(s, Root, t, TRUE)
  IN  CASE d.raised = "none"          -> MergeTxBranch(s, Root, t, FALSE)
        [] d.raised = "MergeConflict" -> Raises(DelTx(s, t), d.raised)
        [] OTHER                      -> d

Init ==
  /\ store = [FoldLeft(LAMBDA s, e : Apply(s, Root, Main, e[1],
                         [kind |-> "add", key |-> e[2], cfg |-> InitCfg]).s,
                       Empty, Initial) EXCEPT !.queue = <<>>]
  /\ tx = [t \in Tx |-> "new"]
  /\ announced = <<>>
  /\ ops = [t \in Tx \cup {Main} |-> 0]
  /\ wrote = [t \in Tx |-> {}]

OpenTransaction(t) ==
  /\ tx[t] = "new"
  /\ tx' = [tx EXCEPT ![t] = "open"]
  /\ store' = MkTxBranch(store, Root, t)
  /\ announced' = <<>>
  /\ UNCHANGED <<ops, wrote>>

\* The paths whose value an operation at a path sets.
Concerned(path, op) ==
  IF op.kind = "update" THEN {path}
  ELSE {p \in Paths : IsPrefix(Append(path, op.key), p)}

\* update, add or remove in transaction t, or directly in the committed tree.
Operate(t, path, op) ==
  LET r == Apply(store, Root, t, path, op)
  IN  /\ t \in {Main} \cup {u \in Tx : tx[u] = "open"}
      /\ ops[t] < MaxOps
      /\ ops' = [ops EXCEPT ![t] = @ + 1]
      /\ RunCallbacks(r.s)
      /\ wrote' = IF t = Main \/ r.raised # "none" THEN wrote
                  ELSE [wrote EXCEPT ![t] = @ \cup Concerned(path, op)]
      /\ UNCHANGED tx

\* The handle is closed whatever happens.
Commit(t) ==
  /\ tx[t] = "open"
  /\ \E r \in {FoldTxBranch(store, t)} :
       /\ tx' = [tx EXCEPT ![t] = CASE r.raised = "none" -> "committed"
                                    [] r.raised = "MergeConflict" -> "conflict"
                                    [] OTHER -> "failed"]
       /\ RunCallbacks(r.s)
  /\ UNCHANGED <<ops, wrote>>

\* cancel(), and the deletion of an open transaction object.
Cancel(t) ==
  /\ tx[t] = "open"
  /\ tx' = [tx EXCEPT ![t] = "cancelled"]
  /\ store' = DelTx(store, t)
  /\ announced' = <<>>
  /\ UNCHANGED <<ops, wrote>>

Next ==
  \/ \E t \in Tx : OpenTransaction(t) \/ Commit(t) \/ Cancel(t)
  \/ \E t \in Tx \cup {Main}, path \in Paths : \E op \in Operations(path) :
       Operate(t, path, op)

Spec == Init /\ [][Next]_vars

-----------------------------------------------------------------------------
(* Properties.                                                             *)

Committed == Latest(store, Root, Main)

\* The configuration at a path below a revision, None if there is no node.
RECURSIVE Value(_, _)
Value(rev, path) ==
  IF path = <<>> THEN rev.cfg
  ELSE IF Head(path) \notin KeysOf(rev.kids) THEN None
  ELSE Value(rev.kids[IndexOf(rev.kids, Head(path))], Tail(path))

\* No child of a node that t has a branch of was removed and added anew since
\* the branch was made, on either side.
NoneReplaced(t) ==
  \A n \in DOMAIN store.branches : t \in DOMAIN store.branches[n] =>
    LET fork == store.branches[n][t].origin.kids
    IN  \A u \in {Main, t} : \A i \in DOMAIN fork, j \in DOMAIN Latest(store, n, u).kids :
          LET kid == Latest(store, n, u).kids[j]
          IN  fork[i].key = kid.key => fork[i].node = kid.node

\* The revisions of a tree.
RECURSIVE Revs(_)
Revs(rev) == {rev} \cup UNION {Revs(rev.kids[i]) : i \in DOMAIN rev.kids}

\* Every branch of t was made from the revision that the root's branch point
\* refers to: no node changed between open_transaction and the first touch.
ForkedTogether(t) ==
  \A n \in DOMAIN store.branches : t \in DOMAIN store.branches[n] =>
    \A rev \in Revs(store.branches[Root][t].origin) :
      rev.node = n => rev = store.branches[n][t].origin

\* Every node has a committed branch and branches of transactions that are
\* listed as having touched it; a branch holds revisions of its node.
TypeOK ==
  /\ tx \in [Tx -> {"new", "open", "committed", "conflict", "failed", "cancelled"}]
  /\ ops \in [Tx \cup {Main} -> 0..MaxOps]
  /\ wrote \in [Tx -> SUBSET Paths]
  /\ store.queue = <<>>
  /\ DOMAIN store.count = DOMAIN store.branches
  /\ \A t \in Tx : store.dirty[t] \subseteq DOMAIN store.branches
  /\ \A n \in DOMAIN store.branches :
       /\ Main \in DOMAIN store.branches[n]
       /\ \A t \in DOMAIN store.branches[n] :
            /\ t \in Tx => n \in store.dirty[t]
            /\ Latest(store, n, t).node = n
            /\ Latest(store, n, t).cfg \in Cfg
            /\ Latest(store, n, t).id <= store.count[n]

\* fold_txbranch: what a successful commit makes of the committed tree.  A
\* path that the transaction did not write keeps what other clients made of
\* it meanwhile; a value that the transaction changed is the transaction's, and
\* nobody else changed it otherwise; no other value appears.
MergedAsAsked ==
  [][\A t \in Tx :
       tx[t] = "open" /\ tx'[t] = "committed" /\ NoneReplaced(t) /\ ForkedTogether(t) =>
         \A p \in Paths :
           LET was    == Value(store.branches[Root][t].origin, p)
               mine   == Value(Latest(store, Root, t), p)
               theirs == Value(Committed, p)
               now    == Value(Committed', p)
           IN  /\ p \notin wrote[t] => now = theirs
               /\ p \in wrote[t] /\ mine # was => now = mine /\ theirs \in {was, mine}
               /\ now \in {mine, theirs}]_vars

\* fold_txbranch's dry run: a commit that raises, whatever it raises, leaves
\* the committed branch of every node as it was and announces nothing.
FailedCommitChangesNothing ==
  [][\A t \in Tx :
       tx[t] = "open" /\ tx'[t] \in {"conflict", "failed"} =>
         /\ announced' = <<>>
         /\ \A n \in DOMAIN store.branches :
              Latest(store', n, Main) = Latest(store, n, Main)]_vars

\* del_txbranch: once a transaction was cancelled or ran into a conflict, no
\* node anywhere has a branch of it.
AbortedLeavesNoBranch ==
  \A t \in Tx : tx[t] \in {"new", "cancelled", "conflict"} =>
    \A n \in DOMAIN store.branches : t \notin DOMAIN store.branches[n]

\* add() refuses a duplicate key, and merge_3way keeps it so: no list of
\* children, in any branch, ever has two children with the same key.
KeysUnique ==
  \A n \in DOMAIN store.branches, t \in Tx \cup {Main} :
    t \in DOMAIN store.branches[n] =>
      LET kids == Latest(store, n, t).kids
      IN  Cardinality(KeysOf(kids)) = Len(kids)

\* The POST_ADD and POST_REMOVE callbacks of a step, be it an operation on
\* the committed tree or the commit of a transaction, tell the root's proxy
\* of every key that appeared or disappeared, once, and of no other.
AddsAndRemovesAnnounced ==
  [][LET told(type) == SelectSeq(announced', LAMBDA e : e[1] = type /\ e[2] = Root)
         keys(type) == {told(type)[i][3] : i \in DOMAIN told(type)}
         old == KeysOf(Committed.kids)
         new == KeysOf(Committed'.kids)
     IN  /\ keys("POST_ADD") = new \ old
         /\ keys("POST_REMOVE") = old \ new
         /\ Len(told("POST_ADD")) = Cardinality(new \ old)
         /\ Len(told("POST_REMOVE")) = Cardinality(old \ new)]_vars

\* merge_3way takes "into account what have changed in both revs": a commit
\* does not undo what other clients changed at paths it did not write.
NoLostUpdate ==
  [][\A t \in Tx, p \in Paths :
       tx[t] = "open" /\ tx'[t] = "committed" /\ p \notin wrote[t] =>
         Value(Committed', p) = Value(Committed, p)]_vars

=============================================================================
