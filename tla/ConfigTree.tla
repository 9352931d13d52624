----------------------------- MODULE ConfigTree -----------------------------
(***************************************************************************)
(* voltha/core/config: a tree of configuration nodes with transactions.    *)
(* The root node has data of its own and one keyed list of children, which *)
(* are leaves. A node has a branch of revisions for the committed content  *)
(* and one for each transaction that wrote to it; a child's branch is made *)
(* at the first write, from what is committed then.                        *)
(*                                                                         *)
(* A revision is an object: two revisions of the same content have the     *)
(* same hash but are not the same. The code compares lists of revisions by *)
(* identity and revisions by hash.                                         *)
(***************************************************************************)
EXTENDS Naturals, Sequences, FiniteSets, SequencesExt

CONSTANTS
    Keys,       \* keys of the children
    Values,     \* data of the root and of the children
    Txids,      \* transactions
    None,       \* Python's None
    Initial,    \* the keys of the initial children, in order
    Default,    \* the initial data
    MaxOps      \* operations in a behaviour

ASSUME ConfigAssumption ==
    /\ Initial \in Seq(Keys) /\ Cardinality(ToSet(Initial)) = Len(Initial)
    /\ Default \in Values
    /\ None \notin Keys \cup Values \cup Txids
    /\ MaxOps \in Nat

(* A node is its key and the operation that added it; a revision is named  *)
(* by its node and the operation that made it. branch is a transaction or  *)
(* None; hash is None after clear_hash.                                    *)
Nodes == Keys \X (0..MaxOps)
Revisions == [node : Nodes, data : Values, hash : Values \cup {None},
              branch : Txids \cup {None}, op : 0..MaxOps]
NewRev(node, v, b, op) == [node |-> node, data |-> v, hash |-> v, branch |-> b, op |-> op]
KeyOf(rev) == rev.node[1]

VARIABLES
    root,       \* latest of the committed branch of the root: data and children
    latest,     \* latest of the committed branch of each child node
    status,     \* of a transaction: "new", "open" or "closed"
    fork,       \* origin of the transaction's branch of the root, None when there is none
    work,       \* latest of that branch
    branches,   \* the transaction's branches of child nodes: origin and latest
    told,       \* what the last operation announced
    ops,        \* operations so far
    plain       \* auxiliary: no transaction has adopted a revision, no child was
                \* replaced under a transaction, and no hash was cleared in use

txVars == <<status, fork, work, branches>>
vars == <<root, latest, status, fork, work, branches, told, ops, plain>>

KeysOf(list) == {KeyOf(list[i]) : i \in DOMAIN list}
Index(list, k) == CHOOSE i \in DOMAIN list : KeyOf(list[i]) = k
Child(list, k) == list[Index(list, k)]

IsRoot(r) ==
    /\ DOMAIN r = {"data", "children"} /\ r.data \in Values
    /\ DOMAIN r.children = 1..Len(r.children) /\ ToSet(r.children) \subseteq Revisions
    /\ Cardinality(KeysOf(r.children)) = Len(r.children)

(* Roots hold a list of children with different keys, every child node     *)
(* that was made has a committed revision, and branches are of such nodes. *)
TypeOK ==
    /\ IsRoot(root)
    /\ DOMAIN latest \subseteq Nodes /\ \A n \in DOMAIN latest : latest[n] \in Revisions
    /\ status \in [Txids -> {"new", "open", "closed"}]
    /\ \A t \in Txids :
          /\ (fork[t] = None) = (work[t] = None)
          /\ fork[t] # None => IsRoot(fork[t]) /\ IsRoot(work[t])
          /\ DOMAIN branches[t] \subseteq DOMAIN latest
          /\ \A n \in DOMAIN branches[t] :
                branches[t][n].origin \in Revisions /\ branches[t][n].latest \in Revisions
    /\ told \subseteq {"add", "update", "remove"} \X (Keys \cup {None})
    /\ ops \in 0..MaxOps
    /\ plain \in BOOLEAN

Init ==
    /\ root = [data |-> Default,
               children |-> [i \in DOMAIN Initial |-> NewRev(<<Initial[i], 0>>, Default, None, 0)]]
    /\ latest = [n \in {<<k, 0>> : k \in ToSet(Initial)} |-> NewRev(n, Default, None, 0)]
    /\ status = [t \in Txids |-> "new"]
    /\ fork = [t \in Txids |-> None]
    /\ work = [t \in Txids |-> None]
    /\ branches = [t \in Txids |-> <<>>]
    /\ told = {}
    /\ ops = 0
    /\ plain = TRUE

Operation == ops < MaxOps /\ ops' = ops + 1

(* f with n |-> x, and f without the nodes S.                              *)
With(f, n, x) == [m \in DOMAIN f \cup {n} |-> IF m = n THEN x ELSE f[m]]
Without(f, S) == [m \in DOMAIN f \ S |-> f[m]]

-----------------------------------------------------------------------------
(* update, add and remove, committed (b = None) or in a transaction *)

Usable(b) == b \in {None} \cup {t \in Txids : status[t] = "open"}

(* A root is made from the hashes of its children: without one of them     *)
(* this raises a TypeError. add, remove and updateRoot have changed        *)
(* nothing then, update and a commit have.                                 *)
Hashed(r) == \A i \in DOMAIN r.children : r.children[i].hash # None

(* The root that an operation on b changes, and the change. Only the       *)
(* committed branch announces.                                             *)
Tip(b) == IF b = None THEN root ELSE work[b]

MakeLatest(b, r, changes) ==
    IF b = None
    THEN root' = r /\ told' = changes /\ UNCHANGED <<status, fork, work>>
    ELSE work' = [work EXCEPT ![b] = r] /\ told' = {} /\ UNCHANGED <<root, status, fork>>

updateRoot(b, v) ==
    /\ Operation /\ Usable(b)
    /\ Tip(b).data # v /\ Hashed(Tip(b))
    /\ MakeLatest(b, [Tip(b) EXCEPT !.data = v], {<<"update", None>>})
    /\ UNCHANGED <<latest, branches>>

add(b, k, v) ==
    /\ Operation /\ Usable(b)
    /\ k \notin KeysOf(Tip(b).children) /\ Hashed(Tip(b))
    /\ LET rev == NewRev(<<k, ops>>, v, None, ops)
       IN  /\ latest' = With(latest, rev.node, rev)
           /\ MakeLatest(b, [Tip(b) EXCEPT !.children = Append(@, rev)], {<<"add", k>>})
    /\ UNCHANGED branches

remove(b, k) ==
    /\ Operation /\ Usable(b)
    /\ k \in KeysOf(Tip(b).children)
    /\ LET next == [Tip(b) EXCEPT !.children = RemoveAt(@, Index(@, k))]
       IN  Hashed(next) /\ MakeLatest(b, next, {<<"remove", k>>})
    /\ UNCHANGED <<latest, branches>>

(* The branch of node n in b: its origin and its latest revision.          *)
BranchOf(b, n) ==
    IF b # None /\ n \in DOMAIN branches[b] THEN branches[b][n]
    ELSE [origin |-> latest[n], latest |-> latest[n]]

(* What ConfigNode.update makes of child k: the revision in the list, the  *)
(* latest one of the node's branch, and the one that update returns.       *)
Listed(b, k) == Child(Tip(b).children, k)
Own(b, k) == BranchOf(b, Listed(b, k).node).latest
Updated(b, k, v) ==
    IF Own(b, k).data # v THEN NewRev(Listed(b, k).node, v, b, ops) ELSE Own(b, k)

(* Mutant: a transaction's revision goes to the committed branch.          *)
SetLatestCommitted(b, n, rev) == latest' = [latest EXCEPT ![n] = rev] /\ UNCHANGED branches

SetLatest(b, n, rev) ==
    IF b = None
    THEN latest' = [latest EXCEPT ![n] = rev] /\ UNCHANGED branches
    ELSE /\ branches' = [branches EXCEPT ![b] = With(@, n, [BranchOf(b, n) EXCEPT !.latest = rev])]
         /\ UNCHANGED latest

(* The child's hash changes: the root gets a new revision too. When that   *)
(* raises, the child keeps what it got and its change is announced.        *)
update(b, k, v) ==
    /\ Operation /\ Usable(b)
    /\ k \in KeysOf(Tip(b).children)
    /\ LET rev == Updated(b, k, v)
           next == [Tip(b) EXCEPT !.children = ReplaceAt(@, Index(@, k), rev)]
       IN  /\ rev.hash # Listed(b, k).hash
           /\ SetLatest(b, rev.node, rev)
           /\ MakeLatest(b, IF Hashed(next) THEN next ELSE Tip(b),
                         IF Own(b, k).data # v THEN {<<"update", k>>} ELSE {})

(* The hash is the one in the list: the root stays as it is. A revision    *)
(* made for nothing loses its hash, so that its end leaves the database    *)
(* alone; it is the latest of its branch, and announced, all the same.     *)
updateSame(b, k, v) ==
    /\ Operation /\ Usable(b)
    /\ k \in KeysOf(Tip(b).children)
    /\ LET rev == Updated(b, k, v)
           made == rev # Own(b, k)
       IN  /\ rev.hash = Listed(b, k).hash
           /\ made \/ rev = Listed(b, k)
           /\ SetLatest(b, rev.node, IF made THEN [rev EXCEPT !.hash = None] ELSE rev)
           /\ told' = IF made /\ b = None THEN {<<"update", k>>} ELSE {}
    /\ UNCHANGED <<root, status, fork, work>>

(* The revision returned was not made for this update: it is the node's    *)
(* latest one, another object of the same content as the one in the list.  *)
(* It loses its hash wherever it is referred to.                           *)
clearHash(b, k, v) ==
    /\ Operation /\ Usable(b)
    /\ k \in KeysOf(Tip(b).children)
    /\ LET own == Own(b, k)
           Clear(rev) == IF rev = own THEN [rev EXCEPT !.hash = None] ELSE rev
           ClearIn(r) == [r EXCEPT !.children = [i \in DOMAIN @ |-> Clear(@[i])]]
       IN  /\ own.data = v /\ own.hash = Listed(b, k).hash /\ own # Listed(b, k)
           /\ root' = ClearIn(root)
           /\ latest' = [n \in DOMAIN latest |-> Clear(latest[n])]
           /\ fork' = [t \in Txids |-> IF fork[t] = None THEN None ELSE ClearIn(fork[t])]
           /\ work' = [t \in Txids |-> IF work[t] = None THEN None ELSE ClearIn(work[t])]
           /\ branches' = [t \in Txids |->
                 LET has == IF t = b THEN With(branches[t], own.node, BranchOf(b, own.node))
                            ELSE branches[t]
                 IN  [n \in DOMAIN has |-> [origin |-> Clear(has[n].origin), latest |-> Clear(has[n].latest)]]]
           /\ told' = {}
    /\ UNCHANGED status

-----------------------------------------------------------------------------
(* Transactions *)

mk_txbranch(t) ==
    /\ Operation
    /\ status[t] = "new"
    /\ status' = [status EXCEPT ![t] = "open"]
    /\ fork' = [fork EXCEPT ![t] = root]
    /\ work' = [work EXCEPT ![t] = root]
    /\ told' = {}
    /\ UNCHANGED <<root, latest, branches>>

Deleted(t) ==
    /\ status' = [status EXCEPT ![t] = "closed"]
    /\ fork' = [fork EXCEPT ![t] = None]
    /\ work' = [work EXCEPT ![t] = None]

del_txbranch(t) ==
    /\ Deleted(t)
    /\ branches' = [branches EXCEPT ![t] = <<>>]
    /\ told' = {}
    /\ UNCHANGED <<root, latest>>

cancel(t) == Operation /\ status[t] = "open" /\ del_txbranch(t)

(* _merge_txbranch of a child, which is merge_3way without children.       *)
ChildCollision(t, rev) ==
    LET br == branches[t][rev.node]
        dst == latest[rev.node]
    IN  dst.data # br.origin.data /\ dst.data # br.latest.data

MergedData(t, n) ==
    LET br == branches[t][n]
    IN  IF latest[n].data = br.origin.data THEN br.latest.data ELSE latest[n].data

(* Mutant: only a change of the destination counts.                        *)
ChildChangedThere(t, n) == latest[n].data # branches[t][n].origin.data

ChildChanged(t, n) ==
    LET br == branches[t][n]
    IN  latest[n].data # br.origin.data \/ latest[n].data # br.latest.data

(* merge_child: only a revision of this transaction is merged. A dry run   *)
(* returns None for it.                                                    *)
merge_child(t, rev, dry) ==
    CASE rev.branch # t -> rev
      [] rev.branch = t /\ dry -> None
      [] rev.branch = t /\ ~dry -> NewRev(rev.node, MergedData(t, rev.node), None, ops)

(* AnalyzeChanges, in the order of the lists.                              *)
KeySeq(list) == [i \in DOMAIN list |-> KeyOf(list[i])]
Added(list1, list2) == SelectSeq(KeySeq(list2), LAMBDA k : k \notin KeysOf(list1))
Removed(list1, list2) == SelectSeq(KeySeq(list1), LAMBDA k : k \notin KeysOf(list2))
Changed(list1, list2) ==
    SelectSeq(KeySeq(list1),
              LAMBDA k : k \in KeysOf(list2) /\ Child(list1, k).hash # Child(list2, k).hash)

(* merge_3way of the root. An accumulator holds the new list, the nodes    *)
(* merged, what is to be announced, and whether an exception was raised: a *)
(* "conflict", or an "error" of another type.                              *)
MergeLists(t, dry) ==
    LET f == fork[t].children
        s == work[t].children
        d == root.children
        start(list) == [out |-> "ok", list |-> list, nodes |-> {}, told |-> {}]
        Merge(acc, list, rev) ==
            IF rev.branch = t /\ ChildCollision(t, rev) THEN [acc EXCEPT !.out = "conflict"]
            ELSE [acc EXCEPT !.list = list,
                             !.nodes = IF rev.branch = t THEN @ \cup {rev.node} ELSE @]
        Announce(acc, type, k) == [acc EXCEPT !.told = @ \cup {<<type, k>>}]
        (* the data of a new child is announced, but a dry run has none    *)
        AddMerged(acc, list, k) ==
            IF dry /\ Child(s, k).branch = t THEN [acc EXCEPT !.out = "error"]
            ELSE Announce(Merge(acc, list, Child(s, k)), "add", k)
        mine(k) == merge_child(t, Child(s, k), dry)
        (* the destination did not change                                  *)
        fastAdd(acc, k) == AddMerged(acc, ReplaceAt(acc.list, Index(s, k), mine(k)), k)
        fastChange(acc, k) == Merge(acc, ReplaceAt(acc.list, Index(s, k), mine(k)), Child(s, k))
        fastRemove(acc, k) == Announce(acc, "remove", k)
        (* it did                                                          *)
        slowAdd(acc, k) ==
            CASE k \notin KeysOf(d) -> AddMerged(acc, Append(acc.list, mine(k)), k)
              [] k \in KeysOf(d) /\ Child(d, k).hash = Child(s, k).hash -> acc
              [] k \in KeysOf(d) /\ Child(d, k).hash # Child(s, k).hash -> [acc EXCEPT !.out = "conflict"]
        slowChange(acc, k) ==
            CASE k \notin KeysOf(d) -> [acc EXCEPT !.out = "conflict"]
              [] k \in KeysOf(d) /\ Child(d, k).hash = Child(f, k).hash ->
                    Merge(acc, ReplaceAt(acc.list, Index(d, k), mine(k)), Child(s, k))
              [] k \in KeysOf(d) /\ Child(d, k).hash = Child(s, k).hash -> Merge(acc, acc.list, Child(s, k))
              [] k \in KeysOf(d) /\ Child(d, k).hash \notin {Child(f, k).hash, Child(s, k).hash} ->
                    [acc EXCEPT !.out = "conflict"]
        (* the position is the one before any other child was removed      *)
        slowRemove(acc, k) ==
            CASE k \notin KeysOf(d) -> acc
              [] k \in KeysOf(d) /\ Child(d, k).hash # Child(f, k).hash -> [acc EXCEPT !.out = "conflict"]
              [] k \in KeysOf(d) /\ Child(d, k).hash = Child(f, k).hash ->
                    LET i == Index(d, k)
                    IN  IF i > Len(acc.list) THEN [acc EXCEPT !.out = "error"]
                        ELSE IF acc.list[i] = None THEN [acc EXCEPT !.out = "error"]
                        ELSE Announce([acc EXCEPT !.list = RemoveAt(@, i)], "remove", KeyOf(acc.list[i]))
        Each(Step(_, _), acc, keys) ==
            FoldLeft(LAMBDA x, k : IF x.out = "ok" THEN Step(x, k) ELSE x, acc, keys)
    IN  CASE d = s -> start(d)
          [] d # s /\ d = f ->
                Each(fastChange, Each(fastRemove, Each(fastAdd, start(s), Added(f, s)), Removed(f, s)),
                     Changed(f, s))
          [] d # s /\ d # f ->
                Each(slowRemove, Each(slowChange, Each(slowAdd, start(d), Added(f, s)), Changed(f, s)),
                     Reverse(Removed(f, s)))

(* Mutant: a collision takes a change of the transaction, whose data still *)
(* replaces the root's.                                                    *)
RootCollisionBoth(t) ==
    root.data # fork[t].data /\ work[t].data # fork[t].data /\ root.data # work[t].data

RootCollision(t) == root.data # fork[t].data /\ root.data # work[t].data

(* Mutant: a dry run does not look at the children.                        *)
merge_3wayShallow(t, dry) ==
    IF RootCollision(t) THEN [out |-> "conflict", list |-> <<>>, nodes |-> {}, told |-> {}]
    ELSE IF dry THEN [out |-> "ok", list |-> root.children, nodes |-> {}, told |-> {}]
    ELSE MergeLists(t, dry)

merge_3way(t, dry) ==
    IF RootCollision(t) THEN [out |-> "conflict", list |-> <<>>, nodes |-> {}, told |-> {}]
    ELSE MergeLists(t, dry)

SameHash(r1, r2) ==
    /\ r1.data = r2.data
    /\ [i \in DOMAIN r1.children |-> <<KeyOf(r1.children[i]), r1.children[i].hash>>] =
       [i \in DOMAIN r2.children |-> <<KeyOf(r2.children[i]), r2.children[i].hash>>]

RootChanged(t) == root.data # fork[t].data \/ root.data # work[t].data

Merged(t) == [data |-> IF RootChanged(t) THEN work[t].data ELSE root.data,
              children |-> merge_3way(t, FALSE).list]

MergeRaises(t) ==
    LET merged == merge_3way(t, FALSE)
    IN  merged.out # "ok" \/ \E i \in DOMAIN merged.list : merged.list[i].hash = None

(* The children are merged before the root is made: when that raises, they *)
(* stay merged, and the transaction's branch of the root stays.            *)
_merge_txbranch(t) ==
    LET merged == merge_3way(t, FALSE)
    IN  /\ latest' = [n \in DOMAIN latest |->
              IF n \in merged.nodes /\ MergedData(t, n) # latest[n].data
              THEN NewRev(n, MergedData(t, n), None, ops) ELSE latest[n]]
        /\ branches' = [branches EXCEPT ![t] = Without(@, merged.nodes)]
        /\ LET updates == {<<"update", n[1]>> : n \in {m \in merged.nodes : ChildChanged(t, m)}}
           IN  \/ /\ ~MergeRaises(t)
                  /\ Deleted(t)
                  /\ root' = IF SameHash(Merged(t), root) THEN root ELSE Merged(t)
                  /\ told' = updates \cup merged.told
                                     \cup (IF RootChanged(t) THEN {<<"update", None>>} ELSE {})
               \/ /\ MergeRaises(t)
                  /\ status' = [status EXCEPT ![t] = "closed"]
                  /\ told' = updates
                  /\ UNCHANGED <<root, fork, work>>

(* commit: a dry run, then the merge. A conflict deletes the transaction;  *)
(* any other exception only closes it.                                     *)
fold_txbranch(t) ==
    /\ Operation /\ status[t] = "open"
    /\ LET out == merge_3way(t, TRUE).out
       IN  \/ out = "ok" /\ _merge_txbranch(t)
           \/ out = "conflict" /\ del_txbranch(t)
           \/ /\ out = "error"
              /\ status' = [status EXCEPT ![t] = "closed"]
              /\ told' = {}
              /\ UNCHANGED <<root, latest, fork, work, branches>>

-----------------------------------------------------------------------------
(* A child is set to what is committed for it, which is not what the       *)
(* transaction has in its list: it adopts the committed revision.          *)
Adopts(b, k, v) == Own(b, k).data = v /\ Own(b, k) # Listed(b, k)

(* A child is removed and another one added with its key, while a          *)
(* transaction is open that has seen the first.                            *)
Replaces(k) == \E t \in Txids : status[t] = "open" /\ k \in KeysOf(fork[t].children)

(* These, and a hash that is cleared, are what the tree does not survive.  *)
Next ==
    \/ \E b \in Txids \cup {None}, k \in Keys, v \in Values :
          \/ update(b, k, v) /\ plain' = (plain /\ ~Adopts(b, k, v))
          \/ add(b, k, v) /\ plain' = (plain /\ ~Replaces(k))
          \/ clearHash(b, k, v) /\ plain' = FALSE
    \/ /\ \/ \E b \in Txids \cup {None}, v \in Values : updateRoot(b, v)
          \/ \E b \in Txids \cup {None}, k \in Keys : remove(b, k)
          \/ \E b \in Txids \cup {None}, k \in Keys, v \in Values : updateSame(b, k, v)
          \/ \E t \in Txids : mk_txbranch(t) \/ cancel(t) \/ fold_txbranch(t)
       /\ UNCHANGED plain

Spec == Init /\ [][Next]_vars

-----------------------------------------------------------------------------
(* Properties *)

Content(r) ==
    [p \in Keys \cup {None} |->
        IF p = None THEN r.data
        ELSE IF p \in KeysOf(r.children) THEN Child(r.children, p).data ELSE None]

(* The root and the child nodes agree: what is read through a proxy of a   *)
(* child is what is read through the root. A commit merges the root and    *)
(* each child on its own.                                                  *)
TreeConsistent ==
    plain => \A i \in DOMAIN root.children :
                latest[root.children[i].node].data = root.children[i].data

(* The dry run of a commit decides: when it raises nothing, neither does   *)
(* the merge, which changes one node after the other and undoes nothing.   *)
(* The dry run makes no revision, so that it does not meet a hash that was *)
(* cleared in the committed list or in the transaction's: those have all   *)
(* of theirs here, and DryRunForesees is the claim without this premise.   *)
DryRunDecides ==
    \A t \in Txids :
        /\ status[t] = "open" /\ Hashed(root) /\ Hashed(work[t])
        /\ merge_3way(t, TRUE).out = "ok"
        => ~MergeRaises(t)

(* Every change of the committed content is announced, whether it comes    *)
(* from an operation or from one of many in a commit: a child that comes   *)
(* or goes, and new data of a node.                                        *)
ChangesAnnounced ==
    [][plain' =>
       LET old == root.children
           new == root'.children
       IN  /\ \A k \in KeysOf(new) \ KeysOf(old) : <<"add", k>> \in told'
           /\ \A k \in KeysOf(old) \ KeysOf(new) : <<"remove", k>> \in told'
           /\ \A k \in KeysOf(old) \cap KeysOf(new) :
                 Child(old, k).data # Child(new, k).data => <<"update", k>> \in told'
           /\ root.data # root'.data => <<"update", None>> \in told']_vars

(* Two of the children that the transaction removed have changed places in *)
(* the committed list, which takes a direct removal and a direct addition  *)
(* of one of them.                                                         *)
Reordered(t) ==
    LET gone == SelectSeq(Removed(fork[t].children, work[t].children),
                          LAMBDA k : k \in KeysOf(root.children))
    IN  \E i, j \in DOMAIN gone :
            i < j /\ Index(root.children, gone[i]) > Index(root.children, gone[j])

(* The tree implements the store with transactions: each step of the tree  *)
(* is one of the store. The commit of a transaction whose removed children *)
(* were reordered is left out: merge_3way removes by position, from the    *)
(* last to the first in the order of the fork, and positions in another    *)
(* order are those of other children by then (see CommitMerges).           *)
Contents == {c \in [Keys \cup {None} -> Values \cup {None}] : c[None] # None}
T == INSTANCE TxStore WITH
        current <- Content(root),
        fork <- [t \in Txids |-> IF status[t] = "open" THEN Content(fork[t]) ELSE None],
        work <- [t \in Txids |-> IF status[t] = "open" THEN Content(work[t]) ELSE None]
ImplementsStore ==
    /\ T!Init
    /\ [][\/ T!Next
          \/ \E t \in Txids : status[t] = "open" /\ status'[t] = "closed" /\ Reordered(t)]_(T!vars)

(* merge_3way.py, lines 32-33: a commit takes into account what has        *)
(* changed in both revisions since the fork. Each place that the           *)
(* transaction changed has its content, every other keeps its own.         *)
CommitMerges ==
    [][\A t \in Txids :
          fold_txbranch(t) /\ merge_3way(t, TRUE).out = "ok" /\ ~MergeRaises(t) =>
             Content(root') = [p \in Keys \cup {None} |->
                IF Content(work[t])[p] # Content(fork[t])[p] THEN Content(work[t])[p]
                ELSE Content(root)[p]]]_vars

(* merge_3way.py, line 160: an updated child gets its own change event.    *)
EveryUpdateAnnounced ==
    [][\A k \in KeysOf(root.children) \cap KeysOf(root'.children) :
          Child(root.children, k).data # Child(root'.children, k).data => <<"update", k>> \in told']_vars

(* config_node.py, lines 250-252: a revision whose hash is cleared is not  *)
(* referred to by any other data structure, least of all the tree.         *)
CommittedHashed == Hashed(root)

(* config_root.py, lines 77-84: what may refuse a commit is found by a dry *)
(* run, before anything is changed.                                        *)
DryRunForesees ==
    \A t \in Txids : status[t] = "open" /\ merge_3way(t, TRUE).out = "ok" => ~MergeRaises(t)

(* config_proxy.py, line 120: either way the transaction is deleted.       *)
CommitDeletes ==
    \A t \in Txids : status[t] = "closed" => fork[t] = None /\ branches[t] = <<>>
=============================================================================
