----------------------------- MODULE ConfigStore -----------------------------
(***************************************************************************)
(* How the configuration tree is kept in the key-value store               *)
(* (src/voltha/core/config: config_rev_persisted.py, config_root.py,       *)
(* config_node.py, config_backend.py) and read back at the start of a core *)
(* (src/voltha/core/local_handler.py).                                     *)
(*                                                                         *)
(* The tree has a root, a list of keyed devices below it and one child     *)
(* below each device, as the flow table of a device is.  A revision is an  *)
(* object, by its id; the store has one blob per content, under its hash,  *)
(* and "root", which names the latest root.  A revision stores itself when *)
(* it is made and deletes its blob when its last reference goes.  Each     *)
(* access to the store is a blocking call, so a core can die between any   *)
(* two of them.                                                            *)
(***************************************************************************)
EXTENDS Naturals, Sequences, FiniteSets, SequencesExt

CONSTANTS
    Keys,        \* keys of devices
    Values,      \* contents of the child of a device
    MaxOps,      \* bound on the changes of the tree
    MaxCrashes   \* bound on the crashes

ASSUME ConfigStoreAssumption == MaxOps \in Nat /\ MaxCrashes \in Nat

VARIABLES
    up,        \* "up", "down", or "failed" to load
    latest,    \* the latest revision of the root
    revs,      \* the revisions of the root that its branch holds on to
    kept,      \* latest revisions of removed nodes: each is in a cycle with its node
    kv,        \* hashes of the blobs in the store
    pointer,   \* what "root" in the store names
    todo,      \* accesses to the store that the change under way still has to do
    done,      \* history: the content after the last finished change
    novel,     \* history: no content of the tree has come back
    ops, crashes

vars == <<up, latest, revs, kept, kv, pointer, todo, done, novel, ops, crashes>>

-----------------------------------------------------------------------------
(* A revision of the root has its devices in the order in which they were  *)
(* added, one of a device its child.                                       *)
Objects(root) ==
    {root} \cup {root.devices[i] : i \in DOMAIN root.devices}
           \cup {root.devices[i].child : i \in DOMAIN root.devices}

Content(root) ==
    [i \in DOMAIN root.devices |->
        [key |-> root.devices[i].key, value |-> root.devices[i].child.value]]

(* _hash_content: a hash stands for the content below a revision, for the  *)
(* root with its devices in the order of their list.                       *)
Hash(rev) ==
    CASE rev.kind = "root" -> <<"root", Content(rev)>>
      [] rev.kind = "device" -> <<"device", rev.key, rev.child.value>>
      [] rev.kind = "child" -> <<"child", rev.value>>

Closure(content) ==
    {<<"root", content>>}
        \cup {<<"device", content[i].key, content[i].value>> : i \in DOMAIN content}
        \cup {<<"child", content[i].value>> : i \in DOMAIN content}

Root(id, devices) == [kind |-> "root", id |-> id, devices |-> devices]
Device(id, k, v) ==
    [kind |-> "device", id |-> id, key |-> k,
     child |-> [kind |-> "child", id |-> id, key |-> k, value |-> v]]

Live(roots, cyclic) == (UNION {Objects(r) : r \in roots}) \cup cyclic

Put(rev) == [op |-> "put", hash |-> Hash(rev)]
Del(rev) == [op |-> "del", hash |-> Hash(rev)]
Point(root) == [op |-> "point", hash |-> Content(root)]

Each(Op(_), S) == LET q == SetToSeq(S) IN [i \in DOMAIN q |-> Op(q[i])]

Init ==
    /\ up = "up"
    /\ latest = Root(0, <<>>)
    /\ revs = {latest}
    /\ kept = {}
    /\ kv = Closure(<<>>)
    /\ pointer = <<>>
    /\ todo = <<>>
    /\ done = <<>>
    /\ novel = TRUE
    /\ ops = 0
    /\ crashes = 0

-----------------------------------------------------------------------------
(* Mutant: "root" is only written for a revision the branch takes in.      *)
MakeLatestPointsToNew(root, made, cyclic) ==
    LET known == Hash(root) \in {Hash(r) : r \in revs}
    IN  /\ latest' = root
        /\ revs' = IF known THEN revs ELSE revs \cup {root}
        /\ kept' = cyclic
        /\ todo' = made \o <<Put(root)>> \o (IF known THEN <<>> ELSE <<Point(root)>>)
        /\ novel' = (novel /\ ~known)

(* ConfigRoot._make_latest.  The branch of the root keeps a revision for   *)
(* each hash; one that comes back is only held as the latest, and goes     *)
(* with the next change.  It deletes its blob before "root" is written;    *)
(* what is below it follows when the call returns.                         *)
MakeLatest(root, made, cyclic) ==
    LET known == Hash(root) \in {Hash(r) : r \in revs}
        held == IF known THEN revs ELSE revs \cup {root}
        dying == Live(revs \cup {latest}, kept) \ Live(held \cup {root}, cyclic)
        first == dying \cap {latest}
    IN  /\ latest' = root
        /\ revs' = held
        /\ kept' = cyclic
        /\ todo' = made \o <<Put(root)>> \o Each(Del, first) \o <<Point(root)>>
                        \o Each(Del, dying \ first)
        /\ novel' = (novel /\ ~known)

Change ==
    /\ up = "up" /\ todo = <<>>
    /\ ops < MaxOps
    /\ ops' = ops + 1
    /\ UNCHANGED <<up, kv, pointer, done, crashes>>

(* add of a device with its child, at the end of the list.                 *)
add(k, v) ==
    /\ Change
    /\ \A i \in DOMAIN latest.devices : latest.devices[i].key # k
    /\ LET dev == Device(ops', k, v)
       IN  MakeLatest(Root(ops', Append(latest.devices, dev)),
                      <<Put(dev.child), Put(dev)>>, kept)

(* find_rev_by_key                                                         *)
IsAt(k, i) == i \in DOMAIN latest.devices /\ latest.devices[i].key = k

(* update of the child of a device, which stays where it is in the list.   *)
update(k, v) ==
    /\ Change
    /\ \E i \in DOMAIN latest.devices :
          /\ IsAt(k, i)
          /\ latest.devices[i].child.value # v
          /\ LET dev == Device(ops', k, v)
             IN  MakeLatest(Root(ops', [latest.devices EXCEPT ![i] = dev]),
                            <<Put(dev.child), Put(dev)>>, kept)

(* Mutant: the hash of the revision is not cleared.                        *)
updateSameErases(k) ==
    /\ Change
    /\ \E i \in DOMAIN latest.devices :
          /\ IsAt(k, i)
          /\ todo' = <<Put(latest.devices[i]), Del(latest.devices[i])>>
    /\ UNCHANGED <<latest, revs, kept, novel>>

(* update with the content that is there makes a revision of the device    *)
(* with the same hash, which is cleared, so that it deletes nothing.       *)
updateSame(k) ==
    /\ Change
    /\ \E i \in DOMAIN latest.devices :
          /\ IsAt(k, i)
          /\ todo' = <<Put(latest.devices[i])>>
    /\ UNCHANGED <<latest, revs, kept, novel>>

(* remove of a device: the node and its latest revisions refer to each     *)
(* other, so they stay.                                                    *)
remove(k) ==
    /\ Change
    /\ \E i \in DOMAIN latest.devices :
          /\ IsAt(k, i)
          /\ MakeLatest(Root(ops', RemoveAt(latest.devices, i)), <<>>,
                        kept \cup {latest.devices[i], latest.devices[i].child})

(* One access to the store: store, __del__ and the write of "root".        *)
Access ==
    /\ up = "up" /\ todo # <<>>
    /\ LET a == Head(todo)
       IN  /\ kv' = CASE a.op = "put" -> kv \cup {a.hash}
                      [] a.op = "del" -> kv \ {a.hash}
                      [] a.op = "point" -> kv
           /\ pointer' = IF a.op = "point" THEN a.hash ELSE pointer
    /\ todo' = Tail(todo)
    /\ done' = IF todo' = <<>> THEN Content(latest) ELSE done
    /\ UNCHANGED <<up, latest, revs, kept, novel, ops, crashes>>

-----------------------------------------------------------------------------
(* The process goes away with all its objects, and nothing is deleted.     *)
Crash ==
    /\ up = "up"
    /\ crashes < MaxCrashes
    /\ crashes' = crashes + 1
    /\ up' = "down"
    /\ UNCHANGED <<latest, revs, kept, kv, pointer, todo, done, novel, ops>>

(* LocalHandler.start with ConfigRoot.load: every blob below "root" is     *)
(* read; where one is missing the load fails and there is no tree.         *)
Load ==
    /\ up = "down"
    /\ IF Closure(pointer) \subseteq kv
       THEN /\ up' = "up"
            /\ latest' = Root(ops, [i \in DOMAIN pointer |->
                                   Device(ops, pointer[i].key, pointer[i].value)])
            /\ revs' = {latest'}
            /\ kept' = {}
            /\ todo' = <<>>
            /\ done' = pointer
            /\ UNCHANGED novel
       ELSE up' = "failed" /\ UNCHANGED <<latest, revs, kept, todo, done, novel>>
    /\ UNCHANGED <<kv, pointer, ops, crashes>>

Next ==
    \/ \E k \in Keys, v \in Values : add(k, v) \/ update(k, v)
    \/ \E k \in Keys : updateSame(k) \/ remove(k)
    \/ Access \/ Crash \/ Load

Spec == Init /\ [][Next]_vars

-----------------------------------------------------------------------------
(* As long as no content of the tree comes back, "root" names a tree whose *)
(* blobs are all in the store, between any two accesses: a core that dies  *)
(* at any point can be started again.                                      *)
Recoverable == novel => Closure(pointer) \subseteq kv /\ up # "failed"

(* A core that starts has the tree of the last finished change, or of the  *)
(* one it died in: never a mixture, and never an older one.                *)
RestartRestores ==
    [][up = "down" /\ up' = "up" => Content(latest') \in {done, Content(latest)}]_vars

(* Violated: what the tree holds is in the store when a change is done.    *)
StoreComplete == (up = "up" /\ todo = <<>>) => Closure(Content(latest)) \subseteq kv
=============================================================================
