-------------------------- MODULE ConfigStoreProofs --------------------------
(***************************************************************************)
(* Proofs about the configuration tree in the key-value store, for every   *)
(* set of keys and values and any number of changes and crashes.           *)
(***************************************************************************)
EXTENDS ConfigStore, FiniteSetTheorems, SequenceTheorems, TLAPS

(* Revisions, contents and accesses to the store.                          *)
Entries == [key : Keys, value : Values]
Contents == Seq(Entries)
Children == [kind : {"child"}, id : Nat, key : Keys, value : Values]
Devices == [kind : {"device"}, id : Nat, key : Keys, child : Children]
Roots == [kind : {"root"}, id : Nat, devices : Seq(Devices)]
Hashes == ({"root"} \X Contents) \cup ({"device"} \X Keys \X Values) \cup ({"child"} \X Values)
Writes == [op : {"put", "del"}, hash : Hashes]
Accesses == Writes \cup [op : {"point"}, hash : Contents]

Typed ==
    /\ up \in {"up", "down", "failed"}
    /\ latest \in Roots
    /\ revs \subseteq Roots /\ IsFiniteSet(revs)
    /\ kept \subseteq Devices \cup Children /\ IsFiniteSet(kept)
    /\ pointer \in Contents
    /\ todo \in Seq(Accesses)
    /\ done \in Contents
    /\ novel \in BOOLEAN
    /\ ops \in Nat

(* "root" names the tree of the last finished change or the latest one,    *)
(* and the latest one unless the change under way has yet to write it.     *)
PointerFits ==
    /\ pointer \in {done, Content(latest)}
    /\ up = "up" =>
          /\ \A i \in DOMAIN todo : todo[i].op = "point" => todo[i].hash = Content(latest)
          /\ (\A i \in DOMAIN todo : todo[i].op # "point") => pointer = Content(latest)
          /\ todo = <<>> => done = Content(latest)

(* As long as no content comes back the branch holds every revision, so    *)
(* that nothing is deleted, and "root" is written after all the blobs of   *)
(* the tree it is to name.                                                 *)
StoreFits ==
    novel =>
        /\ up # "failed" /\ Closure(pointer) \subseteq kv
        /\ up = "up" =>
              /\ latest \in revs
              /\ \A i \in DOMAIN todo : todo[i].op # "del"
              /\ \A i \in DOMAIN todo : todo[i].op = "point" =>
                    Closure(Content(latest)) \subseteq kv \cup {todo[j].hash : j \in 1..(i - 1)}

IInv == Typed /\ PointerFits /\ StoreFits

-----------------------------------------------------------------------------
(* Contents, revisions and hashes *)

(* The content of a root is that of its devices, in their order.           *)
LEMMA ContentTyped ==
    ASSUME NEW root \in Roots
    PROVE  /\ Content(root) \in Contents
           /\ Len(root.devices) \in Nat /\ DOMAIN root.devices = 1..Len(root.devices)
           /\ DOMAIN Content(root) = DOMAIN root.devices
           /\ \A i \in DOMAIN root.devices :
                 /\ root.devices[i] \in Devices
                 /\ Content(root)[i] = [key |-> root.devices[i].key, value |-> root.devices[i].child.value]
<1> DEFINE devices == root.devices
           n == Len(devices)
<1>1. devices \in Seq(Devices)
  BY DEF Roots
<1>2. n \in Nat /\ DOMAIN devices = 1..n /\ \A i \in 1..n : devices[i] \in Devices
  BY <1>1, LenProperties
<1>3. \A i \in 1..n : [key |-> devices[i].key, value |-> devices[i].child.value] \in Entries
  BY <1>2 DEF Devices, Children, Entries
<1>4. Content(root) = [i \in 1..n |-> [key |-> devices[i].key, value |-> devices[i].child.value]]
  BY <1>2 DEF Content
<1> HIDE DEF n
<1>5. Content(root) \in [1..n -> Entries]
  BY <1>3, <1>4
<1>6. Content(root) \in Contents
  BY <1>2, <1>5, SeqDef DEF Contents
<1> QED
  BY <1>2, <1>4, <1>6 DEF n

(* An entry of the content has the key of its device and the value of its  *)
(* child.                                                                  *)
LEMMA EntriesOf ==
    ASSUME NEW root \in Roots
    PROVE  /\ DOMAIN Content(root) = DOMAIN root.devices
           /\ \A i \in DOMAIN root.devices :
                 /\ root.devices[i] \in Devices
                 /\ Content(root)[i].key = root.devices[i].key
                 /\ Content(root)[i].value = root.devices[i].child.value
<1>1. ASSUME NEW i \in DOMAIN root.devices
      PROVE  /\ Content(root)[i].key = root.devices[i].key
             /\ Content(root)[i].value = root.devices[i].child.value
  <2>1. Content(root)[i] = [key |-> root.devices[i].key, value |-> root.devices[i].child.value]
    BY ContentTyped, Zenon
  <2> QED
    BY <2>1
<1> QED
  BY <1>1, ContentTyped, Zenon

(* Every revision has a hash.                                              *)
LEMMA HashTyped ==
    ASSUME NEW rev \in Roots \cup Devices \cup Children
    PROVE  Hash(rev) \in Hashes
<1>1. CASE rev \in Roots
  <2>1. Hash(rev) = <<"root", Content(rev)>>
    BY <1>1 DEF Hash, Roots
  <2> QED
    BY <1>1, <2>1, ContentTyped DEF Hashes
<1>2. CASE rev \in Devices
  <2>1. Hash(rev) = <<"device", rev.key, rev.child.value>>
    BY <1>2 DEF Hash, Devices
  <2>2. rev.key \in Keys /\ rev.child.value \in Values
    BY <1>2 DEF Devices, Children
  <2> QED
    BY <2>1, <2>2 DEF Hashes
<1>3. CASE rev \in Children
  <2>1. Hash(rev) = <<"child", rev.value>> /\ rev.value \in Values
    BY <1>3 DEF Hash, Children
  <2> QED
    BY <2>1 DEF Hashes
<1> QED
  BY <1>1, <1>2, <1>3

(* The values of a function on a finite set are finitely many.             *)
LEMMA ImageFinite ==
    ASSUME NEW f, IsFiniteSet(DOMAIN f), f = [x \in DOMAIN f |-> f[x]]
    PROVE  IsFiniteSet({f[x] : x \in DOMAIN f})
<1>1. f \in Surjection(DOMAIN f, {f[x] : x \in DOMAIN f})
  BY DEF Surjection
<1> QED
  BY <1>1, FS_Surjection

(* A root refers to finitely many revisions.                               *)
LEMMA ObjectsFinite ==
    ASSUME NEW root \in Roots
    PROVE  Objects(root) \subseteq Roots \cup Devices \cup Children /\ IsFiniteSet(Objects(root))
<1> DEFINE D == DOMAIN root.devices
           child == [k \in D |-> root.devices[k].child]
<1>1. /\ Len(root.devices) \in Nat /\ D = 1..Len(root.devices)
      /\ \A k \in D : root.devices[k] \in Devices
  BY ContentTyped
<1>2. IsFiniteSet(D)
  <2>1. 1 \in Int /\ Len(root.devices) \in Int
    BY <1>1
  <2>2. IsFiniteSet(1..Len(root.devices))
    BY <2>1, FS_Interval, Zenon
  <2> QED
    BY <1>1, <2>2, Zenon
<1>3. IsFiniteSet({root.devices[k] : k \in D})
  <2>1. root.devices = [k \in D |-> root.devices[k]]
    BY DEF Roots
  <2> QED
    BY <1>2, <2>1, ImageFinite
<1>4. IsFiniteSet({root.devices[k].child : k \in D})
  <2>1. DOMAIN child = D /\ child = [k \in DOMAIN child |-> child[k]]
    OBVIOUS
  <2>2. IsFiniteSet({child[k] : k \in DOMAIN child})
    <3> HIDE DEF child
    <3> QED
      BY <1>2, <2>1, ImageFinite
  <2>3. {child[k] : k \in DOMAIN child} = {root.devices[k].child : k \in D}
    BY Zenon
  <2> QED
    BY <2>2, <2>3, Zenon
<1>5. IsFiniteSet({root})
  BY FS_Singleton, Zenon
<1>6. IsFiniteSet({root} \cup {root.devices[k] : k \in D})
  BY <1>3, <1>5, FS_Union, Zenon
<1>7. IsFiniteSet(Objects(root))
  BY <1>4, <1>6, FS_Union, Zenon DEF Objects
<1>8. \A k \in D : root.devices[k].child \in Children
  BY <1>1 DEF Devices
<1> QED
  BY <1>1, <1>7, <1>8 DEF Objects

(* So do finitely many roots.                                              *)
LEMMA LiveFinite ==
    ASSUME NEW roots \in SUBSET Roots, IsFiniteSet(roots),
           NEW cyclic \in SUBSET (Devices \cup Children), IsFiniteSet(cyclic)
    PROVE  Live(roots, cyclic) \subseteq Roots \cup Devices \cup Children /\ IsFiniteSet(Live(roots, cyclic))
<1> DEFINE below == [r \in roots |-> Objects(r)]
           all == {Objects(r) : r \in roots}
<1>1. IsFiniteSet(all)
  <2>1. DOMAIN below = roots /\ below = [r \in DOMAIN below |-> below[r]]
    OBVIOUS
  <2>2. IsFiniteSet({below[r] : r \in DOMAIN below})
    <3> HIDE DEF below
    <3> QED
      BY <2>1, ImageFinite
  <2>3. {below[r] : r \in DOMAIN below} = all
    OBVIOUS
  <2> QED
    BY <2>2, <2>3
<1>2. \A T \in all : IsFiniteSet(T) /\ T \subseteq Roots \cup Devices \cup Children
  BY ObjectsFinite
<1> HIDE DEF all
<1>3. IsFiniteSet(UNION all)
  BY <1>1, <1>2, FS_UNION
<1>4. IsFiniteSet((UNION all) \cup cyclic)
  BY <1>3, FS_Union, Zenon
<1>5. Live(roots, cyclic) = (UNION all) \cup cyclic
  BY DEF Live, all
<1> QED
  BY <1>2, <1>4, <1>5

-----------------------------------------------------------------------------
(* The accesses of a change *)

(* What __del__ does for a set of revisions is a sequence of deletions.    *)
LEMMA DeletionsTyped ==
    ASSUME NEW S \in SUBSET (Roots \cup Devices \cup Children), IsFiniteSet(S)
    PROVE  /\ Each(Del, S) \in Seq(Writes)
           /\ \A i \in DOMAIN Each(Del, S) : Each(Del, S)[i].op = "del"
           /\ S = {} => Each(Del, S) = <<>>
<1> DEFINE n == Cardinality(S)
           q == SetToSeq(S)
<1>1. n \in Nat /\ ExistsBijection(1..n, S)
  BY FS_CardinalityType
<1>2. \E f \in [1..n -> S] : IsInjective(f)
  BY <1>1 DEF ExistsBijection, Bijection, Injection
<1>3. q \in [1..n -> S]
  BY <1>2 DEF SetToSeq
<1>4. Each(Del, S) = [i \in 1..n |-> Del(q[i])]
  BY <1>3 DEF Each
<1> HIDE DEF q
<1>5. \A i \in 1..n : Del(q[i]) \in Writes /\ Del(q[i]).op = "del"
  <2> SUFFICES ASSUME NEW i \in 1..n PROVE Del(q[i]) \in Writes /\ Del(q[i]).op = "del"
    OBVIOUS
  <2>1. Hash(q[i]) \in Hashes
    BY <1>3, HashTyped
  <2> QED
    BY <2>1 DEF Del, Writes
<1>6. Each(Del, S) \in [1..n -> Writes]
  BY <1>4, <1>5
<1>7. Each(Del, S) \in Seq(Writes)
  BY <1>1, <1>6, SeqDef
<1>8. S = {} => Each(Del, S) = <<>>
  <2> SUFFICES ASSUME S = {} PROVE Each(Del, S) = <<>>
    OBVIOUS
  <2>1. n = 0
    BY FS_EmptySet
  <2>2. Len(Each(Del, S)) = 0
    BY <1>1, <1>6, <1>7, <2>1, LenProperties
  <2> QED
    BY <1>7, <2>2, EmptySeq
<1> QED
  BY <1>4, <1>5, <1>7, <1>8

(* c has the elements of s and after them those of t.                      *)
Joins(c, s, t) ==
    /\ DOMAIN c = 1..(Len(s) + Len(t))
    /\ \A i \in DOMAIN s : i \in DOMAIN c /\ c[i] = s[i]
    /\ \A j \in DOMAIN t : Len(s) + j \in DOMAIN c /\ c[Len(s) + j] = t[j]
    /\ \A i \in DOMAIN c : i \in DOMAIN s \/ \E j \in DOMAIN t : i = Len(s) + j /\ c[i] = t[j]

(* Where the elements of a concatenation are.                              *)
LEMMA ConcatAt ==
    ASSUME NEW S, NEW s \in Seq(S), NEW t \in Seq(S)
    PROVE  s \o t \in Seq(S) /\ Joins(s \o t, s, t)
<1> DEFINE c == s \o t
           m == Len(s)
           n == Len(t)
<1>1. m \in Nat /\ n \in Nat /\ DOMAIN s = 1..m /\ DOMAIN t = 1..n
  BY LenProperties
<1>2. /\ c \in Seq(S) /\ Len(c) = m + n
      /\ \A i \in 1..(m + n) : c[i] = IF i <= m THEN s[i] ELSE t[i - m]
  BY ConcatProperties
<1>3. DOMAIN c = 1..(m + n)
  BY <1>2, LenProperties
<1> HIDE DEF c, m, n
<1>4. \A i \in DOMAIN s : i \in DOMAIN c /\ c[i] = s[i]
  BY <1>1, <1>2, <1>3
<1>5. ASSUME NEW j \in DOMAIN t PROVE m + j \in DOMAIN c /\ c[m + j] = t[j]
  <2>1. m + j \in 1..(m + n) /\ ~(m + j <= m) /\ (m + j) - m = j
    BY <1>1
  <2> QED
    BY <1>2, <1>3, <2>1
<1>6. ASSUME NEW i \in DOMAIN c PROVE i \in DOMAIN s \/ \E j \in DOMAIN t : i = m + j /\ c[i] = t[j]
  <2>1. i \in 1..m \/ (i - m \in 1..n /\ i = m + (i - m))
    BY <1>1, <1>3
  <2> QED
    BY <1>1, <1>5, <2>1
<1>7. Joins(c, s, t)
  BY <1>3, <1>4, <1>5, <1>6 DEF Joins, m, n
<1> QED
  BY <1>2, <1>7 DEF c

(* In the accesses of a change "root" is written, once, after the blobs    *)
(* that the change has made, and nothing is deleted unless something goes. *)
Ordered(plan, made, put, first, point, rest) ==
    /\ plan \in Seq(Accesses)
    /\ \E i \in DOMAIN plan : plan[i].op = "point"
    /\ \A i \in DOMAIN plan : plan[i].op = "point" =>
          /\ plan[i] = point
          /\ {made[j].hash : j \in DOMAIN made} \cup {put.hash} \subseteq {plan[j].hash : j \in 1..(i - 1)}
    /\ \A i \in DOMAIN plan : plan[i].op = "del" =>
          put.op = "del" \/ first # <<>> \/ rest # <<>> \/ \E j \in DOMAIN made : made[j].op = "del"

(* This is so in the order in which _make_latest causes them.              *)
LEMMA PlanOrder ==
    ASSUME NEW made \in Seq(Writes), NEW put \in Writes, NEW first \in Seq(Writes),
           NEW point \in [op : {"point"}, hash : Contents], NEW rest \in Seq(Writes)
    PROVE  Ordered(made \o <<put>> \o first \o <<point>> \o rest, made, put, first, point, rest)
<1> DEFINE a == made \o <<put>>
           b == a \o first
           c == b \o <<point>>
           d == c \o rest
           m == Len(b)
<1>1. Writes \subseteq Accesses /\ point \in Accesses /\ \A w \in Writes : w.op # "point"
  BY DEF Accesses, Writes
<1>2. <<put>> \in Seq(Writes) /\ DOMAIN <<put>> = {1} /\ Len(<<put>>) = 1 /\ <<put>>[1] = put
  OBVIOUS
<1>3. <<point>> \in Seq(Accesses) /\ DOMAIN <<point>> = {1} /\ Len(<<point>>) = 1 /\ <<point>>[1] = point
  BY <1>1
<1>4. /\ a \in Seq(Writes)
      /\ \A i \in DOMAIN made : i \in DOMAIN a /\ a[i] = made[i]
      /\ \E i \in DOMAIN a : a[i] = put
      /\ \A i \in DOMAIN a : a[i] = put \/ \E j \in DOMAIN made : a[i] = made[j]
  <2>1. a \in Seq(Writes) /\ Joins(a, made, <<put>>)
    BY <1>2, ConcatAt, Zenon
  <2> HIDE DEF a
  <2> QED
    BY <1>2, <2>1 DEF Joins
<1> HIDE DEF a
<1>5. /\ b \in Seq(Writes)
      /\ \A i \in DOMAIN a : i \in DOMAIN b /\ b[i] = a[i]
      /\ \A i \in DOMAIN b : i \in DOMAIN a \/ \E j \in DOMAIN first : b[i] = first[j]
  <2>1. b \in Seq(Writes) /\ Joins(b, a, first)
    BY <1>4, ConcatAt
  <2> HIDE DEF b
  <2> QED
    BY <2>1 DEF Joins
<1> HIDE DEF b
<1>6. b \in Seq(Accesses) /\ rest \in Seq(Accesses)
  BY <1>1, <1>5, SeqMonotonic
<1>7. m \in Nat /\ DOMAIN b = 1..m /\ \A i \in DOMAIN b : b[i] \in Writes
  BY <1>5, LenProperties
<1>8. /\ c \in Seq(Accesses) /\ DOMAIN c = 1..(m + 1)
      /\ \A i \in DOMAIN b : i \in DOMAIN c /\ c[i] = b[i]
      /\ c[m + 1] = point
      /\ \A i \in DOMAIN c : i \in DOMAIN b \/ i = m + 1
  <2>1. c \in Seq(Accesses) /\ Joins(c, b, <<point>>)
    BY <1>3, <1>6, ConcatAt, Zenon
  <2> HIDE DEF c
  <2> QED
    BY <1>3, <2>1 DEF Joins
<1> HIDE DEF c
<1>9. /\ d \in Seq(Accesses)
      /\ \A i \in DOMAIN c : i \in DOMAIN d /\ d[i] = c[i]
      /\ \A i \in DOMAIN d : i \in DOMAIN c \/ \E j \in DOMAIN rest : d[i] = rest[j]
  <2>1. d \in Seq(Accesses) /\ Joins(d, c, rest)
    BY <1>6, <1>8, ConcatAt
  <2> HIDE DEF d
  <2> QED
    BY <2>1 DEF Joins
<1>10. made \o <<put>> \o first \o <<point>> \o rest = d
  BY DEF a, b, c
<1> HIDE DEF d, m
<1>11. m + 1 \in DOMAIN c /\ point.op = "point"
  BY <1>7, <1>8
<1>12. \A j \in DOMAIN rest : rest[j] \in Writes
  BY LenProperties
<1>13. \A i \in DOMAIN d : d[i].op = "point" => i = m + 1
  BY <1>1, <1>7, <1>8, <1>9, <1>12
<1>14. d[m + 1] = point
  BY <1>8, <1>9, <1>11
<1>15. DOMAIN b = 1..((m + 1) - 1) /\ \A i \in DOMAIN b : d[i] = b[i]
  BY <1>7, <1>8, <1>9
<1>16. {made[j].hash : j \in DOMAIN made} \cup {put.hash} \subseteq {b[j].hash : j \in DOMAIN b}
  BY <1>4, <1>5
<1>17. {b[j].hash : j \in DOMAIN b} \subseteq {d[j].hash : j \in 1..((m + 1) - 1)}
  BY <1>15
<1>18. ASSUME NEW i \in DOMAIN d, d[i].op = "del"
       PROVE  put.op = "del" \/ first # <<>> \/ rest # <<>> \/ \E j \in DOMAIN made : made[j].op = "del"
  <2>1. (first = <<>> => DOMAIN first = {}) /\ (rest = <<>> => DOMAIN rest = {})
    OBVIOUS
  <2>2. CASE i \in DOMAIN a
    <3>1. d[i] = a[i]
      BY <1>5, <1>8, <1>9, <2>2
    <3> QED
      BY <1>4, <1>18, <2>2, <3>1
  <2>3. CASE i \in DOMAIN b /\ i \notin DOMAIN a
    BY <1>5, <2>1, <2>3
  <2>4. CASE i = m + 1
    BY <1>11, <1>14, <1>18, <2>4
  <2>5. CASE i \notin DOMAIN c
    BY <1>9, <2>1, <2>5
  <2> QED
    BY <1>8, <2>2, <2>3, <2>4, <2>5
<1>19. \A i \in DOMAIN d : d[i].op = "point" =>
          {made[j].hash : j \in DOMAIN made} \cup {put.hash} \subseteq {d[j].hash : j \in 1..(i - 1)}
  BY <1>13, <1>16, <1>17, Zenon
<1>20. \A i \in DOMAIN d : d[i].op = "point" => d[i] = point
  BY <1>13, <1>14
<1>21. \E i \in DOMAIN d : d[i].op = "point"
  BY <1>9, <1>11, <1>14
<1>22. Ordered(d, made, put, first, point, rest)
  BY <1>9, <1>18, <1>19, <1>20, <1>21, Zenon DEF Ordered
<1> QED
  BY <1>10, <1>22, Zenon

-----------------------------------------------------------------------------
(* The initial states, and one lemma for each group of actions *)

(* The empty tree has a content, and is in the store.                      *)
LEMMA InitIInv == Init => IInv
<1> SUFFICES ASSUME Init PROVE IInv
  OBVIOUS
<1>1. DOMAIN <<>> = {}
  OBVIOUS
<1>3. <<>> \in Contents /\ <<>> \in Seq(Devices)
  BY EmptySeq DEF Contents
<1>4. Root(0, <<>>) \in Roots
  BY <1>3 DEF Root, Roots
<1>5. Content(Root(0, <<>>)) = <<>>
  <2>1. Len(Content(Root(0, <<>>))) = 0
    BY <1>1, <1>4, ContentTyped, LenProperties DEF Root, Contents
  <2> QED
    BY <1>4, <2>1, ContentTyped, EmptySeq DEF Contents
<1>6. IsFiniteSet({latest}) /\ IsFiniteSet({})
  BY FS_Singleton, FS_EmptySet, Zenon
<1>7. Typed
  BY <1>3, <1>4, <1>6 DEF Init, Typed
<1>8. PointerFits
  BY <1>1, <1>5 DEF Init, PointerFits
<1>9. StoreFits
  BY <1>1 DEF Init, StoreFits
<1> QED
  BY <1>7, <1>8, <1>9 DEF IInv

(* A change that makes a new latest root plans its accesses. As long as    *)
(* contents are novel it lets no revision go.                              *)
LEMMA MakeLatestStep ==
    ASSUME IInv, Change, NEW root \in Roots, NEW made \in Seq(Writes),
           \A i \in DOMAIN made : made[i].op = "put",
           NEW cyclic \in SUBSET (Devices \cup Children), IsFiniteSet(cyclic), kept \subseteq cyclic,
           Closure(Content(root)) \subseteq
              Closure(Content(latest)) \cup {made[i].hash : i \in DOMAIN made} \cup {Hash(root)},
           MakeLatest(root, made, cyclic)
    PROVE  IInv'
<1> DEFINE known == Hash(root) \in {Hash(r) : r \in revs}
           held == IF known THEN revs ELSE revs \cup {root}
           dying == Live(revs \cup {latest}, kept) \ Live(held \cup {root}, cyclic)
           first == dying \cap {latest}
           rest == dying \ first
<1>1. /\ up = "up" /\ todo = <<>> /\ ops \in Nat /\ ops' = ops + 1
      /\ UNCHANGED <<up, kv, pointer, done, crashes>>
  BY DEF Change, IInv, Typed
<1>2. /\ latest' = root /\ revs' = held /\ kept' = cyclic /\ novel' = (novel /\ ~known)
      /\ todo' = made \o <<Put(root)>> \o Each(Del, first) \o <<Point(root)>> \o Each(Del, rest)
  BY DEF MakeLatest
<1>3. IsFiniteSet(held) /\ held \subseteq Roots
  <2>1. IsFiniteSet(revs \cup {root})
    BY FS_Singleton, FS_Union, Zenon DEF IInv, Typed
  <2> QED
    BY <2>1 DEF IInv, Typed
<1>4. IsFiniteSet(dying) /\ dying \subseteq Roots \cup Devices \cup Children
  <2>1. IsFiniteSet(revs \cup {latest}) /\ revs \cup {latest} \subseteq Roots
    BY FS_Singleton, FS_Union, Zenon DEF IInv, Typed
  <2>2. /\ IsFiniteSet(Live(revs \cup {latest}, kept))
        /\ Live(revs \cup {latest}, kept) \subseteq Roots \cup Devices \cup Children
    BY <2>1, LiveFinite, Zenon DEF IInv, Typed
  <2>3. dying \subseteq Live(revs \cup {latest}, kept)
    OBVIOUS
  <2> HIDE DEF dying
  <2> QED
    BY <2>2, <2>3, FS_Subset, Zenon
<1>5. IsFiniteSet(first) /\ IsFiniteSet(rest)
  <2> HIDE DEF dying
  <2>1. first \subseteq dying /\ rest \subseteq dying
    OBVIOUS
  <2> HIDE DEF first, rest
  <2> QED
    BY <1>4, <2>1, FS_Subset
<1>6. novel /\ ~known => first = {} /\ rest = {}
  <2> SUFFICES ASSUME novel, ~known PROVE dying = {}
    BY Zenon
  <2>1. latest \in revs
    BY <1>1 DEF IInv, StoreFits
  <2> QED
    BY <2>1 DEF Live
<1> HIDE DEF dying, first, rest, held, known
<1>7. /\ Each(Del, first) \in Seq(Writes) /\ (first = {} => Each(Del, first) = <<>>)
      /\ Each(Del, rest) \in Seq(Writes) /\ (rest = {} => Each(Del, rest) = <<>>)
  <2>1. first \subseteq Roots \cup Devices \cup Children /\ rest \subseteq Roots \cup Devices \cup Children
    BY <1>4 DEF first, rest
  <2> QED
    BY <1>5, <2>1, DeletionsTyped
<1>8. Put(root) \in Writes /\ Put(root).op = "put" /\ Put(root).hash = Hash(root)
  BY HashTyped DEF Put, Writes
<1>9. Point(root) \in [op : {"point"}, hash : Contents] /\ Point(root).hash = Content(root)
  BY ContentTyped DEF Point
<1>10. Ordered(todo', made, Put(root), Each(Del, first), Point(root), Each(Del, rest))
  BY <1>2, <1>7, <1>8, <1>9, PlanOrder
<1>11. pointer = Content(latest) /\ done = Content(latest)
  <2>1. \A i \in DOMAIN todo : todo[i].op # "point"
    BY <1>1
  <2> QED
    BY <1>1, <2>1 DEF IInv, PointerFits
<1>12. Typed'
  <2>1. todo' \in Seq(Accesses)
    BY <1>10 DEF Ordered
  <2>2. novel' \in BOOLEAN
    BY <1>2
  <2> QED
    BY <1>1, <1>2, <1>3, <2>1, <2>2 DEF IInv, Typed
<1>13. PointerFits'
  <2>1. \E i \in DOMAIN todo' : todo'[i].op = "point"
    BY <1>10 DEF Ordered
  <2>2. \A i \in DOMAIN todo' : todo'[i].op = "point" => todo'[i].hash = Content(root)
    BY <1>9, <1>10 DEF Ordered
  <2>3. todo' # <<>>
    BY <2>1
  <2> QED
    BY <1>1, <1>2, <1>11, <2>1, <2>2, <2>3 DEF PointerFits
<1>14. StoreFits'
  <2> SUFFICES ASSUME novel' PROVE StoreFits'
    BY DEF StoreFits
  <2>1. novel /\ ~known
    BY <1>2, Zenon
  <2>2. Closure(pointer) \subseteq kv
    BY <2>1 DEF IInv, StoreFits
  <2>3. root \in held
    BY <2>1 DEF held
  <2>4. Each(Del, first) = <<>> /\ Each(Del, rest) = <<>>
    BY <1>6, <1>7, <2>1
  <2>5. \A i \in DOMAIN todo' : todo'[i].op # "del"
    BY <1>8, <1>10, <2>4 DEF Ordered
  <2>6. ASSUME NEW i \in DOMAIN todo', todo'[i].op = "point"
        PROVE  Closure(Content(root)) \subseteq kv \cup {todo'[j].hash : j \in 1..(i - 1)}
    <3>1. {made[j].hash : j \in DOMAIN made} \cup {Hash(root)} \subseteq {todo'[j].hash : j \in 1..(i - 1)}
      BY <1>8, <1>10, <2>6, Zenon DEF Ordered
    <3>2. Closure(Content(latest)) \subseteq kv
      BY <1>11, <2>2
    <3> QED
      BY <3>1, <3>2, Zenon
  <2> QED
    BY <1>1, <1>2, <2>2, <2>3, <2>5, <2>6, Zenon DEF StoreFits
<1> QED
  BY <1>12, <1>13, <1>14 DEF IInv

(* A list whose entries are entries of the latest tree, or the one that    *)
(* the change stores, has all its blobs in the store or on their way.      *)
LEMMA ListClosure ==
    ASSUME NEW root \in Roots, NEW new, latest \in Roots,
           \A i \in DOMAIN root.devices :
              \/ \E j \in DOMAIN latest.devices : root.devices[i] = latest.devices[j]
              \/ Hash(root.devices[i]) \in new /\ Hash(root.devices[i].child) \in new
    PROVE  Closure(Content(root)) \subseteq Closure(Content(latest)) \cup new \cup {Hash(root)}
<1> DEFINE c == Content(root)
           d == root.devices
           stored == Closure(Content(latest)) \cup new
<1>1. Hash(root) = <<"root", c>>
  BY DEF Hash, Roots
<1>2. /\ DOMAIN c = DOMAIN d
      /\ \A i \in DOMAIN d : d[i] \in Devices /\ c[i].key = d[i].key /\ c[i].value = d[i].child.value
  BY EntriesOf, Zenon
<1>3. /\ DOMAIN Content(latest) = DOMAIN latest.devices
      /\ \A j \in DOMAIN latest.devices :
            /\ Content(latest)[j].key = latest.devices[j].key
            /\ Content(latest)[j].value = latest.devices[j].child.value
  BY EntriesOf, Zenon
<1>4. ASSUME NEW i \in DOMAIN c
      PROVE  <<"device", c[i].key, c[i].value>> \in stored /\ <<"child", c[i].value>> \in stored
  <2>1. /\ Hash(d[i]) = <<"device", c[i].key, c[i].value>>
        /\ Hash(d[i].child) = <<"child", c[i].value>>
    BY <1>2, <1>4 DEF Hash, Devices, Children
  <2>2. CASE \E j \in DOMAIN latest.devices : d[i] = latest.devices[j]
    <3>1. PICK j \in DOMAIN Content(latest) :
             Content(latest)[j].key = c[i].key /\ Content(latest)[j].value = c[i].value
      BY <1>2, <1>3, <1>4, <2>2
    <3> QED
      BY <3>1 DEF Closure
  <2>3. CASE Hash(d[i]) \in new /\ Hash(d[i].child) \in new
    BY <2>1, <2>3
  <2> QED
    BY <1>2, <1>4, <2>2, <2>3
<1> HIDE DEF c, d, stored
<1>5. Closure(c) \subseteq stored \cup {<<"root", c>>}
  BY <1>4 DEF Closure
<1> QED
  BY <1>1, <1>5 DEF c, stored

(* del children[idx] leaves a list of some of the devices.                 *)
LEMMA RemovedList ==
    ASSUME NEW s \in Seq(Devices), NEW i \in DOMAIN s
    PROVE  /\ RemoveAt(s, i) \in Seq(Devices)
           /\ \A m \in DOMAIN RemoveAt(s, i) : \E j \in DOMAIN s : RemoveAt(s, i)[m] = s[j]
<1> DEFINE a == SubSeq(s, 1, i - 1)
           b == SubSeq(s, i + 1, Len(s))
<1>1. Len(s) \in Nat /\ DOMAIN s = 1..Len(s)
  BY LenProperties
<1>2. a \in Seq(Devices) /\ \A m \in DOMAIN a : \E j \in DOMAIN s : a[m] = s[j]
  BY <1>1
<1>3. b \in Seq(Devices) /\ \A m \in DOMAIN b : \E j \in DOMAIN s : b[m] = s[j]
  BY <1>1
<1>4. RemoveAt(s, i) = a \o b
  BY DEF RemoveAt
<1> HIDE DEF a, b
<1>5. a \o b \in Seq(Devices) /\ Joins(a \o b, a, b)
  BY <1>2, <1>3, ConcatAt
<1>6. \A m \in DOMAIN (a \o b) : m \in DOMAIN a \/ \E n \in DOMAIN b : (a \o b)[m] = b[n]
  BY <1>5 DEF Joins
<1>7. \A m \in DOMAIN a : (a \o b)[m] = a[m]
  BY <1>5 DEF Joins
<1> DEFINE c == a \o b
<1> HIDE DEF c
<1>8. ASSUME NEW m \in DOMAIN c PROVE \E j \in DOMAIN s : c[m] = s[j]
  <2>1. CASE m \in DOMAIN a
    <3>1. c[m] = a[m]
      BY <1>7, <2>1 DEF c
    <3> QED
      BY <1>2, <2>1, <3>1, Zenon
  <2>2. CASE m \notin DOMAIN a
    <3>1. PICK n \in DOMAIN b : c[m] = b[n]
      BY <1>6, <2>2 DEF c
    <3> QED
      BY <1>3, <3>1, Zenon
  <2> QED
    BY <2>1, <2>2
<1> QED
  BY <1>4, <1>5, <1>8, Zenon DEF c

(* The changes of the tree.                                                *)
LEMMA ChangeStep ==
    ASSUME IInv, NEW k \in Keys, NEW v \in Values,
           add(k, v) \/ update(k, v) \/ updateSame(k) \/ remove(k)
    PROVE  IInv'
<1> DEFINE devices == latest.devices
           D == DOMAIN latest.devices
<1>1. /\ up = "up" /\ todo = <<>> /\ ops \in Nat /\ ops' = ops + 1
      /\ UNCHANGED <<up, kv, pointer, done, crashes>> /\ Change
  BY DEF add, update, updateSame, remove, Change, IInv, Typed
<1>2. /\ latest \in Roots /\ devices \in Seq(Devices)
      /\ Len(devices) \in Nat /\ D = 1..Len(devices)
      /\ \A j \in D : devices[j] \in Devices
  BY ContentTyped DEF IInv, Typed, Roots
<1>3. kept \subseteq Devices \cup Children /\ IsFiniteSet(kept)
  BY DEF IInv, Typed
<1>4. CASE add(k, v) \/ update(k, v)
  <2> DEFINE dev == Device(ops', k, v)
             made == <<Put(dev.child), Put(dev)>>
  <2>1. dev \in Devices /\ dev.key = k /\ dev.child \in Children /\ dev.child.value = v
    BY <1>1 DEF Device, Devices, Children
  <2>2. PICK next \in Seq(Devices) :
           /\ MakeLatest(Root(ops', next), made, kept)
           /\ \A i \in DOMAIN next : next[i] = dev \/ \E j \in D : next[i] = devices[j]
    <3>1. CASE add(k, v)
      <4>1. MakeLatest(Root(ops', Append(devices, dev)), made, kept)
        BY <3>1 DEF add
      <4> HIDE DEF dev, made
      <4>2. /\ Append(devices, dev) \in Seq(Devices)
            /\ \A i \in DOMAIN Append(devices, dev) :
                  Append(devices, dev)[i] = dev \/ \E j \in D : Append(devices, dev)[i] = devices[j]
        BY <1>2, <2>1
      <4> QED
        BY <4>1, <4>2
    <3>2. CASE update(k, v)
      <4>1. PICK i \in D : MakeLatest(Root(ops', [devices EXCEPT ![i] = dev]), made, kept)
        BY <3>2 DEF update
      <4> HIDE DEF dev, made
      <4>2. /\ [devices EXCEPT ![i] = dev] \in Seq(Devices)
            /\ \A n \in DOMAIN [devices EXCEPT ![i] = dev] :
                  \/ [devices EXCEPT ![i] = dev][n] = dev
                  \/ \E j \in D : [devices EXCEPT ![i] = dev][n] = devices[j]
        BY <1>2, <2>1
      <4> QED
        BY <4>1, <4>2
    <3> QED
      BY <1>4, <3>1, <3>2
  <2> DEFINE root == Root(ops', next)
             new == {made[i].hash : i \in DOMAIN made}
  <2> HIDE DEF dev
  <2>3. /\ Put(dev) \in Writes /\ Put(dev).op = "put" /\ Put(dev).hash = Hash(dev)
        /\ Put(dev.child) \in Writes /\ Put(dev.child).op = "put" /\ Put(dev.child).hash = Hash(dev.child)
    BY <2>1, HashTyped DEF Put, Writes
  <2>4. root \in Roots /\ root.devices = next
    BY <1>1 DEF Root, Roots
  <2>5. made \in Seq(Writes) /\ DOMAIN made = {1, 2} /\ made[1] = Put(dev.child) /\ made[2] = Put(dev)
    BY <2>3
  <2> HIDE DEF root, made
  <2>6. Hash(dev) \in new /\ Hash(dev.child) \in new
    BY <2>3, <2>5
  <2> HIDE DEF new
  <2>7. Closure(Content(root)) \subseteq Closure(Content(latest)) \cup new \cup {Hash(root)}
    BY <1>2, <2>2, <2>4, <2>6, ListClosure
  <2>8. \A i \in DOMAIN made : made[i].op = "put"
    BY <2>3, <2>5
  <2> QED
    BY <1>1, <1>3, <2>2, <2>4, <2>5, <2>7, <2>8, MakeLatestStep DEF root, new
<1>5. CASE updateSame(k)
  <2>1. PICK i \in D : todo' = <<Put(devices[i])>> /\ UNCHANGED <<latest, revs, kept, novel>>
    BY <1>5 DEF updateSame
  <2>2. Put(devices[i]) \in Writes /\ Put(devices[i]).op = "put"
    BY <1>2, <2>1, HashTyped DEF Put, Writes
  <2>3. todo' \in Seq(Accesses) /\ DOMAIN todo' = {1} /\ todo'[1].op = "put" /\ todo' # <<>>
    BY <2>1, <2>2 DEF Accesses
  <2>4. pointer = Content(latest) /\ done = Content(latest)
    <3>1. \A n \in DOMAIN todo : todo[n].op # "point"
      BY <1>1
    <3> QED
      BY <1>1, <3>1 DEF IInv, PointerFits
  <2>5. Typed'
    BY <1>1, <2>1, <2>3 DEF IInv, Typed
  <2>6. PointerFits'
    BY <1>1, <2>1, <2>3, <2>4 DEF PointerFits
  <2>7. StoreFits'
    BY <1>1, <2>1, <2>3 DEF IInv, StoreFits
  <2> QED
    BY <2>5, <2>6, <2>7 DEF IInv
<1>6. CASE remove(k)
  <2>1. PICK i \in D : MakeLatest(Root(ops', RemoveAt(devices, i)), <<>>, kept \cup {devices[i], devices[i].child})
    BY <1>6 DEF remove
  <2> DEFINE root == Root(ops', RemoveAt(devices, i))
             cyclic == kept \cup {devices[i], devices[i].child}
  <2>2. devices[i] \in Devices /\ devices[i].child \in Children
    BY <1>2, <2>1 DEF Devices
  <2>3. cyclic \in SUBSET (Devices \cup Children) /\ kept \subseteq cyclic
    BY <1>3, <2>2
  <2>4. IsFiniteSet(cyclic)
    <3>1. IsFiniteSet({devices[i]}) /\ IsFiniteSet({devices[i].child})
      BY FS_Singleton, Zenon
    <3>2. IsFiniteSet({devices[i]} \cup {devices[i].child})
      BY <3>1, FS_Union, Zenon
    <3>3. IsFiniteSet(kept \cup ({devices[i]} \cup {devices[i].child}))
      BY <1>3, <3>2, FS_Union, Zenon
    <3>4. cyclic = kept \cup ({devices[i]} \cup {devices[i].child})
      OBVIOUS
    <3> QED
      BY <3>3, <3>4
  <2>5. root \in Roots /\ root.devices = RemoveAt(devices, i)
    BY <1>1, <1>2, RemovedList DEF Root, Roots
  <2>6. MakeLatest(root, <<>>, cyclic)
    BY <2>1
  <2> HIDE DEF root, cyclic
  <2>7. \A m \in DOMAIN root.devices : \E j \in D : root.devices[m] = devices[j]
    <3>1. \A m \in DOMAIN RemoveAt(devices, i) : \E j \in D : RemoveAt(devices, i)[m] = devices[j]
      BY <1>2, RemovedList
    <3> DEFINE left == RemoveAt(devices, i)
    <3> HIDE DEF left
    <3>2. root.devices = left
      BY <2>5 DEF left
    <3>3. \A m \in DOMAIN left : \E j \in D : left[m] = devices[j]
      BY <3>1 DEF left
    <3> QED
      BY <3>2, <3>3, Zenon
  <2>8. Closure(Content(root)) \subseteq Closure(Content(latest)) \cup {} \cup {Hash(root)}
    BY <1>2, <2>5, <2>7, ListClosure
  <2>9. <<>> \in Seq(Writes) /\ DOMAIN <<>> = {}
    BY EmptySeq
  <2> QED
    BY <1>1, <2>3, <2>4, <2>5, <2>6, <2>8, <2>9, MakeLatestStep, Zenon
<1> QED
  BY <1>4, <1>5, <1>6

(* One access to the store: the blob of a novel tree that is still missing *)
(* comes before "root" names the tree.                                     *)
LEMMA AccessStep ==
    ASSUME IInv, Access
    PROVE  IInv'
<1> DEFINE a == Head(todo)
<1>1. /\ up = "up" /\ todo # <<>> /\ todo \in Seq(Accesses) /\ todo' = Tail(todo)
      /\ UNCHANGED <<up, latest, revs, kept, novel, ops, crashes>>
  BY DEF Access, IInv, Typed
<1>2. /\ a \in Accesses /\ a = todo[1] /\ 1 \in DOMAIN todo
      /\ todo' \in Seq(Accesses) /\ Len(todo) \in Nat /\ Len(todo) > 0
      /\ DOMAIN todo = 1..Len(todo) /\ DOMAIN todo' = 1..(Len(todo) - 1)
      /\ \A i \in DOMAIN todo' : i + 1 \in DOMAIN todo /\ todo'[i] = todo[i + 1]
  <2>1. Head(todo) \in Accesses /\ Tail(todo) \in Seq(Accesses) /\ Len(Tail(todo)) = Len(todo) - 1
    BY <1>1, HeadTailProperties
  <2>2. \A i \in 1..Len(Tail(todo)) : Tail(todo)[i] = todo[i + 1]
    BY <1>1, HeadTailProperties
  <2>3. Len(todo) \in Nat \ {0} /\ DOMAIN todo = 1..Len(todo)
    BY <1>1, EmptySeq, LenProperties
  <2>4. DOMAIN Tail(todo) = 1..Len(Tail(todo))
    BY <2>1, LenProperties
  <2>5. Head(todo) = todo[1]
    BY <1>1
  <2> QED
    BY <1>1, <2>1, <2>2, <2>3, <2>4, <2>5
<1>3. /\ pointer' = IF a.op = "point" THEN a.hash ELSE pointer
      /\ done' = IF todo' = <<>> THEN Content(latest) ELSE done
      /\ a.op = "put" => kv' = kv \cup {a.hash}
      /\ a.op = "point" => kv' = kv
  BY <1>1 DEF Access
<1>4. a.op \in {"put", "del", "point"}
  BY <1>2 DEF Accesses, Writes
<1>5. a.op = "point" => a.hash = Content(latest)
  BY <1>1, <1>2 DEF IInv, PointerFits
<1>6. Content(latest) \in Contents
  BY ContentTyped DEF IInv, Typed
<1> HIDE DEF a
<1>7. Typed'
  BY <1>1, <1>2, <1>3, <1>5, <1>6 DEF IInv, Typed
<1>8. ASSUME \A i \in DOMAIN todo' : todo'[i].op # "point"
      PROVE  pointer' = Content(latest)
  <2>1. CASE a.op = "point"
    BY <1>3, <1>5, <2>1
  <2>2. CASE a.op # "point"
    <3>1. ASSUME NEW i \in DOMAIN todo PROVE todo[i].op # "point"
      <4>1. CASE i = 1
        BY <1>2, <2>2, <4>1
      <4>2. CASE i # 1
        <5>1. i - 1 \in DOMAIN todo' /\ (i - 1) + 1 = i
          BY <1>2, <4>2
        <5> QED
          BY <1>2, <1>8, <5>1
      <4> QED
        BY <4>1, <4>2
    <3> QED
      BY <1>1, <1>3, <2>2, <3>1 DEF IInv, PointerFits
  <2> QED
    BY <2>1, <2>2
<1>9. PointerFits'
  <2>1. todo' = <<>> => \A i \in DOMAIN todo' : todo'[i].op # "point"
    OBVIOUS
  <2>2. pointer' \in {done', Content(latest)}
    <3>1. CASE todo' = <<>>
      BY <1>8, <2>1, <3>1
    <3>2. CASE todo' # <<>>
      BY <1>3, <1>5, <3>2 DEF IInv, PointerFits
    <3> QED
      BY <3>1, <3>2
  <2>3. \A i \in DOMAIN todo' : todo'[i].op = "point" => todo'[i].hash = Content(latest)
    BY <1>1, <1>2 DEF IInv, PointerFits
  <2> QED
    BY <1>1, <1>3, <1>8, <2>2, <2>3 DEF PointerFits
<1>10. StoreFits'
  <2> SUFFICES ASSUME novel PROVE StoreFits'
    BY <1>1 DEF StoreFits
  <2>1. /\ Closure(pointer) \subseteq kv /\ latest \in revs
        /\ \A i \in DOMAIN todo : todo[i].op # "del"
        /\ \A i \in DOMAIN todo : todo[i].op = "point" =>
              Closure(Content(latest)) \subseteq kv \cup {todo[j].hash : j \in 1..(i - 1)}
    BY <1>1 DEF IInv, StoreFits
  <2>2. a.op \in {"put", "point"}
    BY <1>2, <1>4, <2>1
  <2>3. a.op = "point" => Closure(Content(latest)) \subseteq kv
    <3>1. 1..(1 - 1) = {}
      OBVIOUS
    <3> QED
      BY <1>2, <2>1, <3>1
  <2>4. Closure(pointer') \subseteq kv'
    BY <1>3, <1>5, <2>1, <2>2, <2>3
  <2>5. ASSUME NEW i \in DOMAIN todo', todo'[i].op = "point"
        PROVE  Closure(Content(latest)) \subseteq kv' \cup {todo'[j].hash : j \in 1..(i - 1)}
    <3>1. CASE a.op = "point"
      BY <1>3, <2>3, <3>1
    <3>2. CASE a.op = "put"
      <4>1. Closure(Content(latest)) \subseteq kv \cup {todo[j].hash : j \in 1..((i + 1) - 1)}
        BY <1>2, <2>1, <2>5
      <4>2. ASSUME NEW j \in 1..((i + 1) - 1)
            PROVE  todo[j].hash \in {a.hash} \cup {todo'[n].hash : n \in 1..(i - 1)}
        <5>1. CASE j = 1
          BY <1>2, <5>1
        <5>2. CASE j # 1
          <6>1. j - 1 \in 1..(i - 1) /\ j - 1 \in DOMAIN todo' /\ (j - 1) + 1 = j
            BY <1>2, <5>2
          <6>2. todo'[j - 1] = todo[j]
            BY <1>2, <6>1, Zenon
          <6> QED
            BY <6>1, <6>2
        <5> QED
          BY <5>1, <5>2
      <4> QED
        BY <1>3, <3>2, <4>1, <4>2
    <3> QED
      BY <2>2, <3>1, <3>2
  <2>6. \A i \in DOMAIN todo' : todo'[i].op # "del"
    BY <1>2, <2>1
  <2> QED
    BY <1>1, <2>1, <2>4, <2>5, <2>6 DEF StoreFits
<1> QED
  BY <1>7, <1>9, <1>10 DEF IInv

(* The tree that ConfigRoot.load builds has the content that "root" names. *)
LEMMA LoadedContent ==
    ASSUME NEW content \in Contents, NEW n \in Nat
    PROVE  LET root == Root(n, [i \in DOMAIN content |-> Device(n, content[i].key, content[i].value)])
           IN  root \in Roots /\ Content(root) = content
<1> DEFINE devices == [i \in DOMAIN content |-> Device(n, content[i].key, content[i].value)]
           S == DOMAIN content
<1>1. /\ Len(content) \in Nat /\ S = 1..Len(content) /\ content = [i \in S |-> content[i]]
      /\ \A i \in S : content[i] \in Entries
  BY LenProperties DEF Contents
<1>2. ASSUME NEW i \in S
      PROVE  /\ Device(n, content[i].key, content[i].value) \in Devices
             /\ [key |-> Device(n, content[i].key, content[i].value).key,
                 value |-> Device(n, content[i].key, content[i].value).child.value] = content[i]
  BY <1>1, <1>2 DEF Device, Devices, Children, Entries
<1>3. /\ devices \in [1..Len(content) -> Devices] /\ DOMAIN devices = S
      /\ \A i \in S : [key |-> devices[i].key, value |-> devices[i].child.value] = content[i]
  BY <1>1, <1>2
<1> HIDE DEF devices
<1>4. Root(n, devices) \in Roots
  BY <1>1, <1>3, SeqDef DEF Root, Roots
<1>5. Content(Root(n, devices)) = content
  BY <1>1, <1>3 DEF Content, Root
<1> QED
  BY <1>4, <1>5 DEF devices

(* A start of the core.                                                    *)
LEMMA LoadStep ==
    ASSUME IInv, Load
    PROVE  IInv' /\ (up' = "up" => Content(latest') \in {done, Content(latest)})
<1> DEFINE root == Root(ops, [i \in DOMAIN pointer |-> Device(ops, pointer[i].key, pointer[i].value)])
<1>1. up = "down" /\ UNCHANGED <<kv, pointer, ops, crashes>>
  BY DEF Load
<1>2. root \in Roots /\ Content(root) = pointer
  BY LoadedContent DEF IInv, Typed
<1> HIDE DEF root
<1>3. CASE Closure(pointer) \subseteq kv
  <2>1. /\ up' = "up" /\ latest' = root /\ revs' = {root} /\ kept' = {} /\ todo' = <<>>
        /\ done' = pointer /\ novel' = novel
    BY <1>3 DEF Load, root
  <2>2. IsFiniteSet({root}) /\ IsFiniteSet({})
    BY FS_Singleton, FS_EmptySet, Zenon
  <2>3. Typed'
    BY <1>1, <1>2, <2>1, <2>2 DEF IInv, Typed
  <2>4. DOMAIN todo' = {}
    BY <2>1
  <2>5. PointerFits'
    BY <1>1, <1>2, <2>1, <2>4 DEF PointerFits
  <2>6. StoreFits'
    BY <1>1, <1>3, <2>1, <2>4 DEF StoreFits
  <2>7. Content(latest') \in {done, Content(latest)}
    BY <1>2, <2>1 DEF IInv, PointerFits
  <2> QED
    BY <2>3, <2>5, <2>6, <2>7 DEF IInv
<1>4. CASE ~(Closure(pointer) \subseteq kv)
  <2>1. up' = "failed" /\ UNCHANGED <<latest, revs, kept, todo, done, novel>>
    BY <1>4 DEF Load
  <2>2. ~novel
    BY <1>4 DEF IInv, StoreFits
  <2> QED
    BY <1>1, <2>1, <2>2 DEF IInv, Typed, PointerFits, StoreFits
<1> QED
  BY <1>3, <1>4

(* Every step preserves the invariant.                                     *)
LEMMA NextIInv == IInv /\ [Next]_vars => IInv'
<1> SUFFICES ASSUME IInv, [Next]_vars PROVE IInv'
  OBVIOUS
<1>1. CASE UNCHANGED vars
  BY <1>1 DEF vars, IInv, Typed, PointerFits, StoreFits
<1>2. CASE Crash
  BY <1>2 DEF Crash, IInv, Typed, PointerFits, StoreFits
<1>3. ASSUME NEW k \in Keys, updateSame(k) \/ remove(k) PROVE IInv'
  <2>1. PICK i \in DOMAIN latest.devices : latest.devices[i] \in Devices
    BY <1>3, ContentTyped DEF updateSame, remove, IInv, Typed
  <2>2. latest.devices[i].child.value \in Values
    BY <2>1 DEF Devices, Children
  <2> QED
    BY <1>3, <2>2, ChangeStep
<1>4. CASE Next
  BY <1>2, <1>3, <1>4, ChangeStep, AccessStep, LoadStep DEF Next
<1> QED
  BY <1>1, <1>4

-----------------------------------------------------------------------------
(* The inductive invariant.                                                *)
THEOREM Invariance == Spec => []IInv
BY InitIInv, NextIInv, PTL DEF Spec

(* As long as no content of the tree comes back, a core that dies between  *)
(* any two accesses to the store finds all blobs of the tree that "root"   *)
(* names: ConfigRoot.load cannot fail.                                     *)
THEOREM StoreRecoverable == Spec => []Recoverable
<1>1. IInv => Recoverable
  BY DEF IInv, StoreFits, Recoverable
<1> QED
  BY <1>1, Invariance, PTL

(* Whether or not contents come back, a core that starts has the tree of   *)
(* the last finished change or of the change it died in.                   *)
THEOREM RestartIsRecent == Spec => RestartRestores
<1>1. IInv /\ [Next]_vars => [up = "down" /\ up' = "up" => Content(latest') \in {done, Content(latest)}]_vars
  <2> SUFFICES ASSUME IInv, Next, up = "down", up' = "up"
               PROVE  Content(latest') \in {done, Content(latest)}
    OBVIOUS
  <2>1. Load
    BY DEF Next, add, update, updateSame, remove, Change, Access, Crash
  <2> QED
    BY <2>1, LoadStep
<1> QED
  BY <1>1, Invariance, PTL DEF Spec, RestartRestores
=============================================================================
