-------------------------- MODULE VersionChainProofs --------------------------
(***************************************************************************)
(* What the operators on version chains and degree lists return, for every *)
(* list: the facts the proofs about transactions rest on.                  *)
(***************************************************************************)
EXTENDS VersionChain, SequenceTheorems, WellFoundedInduction, TLAPS

\* A set of positions or timestamps has a least member.
LEMMA LeastMember ==
    ASSUME NEW S, S \subseteq Nat, S # {}
    PROVE  \E i \in S : \A j \in S : i <= j
<1>1. PICK i \in S : \A j \in S : ~ (<<j, i>> \in OpToRel(<, Nat))
  BY WFMin, NatLessThanWellFounded
<1>2. \A j \in S : ~ (j < i)
  BY <1>1 DEF OpToRel
<1> QED
  BY <1>2

-----------------------------------------------------------------------------
(* Edge chains *)

\* Inserting an edge again adds its timestamp and loses none.
LEMMA PushVersionAdds ==
    ASSUME NEW chain \in Seq(Nat), NEW ts \in Nat
    PROVE  /\ PushVersion(chain, ts) \in Seq(Nat)
           /\ PushVersion(chain, ts) # <<>>
           /\ ToSet(PushVersion(chain, ts)) = {ts} \cup ToSet(chain)
<1> DEFINE new == PushVersion(chain, ts)
<1>1. <<ts>> \in Seq(Nat) /\ Len(<<ts>>) = 1 /\ <<ts>>[1] = ts
  OBVIOUS
<1>2. /\ new \in Seq(Nat)
      /\ Len(new) = 1 + Len(chain)
      /\ \A i \in 1 .. 1 + Len(chain) :
            new[i] = IF i <= 1 THEN <<ts>>[i] ELSE chain[i - 1]
  BY <1>1, ConcatProperties DEF PushVersion
<1>3. Len(chain) \in Nat /\ DOMAIN chain = 1..Len(chain) /\ DOMAIN new = 1 .. 1 + Len(chain)
  BY <1>2, LenProperties
<1>4. new[1] = ts /\ \A j \in DOMAIN chain : new[j + 1] = chain[j]
  BY <1>1, <1>2, <1>3
<1>5. \A i \in DOMAIN new : i = 1 \/ (i - 1 \in DOMAIN chain /\ new[i] = chain[i - 1])
  BY <1>2, <1>3
<1>6. ToSet(new) \subseteq {ts} \cup ToSet(chain)
  BY <1>4, <1>5 DEF ToSet
<1>7. {ts} \cup ToSet(chain) \subseteq ToSet(new)
  <2>1. 1 \in DOMAIN new /\ \A j \in DOMAIN chain : j + 1 \in DOMAIN new
    BY <1>3
  <2> QED
    BY <1>4, <2>1 DEF ToSet
<1>8. new # <<>>
  BY <1>2, <1>3
<1> HIDE DEF new
<1> QED
  BY <1>2, <1>6, <1>7, <1>8 DEF new

\* check_version asks whether any timestamp of the chain is old enough.
LEMMA CheckVersionIsMembership ==
    ASSUME NEW chain, NEW ts
    PROVE  CheckVersion(chain, ts) <=> \E t \in ToSet(chain) : t <= ts
BY DEF CheckVersion, ToSet

-----------------------------------------------------------------------------
(* Degree lists *)

\* The nodes of a degree list have a degree and a timestamp.
LEMMA NodeTypes ==
    ASSUME NEW list \in Seq(DegreeNode)
    PROVE  /\ DOMAIN list \subseteq Nat
           /\ \A k \in DOMAIN list : list[k].deg \in Nat /\ list[k].ts \in Nat
<1>1. DOMAIN list \subseteq Nat /\ \A k \in DOMAIN list : list[k] \in DegreeNode
  <2> HIDE DEF DegreeNode
  <2> QED
    BY LenProperties, ElementOfSeq
<1>2. \A n \in DegreeNode : n.deg \in Nat /\ n.ts \in Nat
  BY DEF DegreeNode
<1> QED
  BY <1>1, <1>2

\* i is the position get_degree(ts) stops at.
StopsAt(list, ts, i) ==
    /\ i \in DOMAIN list /\ list[i].ts <= ts
    /\ \A j \in DOMAIN list : j < i => list[j].ts > ts

\* get_degree returns the degree of the node its loop stops at.
LEMMA GetDegreeStops ==
    ASSUME NEW list \in Seq(DegreeNode), NEW ts \in Int, NEW i, StopsAt(list, ts, i)
    PROVE  GetDegree(list, ts) = list[i].deg
<1>0. DOMAIN list \subseteq Nat /\ \A k \in DOMAIN list : list[k].ts \in Nat
  BY NodeTypes
<1>1. \A k \in DOMAIN list : StopsAt(list, ts, k) => k = i
  BY <1>0 DEF StopsAt
<1> DEFINE P(k) == /\ list[k].ts <= ts
                   /\ \A j \in DOMAIN list : j < k => list[j].ts > ts
<1>2. \A k \in DOMAIN list : P(k) => k = i
  BY <1>1 DEF StopsAt
<1>3. i \in DOMAIN list /\ P(i)
  BY DEF StopsAt
<1>4. (CHOOSE k \in DOMAIN list : P(k)) = i
  <2> HIDE DEF P
  <2> QED
    BY <1>2, <1>3
<1> QED
  BY <1>4 DEF GetDegree

\* Where get_degree has an answer its loop stops somewhere.
LEMMA StopExists ==
    ASSUME NEW list \in Seq(DegreeNode), NEW ts \in Int, HasDegree(list, ts)
    PROVE  \E i \in DOMAIN list : StopsAt(list, ts, i)
<1>0. DOMAIN list \subseteq Nat /\ \A k \in DOMAIN list : list[k].ts \in Nat
  BY NodeTypes
<1> DEFINE old == {k \in DOMAIN list : list[k].ts <= ts}
<1>1. old \subseteq Nat /\ old # {}
  BY <1>0 DEF HasDegree
<1>2. PICK i \in old : \A j \in old : i <= j
  <2> HIDE DEF old
  <2> QED
    BY <1>1, LeastMember
<1>3. StopsAt(list, ts, i)
  BY <1>0, <1>2 DEF StopsAt
<1> QED
  BY <1>3

\* get_degree returns a count whenever it does not throw.
LEMMA GetDegreeType ==
    ASSUME NEW list \in Seq(DegreeNode), NEW ts \in Int, HasDegree(list, ts)
    PROVE  GetDegree(list, ts) \in Nat
<1>1. PICK i \in DOMAIN list : StopsAt(list, ts, i)
  BY StopExists
<1>2. list[i].deg \in Nat
  BY NodeTypes
<1> QED
  BY <1>1, <1>2, GetDegreeStops

\* After update_degree(deg, t) a snapshot at t or later reads deg, an older one
\* what it read before.
LEMMA UpdateDegreeReads ==
    ASSUME NEW list \in Seq(DegreeNode), NEW deg \in Nat, NEW t \in Nat
    PROVE  /\ UpdateDegree(list, deg, t) \in Seq(DegreeNode)
           /\ \A ts \in Int : HasDegree(UpdateDegree(list, deg, t), ts)
                                <=> t <= ts \/ HasDegree(list, ts)
           /\ \A ts \in Int : t <= ts => GetDegree(UpdateDegree(list, deg, t), ts) = deg
           /\ \A ts \in Int : ~ (t <= ts) /\ HasDegree(list, ts) =>
                GetDegree(UpdateDegree(list, deg, t), ts) = GetDegree(list, ts)
<1> DEFINE node == [deg |-> deg, ts |-> t]
           new  == UpdateDegree(list, deg, t)
<1>1. node \in DegreeNode /\ node.deg = deg /\ node.ts = t
  BY DEF DegreeNode
<1> HIDE DEF node
<1>2. <<node>> \in Seq(DegreeNode) /\ Len(<<node>>) = 1 /\ <<node>>[1] = node
  BY <1>1
<1>3. /\ new \in Seq(DegreeNode)
      /\ Len(new) = 1 + Len(list)
      /\ \A i \in 1 .. 1 + Len(list) :
            new[i] = IF i <= 1 THEN <<node>>[i] ELSE list[i - 1]
  <2>1. new = <<node>> \o list
    BY DEF UpdateDegree, node
  <2> QED
    BY <1>2, <2>1, ConcatProperties
<1>4. Len(list) \in Nat /\ DOMAIN list = 1..Len(list) /\ DOMAIN new = 1 .. 1 + Len(list)
  BY <1>3, LenProperties
<1> HIDE DEF new
<1>5. /\ 1 \in DOMAIN new /\ new[1] = node
      /\ \A j \in DOMAIN list : j + 1 \in DOMAIN new /\ new[j + 1] = list[j]
      /\ \A i \in DOMAIN new : i = 1 \/ (i - 1 \in DOMAIN list /\ new[i] = list[i - 1])
  BY <1>2, <1>3, <1>4
<1>6. ASSUME NEW ts \in Int PROVE HasDegree(new, ts) <=> t <= ts \/ HasDegree(list, ts)
  BY <1>1, <1>5 DEF HasDegree
<1>7. ASSUME NEW ts \in Int, t <= ts PROVE GetDegree(new, ts) = deg
  <2>1. StopsAt(new, ts, 1)
    BY <1>1, <1>4, <1>5, <1>7 DEF StopsAt
  <2> QED
    BY <1>1, <1>3, <1>5, <2>1, GetDegreeStops
<1>8. ASSUME NEW ts \in Int, ~ (t <= ts), HasDegree(list, ts)
      PROVE  GetDegree(new, ts) = GetDegree(list, ts)
  <2>1. PICK i \in DOMAIN list : StopsAt(list, ts, i)
    BY <1>8, StopExists
  <2>2. StopsAt(new, ts, i + 1)
    <3>1. i + 1 \in DOMAIN new /\ new[i + 1].ts <= ts
      BY <1>5, <2>1 DEF StopsAt
    <3>2. ASSUME NEW j \in DOMAIN new, j < i + 1 PROVE new[j].ts > ts
      <4>1. CASE j = 1
        BY <1>1, <1>5, <1>8, <4>1
      <4>2. CASE j # 1
        BY <1>4, <1>5, <2>1, <3>2, <4>2 DEF StopsAt
      <4> QED
        BY <4>1, <4>2
    <3> QED
      BY <3>1, <3>2 DEF StopsAt
  <2>3. GetDegree(new, ts) = new[i + 1].deg
    BY <1>3, <2>2, GetDegreeStops
  <2>4. GetDegree(list, ts) = list[i].deg
    BY <2>1, GetDegreeStops
  <2> QED
    BY <1>5, <2>3, <2>4
<1> QED
  BY <1>3, <1>6, <1>7, <1>8 DEF new

\* update_degree adds one node and keeps the others.
LEMMA UpdateDegreeNodes ==
    ASSUME NEW list \in Seq(DegreeNode), NEW deg \in Nat, NEW t \in Nat
    PROVE  /\ UpdateDegree(list, deg, t) # <<>>
           /\ \A ts \in Int : t <= ts /\ (\A i \in DOMAIN list : list[i].ts <= ts) =>
                \A i \in DOMAIN UpdateDegree(list, deg, t) : UpdateDegree(list, deg, t)[i].ts <= ts
<1> DEFINE node == [deg |-> deg, ts |-> t]
           new  == UpdateDegree(list, deg, t)
<1>1. node \in DegreeNode /\ node.ts = t
  BY DEF DegreeNode
<1> HIDE DEF node
<1>2. <<node>> \in Seq(DegreeNode) /\ Len(<<node>>) = 1 /\ <<node>>[1] = node
  BY <1>1
<1>3. new = <<node>> \o list
  BY DEF UpdateDegree, node
<1>4. /\ new \in Seq(DegreeNode)
      /\ Len(new) = 1 + Len(list)
      /\ \A i \in 1 .. 1 + Len(list) :
            new[i] = IF i <= 1 THEN <<node>>[i] ELSE list[i - 1]
  BY <1>2, <1>3, ConcatProperties
<1>5. Len(list) \in Nat /\ DOMAIN list = 1..Len(list) /\ DOMAIN new = 1 .. 1 + Len(list)
  BY <1>4, LenProperties
<1> HIDE DEF new
<1>6. \A i \in DOMAIN new : new[i] = node \/ (i - 1 \in DOMAIN list /\ new[i] = list[i - 1])
  BY <1>2, <1>4, <1>5
<1>7. new # <<>>
  BY <1>4, <1>5
<1> QED
  BY <1>1, <1>6, <1>7 DEF new

-----------------------------------------------------------------------------
(* Order *)

\* A timestamp not older than those of the list, put in front, keeps the list
\* newest first.
LEMMA PushVersionOrders ==
    ASSUME NEW chain \in Seq(Nat), NEW t \in Nat, \A k \in DOMAIN chain : chain[k] <= t,
           \A i, j \in DOMAIN chain : i < j => chain[i] >= chain[j]
    PROVE  \A i, j \in DOMAIN PushVersion(chain, t) :
                i < j => PushVersion(chain, t)[i] >= PushVersion(chain, t)[j]
<1> DEFINE new == PushVersion(chain, t)
<1>1. <<t>> \in Seq(Nat) /\ Len(<<t>>) = 1 /\ <<t>>[1] = t
  OBVIOUS
<1>2. /\ new \in Seq(Nat) /\ Len(new) = 1 + Len(chain)
      /\ \A i \in 1 .. 1 + Len(chain) : new[i] = IF i <= 1 THEN <<t>>[i] ELSE chain[i - 1]
  BY <1>1, ConcatProperties DEF PushVersion
<1>3. /\ Len(chain) \in Nat /\ DOMAIN chain = 1..Len(chain) /\ DOMAIN new = 1 .. 1 + Len(chain)
      /\ \A k \in DOMAIN chain : chain[k] \in Nat
  BY <1>2, LenProperties, ElementOfSeq
<1> HIDE DEF new
<1>4. new[1] = t /\ \A i \in DOMAIN new : i = 1 \/ (i - 1 \in DOMAIN chain /\ new[i] = chain[i - 1])
  BY <1>1, <1>2, <1>3
<1>5. ASSUME NEW i \in DOMAIN new, NEW j \in DOMAIN new, i < j PROVE new[i] >= new[j]
  <2>1. j - 1 \in DOMAIN chain /\ new[j] = chain[j - 1]
    BY <1>3, <1>4, <1>5
  <2>2. CASE i = 1
    BY <1>3, <1>4, <2>1, <2>2
  <2>3. CASE i # 1
    <3>1. i - 1 \in DOMAIN chain /\ new[i] = chain[i - 1] /\ i - 1 < j - 1
      BY <1>3, <1>4, <1>5, <2>3
    <3> QED
      BY <2>1, <3>1
  <2> QED
    BY <2>2, <2>3
<1> QED
  BY <1>5 DEF new

\* A push_front with the newest timestamp keeps the list newest first.
LEMMA UpdateDegreeOrders ==
    ASSUME NEW list \in Seq(DegreeNode), NEW deg \in Nat, NEW t \in Nat,
           \A k \in DOMAIN list : list[k].ts <= t,
           \A i, j \in DOMAIN list : i < j => list[i].ts >= list[j].ts
    PROVE  \A i, j \in DOMAIN UpdateDegree(list, deg, t) :
                i < j => UpdateDegree(list, deg, t)[i].ts >= UpdateDegree(list, deg, t)[j].ts
<1> DEFINE node == [deg |-> deg, ts |-> t]
           new  == UpdateDegree(list, deg, t)
<1>1. node \in DegreeNode /\ node.ts = t
  BY DEF DegreeNode
<1> HIDE DEF node
<1>2. <<node>> \in Seq(DegreeNode) /\ Len(<<node>>) = 1 /\ <<node>>[1] = node
  BY <1>1
<1>3. new = <<node>> \o list
  BY DEF UpdateDegree, node
<1>4. /\ new \in Seq(DegreeNode) /\ Len(new) = 1 + Len(list)
      /\ \A i \in 1 .. 1 + Len(list) : new[i] = IF i <= 1 THEN <<node>>[i] ELSE list[i - 1]
  BY <1>2, <1>3, ConcatProperties
<1>5. /\ Len(list) \in Nat /\ DOMAIN list = 1..Len(list) /\ DOMAIN new = 1 .. 1 + Len(list)
      /\ \A k \in DOMAIN list : list[k].ts \in Nat
  BY <1>4, LenProperties, NodeTypes
<1> HIDE DEF new
<1>6. new[1] = node /\ \A i \in DOMAIN new : i = 1 \/ (i - 1 \in DOMAIN list /\ new[i] = list[i - 1])
  BY <1>2, <1>4, <1>5
<1>7. ASSUME NEW i \in DOMAIN new, NEW j \in DOMAIN new, i < j PROVE new[i].ts >= new[j].ts
  <2>1. j - 1 \in DOMAIN list /\ new[j] = list[j - 1]
    BY <1>5, <1>6, <1>7
  <2>2. CASE i = 1
    BY <1>1, <1>5, <1>6, <2>1, <2>2
  <2>3. CASE i # 1
    <3>1. i - 1 \in DOMAIN list /\ new[i] = list[i - 1] /\ i - 1 < j - 1
      BY <1>5, <1>6, <1>7, <2>3
    <3> QED
      BY <2>1, <3>1
  <2> QED
    BY <2>2, <2>3
<1> QED
  BY <1>7 DEF new

-----------------------------------------------------------------------------
(* Collection *)

\* A function on 0..L may be defined by its value at 0 and a step from each value
\* to the next one.
LEMMA Recursion ==
    ASSUME NEW S, NEW base \in S, NEW L \in Nat, NEW step \in [1..L -> [S -> S]]
    PROVE  \E f \in [0..L -> S] :
                f[0] = base /\ \A n \in 1..L : f[n] = step[n][f[n-1]]
<1> DEFINE Rec(m, f) == f[0] = base /\ \A n \in 1..m : f[n] = step[n][f[n-1]]
           Bad == {m \in 0..L : ~ \E f \in [0..m -> S] : Rec(m, f)}
<1>1. SUFFICES ASSUME Bad # {} PROVE FALSE
  <2>1. L \notin Bad
    BY <1>1
  <2> QED
    BY <2>1
<1>2. PICK m \in Bad : \A j \in Bad : m <= j
  <2>1. Bad \subseteq Nat
    OBVIOUS
  <2> HIDE DEF Bad
  <2> QED
    BY <1>1, <2>1, LeastMember
<1>3. m \in 0..L /\ ~ \E f \in [0..m -> S] : Rec(m, f)
  OBVIOUS
<1>4. CASE m = 0
  <2>1. [n \in 0..0 |-> base] \in [0..0 -> S] /\ Rec(0, [n \in 0..0 |-> base])
    OBVIOUS
  <2> QED
    BY <1>3, <1>4, <2>1
<1>5. CASE m # 0
  <2>1. m - 1 \in 0..L /\ m \in 1..L /\ ~ (m <= m - 1)
    BY <1>3, <1>5
  <2>2. m - 1 \notin Bad
    BY <1>2, <2>1
  <2>3. PICK g \in [0..m-1 -> S] : Rec(m - 1, g)
    BY <2>1, <2>2
  <2> DEFINE h == [n \in 0..m |-> IF n = m THEN step[m][g[m-1]] ELSE g[n]]
  <2>4. g[m-1] \in S /\ step[m][g[m-1]] \in S
    BY <2>1
  <2>5. h \in [0..m -> S]
    BY <2>1, <2>4
  <2>6. Rec(m, h)
    <3>1. h[0] = base
      BY <1>5, <2>1, <2>3
    <3>2. ASSUME NEW n \in 1..m PROVE h[n] = step[n][h[n-1]]
      <4>1. n - 1 \in 0..m /\ n - 1 # m /\ n \in 0..m /\ h[n-1] = g[n-1]
        BY <2>1
      <4>2. CASE n = m
        <5>1. h[n] = step[m][g[m-1]]
          BY <4>1, <4>2
        <5> QED
          BY <4>1, <4>2, <5>1
      <4>3. CASE n # m
        <5>1. n \in 1..m-1 /\ h[n] = g[n]
          BY <2>1, <4>3
        <5> QED
          BY <2>3, <4>1, <5>1
      <4> QED
        BY <4>2, <4>3
    <3> HIDE DEF h
    <3> QED
      BY <3>1, <3>2
  <2> QED
    BY <1>3, <2>5, <2>6
<1> QED
  BY <1>4, <1>5

\* The walk of VersionedEdgeEntry::gc.
GcWalk(chain, min, kept) ==
    kept = [n \in 0..Len(chain) |->
                IF n = 0 THEN <<>>
                ELSE IF n = 1 \/ chain[n] >= min THEN Append(kept[n-1], chain[n])
                ELSE kept[n-1]]

LEMMA GcWalkExists ==
    ASSUME NEW T, NEW chain \in Seq(T), NEW min
    PROVE  \E kept \in [0..Len(chain) -> Seq(T)] :
                /\ GcWalk(chain, min, kept) /\ GcChain(chain, min) = kept[Len(chain)]
<1> DEFINE L == Len(chain)
           step == [n \in 1..L |-> [s \in Seq(T) |->
                        IF n = 1 \/ chain[n] >= min THEN Append(s, chain[n]) ELSE s]]
<1>1. L \in Nat /\ \A i \in 1..L : chain[i] \in T
  BY LenProperties, ElementOfSeq
<1>2. <<>> \in Seq(T)
  OBVIOUS
<1>3. step \in [1..L -> [Seq(T) -> Seq(T)]]
  BY <1>1, AppendProperties
<1>4. PICK f \in [0..L -> Seq(T)] :
        f[0] = <<>> /\ \A n \in 1..L : f[n] = step[n][f[n-1]]
  <2>1. L \in Nat
    BY <1>1
  <2> DEFINE S == Seq(T)
             empty == <<>>
  <2>2. empty \in S /\ step \in [1..L -> [S -> S]]
    BY <1>3
  <2> HIDE DEF step, L, S, empty
  <2>3. \E f \in [0..L -> S] : f[0] = empty /\ \A n \in 1..L : f[n] = step[n][f[n-1]]
    BY <2>1, <2>2, Recursion
  <2> QED
    BY <2>3 DEF S, empty
<1>5. \A n \in 1..L : f[n] = IF n = 1 \/ chain[n] >= min THEN Append(f[n-1], chain[n]) ELSE f[n-1]
  <2> TAKE n \in 1..L
  <2>1. n - 1 \in 0..L
    BY <1>1
  <2>2. f[n-1] \in Seq(T)
    <3> HIDE DEF L
    <3> QED
      BY <2>1
  <2> QED
    BY <1>4, <2>1, <2>2
<1>6. GcWalk(chain, min, f)
  <2>1. \A n \in 0..L : f[n] = IF n = 0 THEN <<>>
                ELSE IF n = 1 \/ chain[n] >= min THEN Append(f[n-1], chain[n])
                ELSE f[n-1]
    <3> TAKE n \in 0..L
    <3>1. n = 0 \/ n \in 1..L
      BY <1>1
    <3> HIDE DEF L
    <3> QED
      BY <1>4, <1>5, <3>1
  <2>2. DOMAIN f = 0..L /\ f = [n \in 0..L |-> f[n]]
    OBVIOUS
  <2> QED
    BY <2>1, <2>2 DEF GcWalk
<1>7. \A g : GcWalk(chain, min, g) => g = f
  <2> SUFFICES ASSUME NEW g, GcWalk(chain, min, g) PROVE g = f
    OBVIOUS
  <2> DEFINE differ == {n \in 0..L : g[n] # f[n]}
  <2>1. DOMAIN g = 0..L /\ g = [n \in 0..L |-> g[n]]
    BY DEF GcWalk
  <2>2. \A n \in 0..L : g[n] = IF n = 0 THEN <<>>
                ELSE IF n = 1 \/ chain[n] >= min THEN Append(g[n-1], chain[n])
                ELSE g[n-1]
    BY DEF GcWalk
  <2>3. SUFFICES ASSUME differ # {} PROVE FALSE
    BY <2>1, <2>3
  <2>4. PICK n \in differ : \A j \in differ : n <= j
    <3>1. differ \subseteq Nat
      OBVIOUS
    <3> HIDE DEF differ
    <3> QED
      BY <2>3, <3>1, LeastMember
  <2>5. n # 0
    BY <1>4, <2>2, <2>4
  <2>6. n \in 1..L /\ n - 1 \in 0..L /\ ~ (n <= n - 1)
    BY <1>1, <2>4, <2>5
  <2>7. g[n-1] = f[n-1]
    BY <2>4, <2>6
  <2> QED
    BY <1>5, <2>2, <2>4, <2>5, <2>6, <2>7
<1>8. GcChain(chain, min) = f[L]
  <2>1. GcChain(chain, min) = (CHOOSE g : GcWalk(chain, min, g))[L]
    BY DEF GcChain, GcWalk
  <2>2. (CHOOSE g : GcWalk(chain, min, g)) = f
    BY <1>6, <1>7
  <2> QED
    BY <2>1, <2>2
<1> QED
  BY <1>6, <1>8

\* Collection keeps the head of a chain, the newest version, whatever its age, and
\* adds nothing.
LEMMA GcChainKeeps ==
    ASSUME NEW T, NEW chain \in Seq(T), NEW min
    PROVE  /\ GcChain(chain, min) \in Seq(T)
           /\ ToSet(GcChain(chain, min)) \subseteq ToSet(chain)
           /\ chain = <<>> => GcChain(chain, min) = <<>>
           /\ chain # <<>> => /\ GcChain(chain, min) # <<>>
                              /\ GcChain(chain, min)[1] = chain[1]
<1>1. PICK kept \in [0..Len(chain) -> Seq(T)] :
        GcWalk(chain, min, kept) /\ GcChain(chain, min) = kept[Len(chain)]
  BY GcWalkExists
<1>2. /\ Len(chain) \in Nat /\ DOMAIN chain = 1..Len(chain)
      /\ \A i \in 1..Len(chain) : chain[i] \in T
      /\ chain = <<>> <=> Len(chain) = 0
  BY LenProperties, ElementOfSeq, EmptySeq
<1>3. \A n \in 0..Len(chain) :
        kept[n] = IF n = 0 THEN <<>>
                  ELSE IF n = 1 \/ chain[n] >= min THEN Append(kept[n-1], chain[n])
                  ELSE kept[n-1]
  BY <1>1 DEF GcWalk
<1> DEFINE Holds(n) == /\ \A i \in 1..Len(kept[n]) : \E j \in 1..Len(chain) : kept[n][i] = chain[j]
                       /\ n > 0 => Len(kept[n]) > 0 /\ kept[n][1] = chain[1]
           bad == {n \in 0..Len(chain) : ~ Holds(n)}
<1>4. bad = {}
  <2> SUFFICES ASSUME bad # {} PROVE FALSE
    OBVIOUS
  <2>1. PICK n \in bad : \A j \in bad : n <= j
    <3>1. bad \subseteq Nat
      OBVIOUS
    <3> HIDE DEF bad
    <3> QED
      BY <3>1, LeastMember
  <2>2. n # 0
    BY <1>3, <2>1
  <2>3. n \in 1..Len(chain) /\ n - 1 \in 0..Len(chain) /\ ~ (n <= n - 1)
    BY <1>2, <2>1, <2>2
  <2>4. Holds(n - 1)
    BY <2>1, <2>3
  <2>5. CASE n = 1 \/ chain[n] >= min
    <3>1. kept[n] = Append(kept[n-1], chain[n])
      BY <1>3, <2>3, <2>5, SMTT(40)
    <3>2. kept[n-1] \in Seq(T) /\ chain[n] \in T
      BY <1>2, <2>3
    <3>3. /\ Len(kept[n]) = Len(kept[n-1]) + 1
          /\ \A i \in 1..Len(kept[n-1]) : kept[n][i] = kept[n-1][i]
          /\ kept[n][Len(kept[n])] = chain[n]
          /\ Len(kept[n-1]) \in Nat
      BY <3>1, <3>2, AppendProperties, LenProperties
    <3>4. n = 1 => Len(kept[n-1]) = 0
      BY <1>3, <2>3
    <3>5. Holds(n)
      <4>1. ASSUME NEW i \in 1..Len(kept[n]) PROVE \E j \in 1..Len(chain) : kept[n][i] = chain[j]
        <5>1. CASE i = Len(kept[n])
          BY <2>3, <3>3, <5>1
        <5>2. CASE i # Len(kept[n])
          <6>1. i \in 1..Len(kept[n-1])
            BY <3>3, <5>2
          <6> QED
            BY <2>4, <3>3, <6>1
        <5> QED
          BY <5>1, <5>2
      <4>2. Len(kept[n]) > 0
        BY <3>3
      <4>3. kept[n][1] = chain[1]
        <5>1. CASE n = 1
          BY <3>3, <3>4, <5>1
        <5>2. CASE n # 1
          <6>1. 1 \in 1..Len(kept[n-1]) /\ kept[n-1][1] = chain[1]
            BY <2>3, <2>4, <3>3, <5>2
          <6> QED
            BY <3>3, <6>1
        <5> QED
          BY <5>1, <5>2
      <4> QED
        BY <4>1, <4>2, <4>3
    <3> QED
      BY <2>1, <3>5
  <2>6. CASE ~ (n = 1 \/ chain[n] >= min)
    <3>1. kept[n] = kept[n-1] /\ n - 1 > 0
      BY <1>2, <1>3, <2>2, <2>3, <2>6
    <3>2. Holds(n)
      BY <2>4, <3>1
    <3> QED
      BY <2>1, <3>2
  <2> QED
    BY <2>5, <2>6
<1>5. Holds(Len(chain)) /\ kept[Len(chain)] \in Seq(T)
  BY <1>2, <1>4
<1>6. DOMAIN kept[Len(chain)] = 1..Len(kept[Len(chain)])
  BY <1>5, LenProperties
<1>7. ToSet(kept[Len(chain)]) \subseteq ToSet(chain)
  BY <1>2, <1>5, <1>6 DEF ToSet
<1>8. chain = <<>> => kept[Len(chain)] = <<>>
  BY <1>2, <1>3
<1>9. chain # <<>> => kept[Len(chain)] # <<>> /\ kept[Len(chain)][1] = chain[1]
  BY <1>2, <1>5
<1> QED
  BY <1>1, <1>5, <1>7, <1>8, <1>9

\* VertexEntry::gc keeps the head of a degree list and adds nothing.
LEMMA GcDegreeKeeps ==
    ASSUME NEW list \in Seq(DegreeNode), NEW min
    PROVE  /\ GcDegree(list, min) \in Seq(DegreeNode)
           /\ \A i \in DOMAIN GcDegree(list, min) :
                \E j \in DOMAIN list : GcDegree(list, min)[i] = list[j]
           /\ list # <<>> => /\ GcDegree(list, min) # <<>>
                             /\ GcDegree(list, min)[1] = list[1]
<1> DEFINE old == {i \in DOMAIN list : i > 1 /\ list[i].ts < min}
           k == CHOOSE i \in old : \A j \in old : i <= j
           L == Len(list)
<1>1. L \in Nat /\ DOMAIN list = 1..L /\ (list # <<>> => 1 \in 1..L)
  BY LenProperties, EmptySeq
<1>2. CASE old = {}
  BY <1>1, <1>2 DEF GcDegree
<1>3. CASE old # {}
  <2>1. k \in old
    <3>1. old \subseteq Nat
      BY <1>1
    <3> HIDE DEF old
    <3>2. \E i \in old : \A j \in old : i <= j
      BY <1>3, <3>1, LeastMember
    <3> QED
      BY <3>2
  <2> DEFINE a == SubSeq(list, 1, k - 1)
             b == SubSeq(list, k + 1, L)
  <2>2. GcDegree(list, min) = a \o b
    BY <1>3 DEF GcDegree, RemoveAt
  <2>3. k \in 1..L /\ k > 1
    BY <1>1, <2>1
  <2> HIDE DEF old, k, L
  <2>4. \A i \in 1..L : list[i] \in DegreeNode
    BY ElementOfSeq DEF L
  <2>5. /\ a \in Seq(DegreeNode) /\ Len(a) = k - 1
        /\ \A i \in 1..k-1 : a[i] = list[i]
    <3>1. 1 \in Int /\ k - 1 \in Int /\ \A i \in 1..k-1 : list[i] \in DegreeNode
      BY <1>1, <2>3, <2>4
    <3>2. /\ SubSeq(list, 1, k - 1) \in Seq(DegreeNode)
          /\ Len(SubSeq(list, 1, k - 1)) = IF 1 <= k - 1 THEN (k - 1) - 1 + 1 ELSE 0
          /\ \A i \in 1..(k - 1) - 1 + 1 : SubSeq(list, 1, k - 1)[i] = list[1 + i - 1]
      BY <3>1, SubSeqProperties
    <3> QED
      BY <1>1, <2>3, <3>2
  <2>6. /\ b \in Seq(DegreeNode) /\ Len(b) = L - k
        /\ \A i \in 1..L-k : b[i] = list[k + i]
    <3>1. k + 1 \in Int /\ L \in Int /\ \A i \in k+1..L : list[i] \in DegreeNode
      BY <1>1, <2>3, <2>4
    <3>2. /\ SubSeq(list, k + 1, L) \in Seq(DegreeNode)
          /\ Len(SubSeq(list, k + 1, L)) = IF k + 1 <= L THEN L - (k + 1) + 1 ELSE 0
          /\ \A i \in 1..L - (k + 1) + 1 : SubSeq(list, k + 1, L)[i] = list[(k + 1) + i - 1]
      BY <3>1, SubSeqProperties
    <3> QED
      BY <1>1, <2>3, <3>2
  <2> HIDE DEF a, b
  <2>7. /\ a \o b \in Seq(DegreeNode) /\ Len(a \o b) = L - 1
        /\ \A i \in 1..L-1 : (a \o b)[i] = IF i <= k - 1 THEN a[i] ELSE b[i - (k - 1)]
    <3>1. /\ a \o b \in Seq(DegreeNode)
          /\ Len(a \o b) = Len(a) + Len(b)
          /\ \A i \in 1..Len(a) + Len(b) : (a \o b)[i] = IF i <= Len(a) THEN a[i] ELSE b[i - Len(a)]
      BY <2>5, <2>6, ConcatProperties
    <3>2. Len(a) + Len(b) = L - 1
      BY <1>1, <2>3, <2>5, <2>6
    <3> QED
      BY <2>5, <3>1, <3>2
  <2>8. DOMAIN (a \o b) = 1..L-1
    BY <2>7, LenProperties
  <2>9. ASSUME NEW i \in 1..L-1 PROVE \E j \in 1..L : (a \o b)[i] = list[j]
    <3>1. CASE i <= k - 1
      BY <1>1, <2>3, <2>5, <2>7, <3>1
    <3>2. CASE ~ (i <= k - 1)
      <4>1. i - (k - 1) \in 1..L-k /\ k + (i - (k - 1)) = i + 1 /\ i + 1 \in 1..L
        BY <1>1, <2>3, <3>2
      <4> QED
        BY <2>6, <2>7, <3>2, <4>1
    <3> QED
      BY <3>1, <3>2
  <2>10. 1 \in 1..L-1 /\ (a \o b)[1] = list[1]
    BY <1>1, <2>3, <2>5, <2>7
  <2>11. a \o b # <<>>
    <3>1. Len(a \o b) # 0
      BY <2>7, <2>10
    <3> QED
      BY <3>1, EmptySeq
  <2> QED
    BY <1>1, <2>2, <2>7, <2>8, <2>9, <2>10, <2>11
<1> QED
  BY <1>2, <1>3

\* An insertion keeps the type of a chain.
LEMMA PushVersionType ==
    ASSUME NEW T, NEW chain \in Seq(T), NEW ts \in T
    PROVE  PushVersion(chain, ts) \in Seq(T)
<1>1. <<ts>> \in Seq(T)
  OBVIOUS
<1> QED
  BY <1>1, ConcatProperties DEF PushVersion

\* The node update_degree pushes is the head; the others stay behind it.
LEMMA UpdateDegreeHead ==
    ASSUME NEW list \in Seq(DegreeNode), NEW deg \in Nat, NEW t \in Nat
    PROVE  /\ UpdateDegree(list, deg, t) # <<>>
           /\ UpdateDegree(list, deg, t)[1].deg = deg
           /\ \A i \in DOMAIN UpdateDegree(list, deg, t) :
                \/ UpdateDegree(list, deg, t)[i].ts = t
                \/ \E j \in DOMAIN list : UpdateDegree(list, deg, t)[i] = list[j]
<1> DEFINE node == [deg |-> deg, ts |-> t]
           new  == UpdateDegree(list, deg, t)
<1>1. node \in DegreeNode /\ node.ts = t /\ node.deg = deg
  BY DEF DegreeNode
<1> HIDE DEF node
<1>2. <<node>> \in Seq(DegreeNode) /\ Len(<<node>>) = 1 /\ <<node>>[1] = node
  BY <1>1
<1>3. new = <<node>> \o list
  BY DEF UpdateDegree, node
<1>4. /\ new \in Seq(DegreeNode) /\ Len(new) = 1 + Len(list)
      /\ \A i \in 1 .. 1 + Len(list) : new[i] = IF i <= 1 THEN <<node>>[i] ELSE list[i - 1]
  BY <1>2, <1>3, ConcatProperties
<1>5. Len(list) \in Nat /\ DOMAIN list = 1..Len(list) /\ DOMAIN new = 1 .. 1 + Len(list)
  BY <1>4, LenProperties
<1> HIDE DEF new
<1>6. new[1] = node /\ \A i \in DOMAIN new : i = 1 \/ (i - 1 \in DOMAIN list /\ new[i] = list[i - 1])
  BY <1>2, <1>4, <1>5
<1>7. new # <<>>
  BY <1>4, <1>5
<1> QED
  BY <1>1, <1>6, <1>7 DEF new
=============================================================================
