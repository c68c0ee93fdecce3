----------------------------- MODULE VsfsProofs -----------------------------
(* Proofs about Vsfs, for any files and names, a disk of any size and any  *)
(* number of commands and kills.                                           *)
EXTENDS Vsfs, ListLemmas, SequenceTheorems

(* A sequence, whatever its elements are.                                  *)
IsSeq(s) == s \in Seq({s[k] : k \in DOMAIN s})

INodeRecords == [startingBlock : Nat, size : Nat, name : Names \cup {NoName}]

(* The types on which the uniqueness of names rests: what load puts into a *)
(* file of the host, cp may copy back.                                     *)
Typed ==
  /\ iNodeBitmap \in [INodes -> BOOLEAN]
  /\ iNodeTable \in [INodes -> INodeRecords]
  /\ host = [f \in Names |-> host[f]]
  /\ \A f \in Names : host[f] # Nothing => IsSeq(host[f])
  /\ IsSeq(todo)
  /\ \A k \in DOMAIN todo :
       /\ todo[k].area = "iNodeBitmap" => todo[k].value \in BOOLEAN
       /\ todo[k].area = "iNodeTable" => todo[k].value \in INodeRecords
       /\ todo[k].area = "host" => IsSeq(todo[k].value)

(* The writes to the inode table that the running command has yet to make. *)
NodeWrites == {k \in DOMAIN todo : todo[k].area = "iNodeTable"}

(* A command writes one inode at most, and after it has occupied it.       *)
OneNode == \A k, l \in NodeWrites : k = l

NodeFollows ==
  \A k \in DOMAIN todo :
    todo[k].area = "iNodeBitmap" /\ todo[k].value = TRUE =>
      \E l \in NodeWrites : k < l /\ todo[l].index = todo[k].index

(* The name that it will write is the name of no other file.               *)
NewName ==
  \A k \in NodeWrites : \A n \in Occupied \ {todo[k].index} :
    iNodeTable[n].name # todo[k].value.name

(* Names are unique among the inodes that it will not write.               *)
Settled ==
  ~resurrected =>
    \A m, n \in Occupied \ {todo[k].index : k \in NodeWrites} :
      iNodeTable[m].name = iNodeTable[n].name => m = n \/ iNodeTable[m].name = NoName

NamesInv == OneNode /\ NodeFollows /\ NewName /\ Settled
-----------------------------------------------------------------------------
(* What the operators of Vsfs return.                                      *)

(* A function on 1..n is a sequence.                                       *)
LEMMA FunctionIsSeq ==
  ASSUME NEW n \in Nat, NEW s, s = [k \in 1..n |-> s[k]]
  PROVE  IsSeq(s) /\ Len(s) = n /\ DOMAIN s = 1..n
<1>1. s \in [1..n -> {s[k] : k \in DOMAIN s}]
  OBVIOUS
<1> QED
  BY <1>1 DEF IsSeq

(* It is one over every set with its elements.                             *)
LEMMA FunctionInSeq ==
  ASSUME NEW n \in Nat, NEW S, NEW s, s = [k \in 1..n |-> s[k]], \A k \in 1..n : s[k] \in S
  PROVE  s \in Seq(S) /\ Len(s) = n
<1>1. s \in [1..n -> S]
  OBVIOUS
<1> QED
  BY <1>1

(* Every sequence is a sequence over its own elements.                     *)
LEMMA SeqIsSeq ==
  ASSUME NEW S, NEW s \in Seq(S)
  PROVE  IsSeq(s)
<1>1. s = [k \in 1..Len(s) |-> s[k]] /\ Len(s) \in Nat
  OBVIOUS
<1> QED
  BY <1>1, FunctionIsSeq

(* A file that cp or touch has made has a number of blocks.                *)
LEMMA BlocksNat ==
  ASSUME NEW size \in Nat
  PROVE  Blocks(size) \in Nat
BY DiskAssumption DEF Blocks

(* The elements of a concatenation.                                        *)
Joins(w, s, i, t, j, S) ==
  /\ w \in Seq(S)
  /\ Len(w) = i + j
  /\ \A k \in 1 .. i : w[k] = s[k]
  /\ \A k \in i + 1 .. i + j : w[k] = t[k - i]

(* They are those of the one and then those of the other.                  *)
LEMMA Joined ==
  ASSUME NEW S, NEW s \in Seq(S), NEW t \in Seq(S), NEW i \in Nat, Len(s) = i,
         NEW j \in Nat, Len(t) = j, NEW w, w = s \o t
  PROVE  Joins(w, s, i, t, j, S)
<1>1. /\ w \in Seq(S) /\ Len(w) = Len(s) + Len(t)
      /\ \A k \in 1 .. Len(s) + Len(t) : w[k] = IF k <= Len(s) THEN s[k] ELSE t[k - Len(s)]
  <2>1. /\ s \o t \in Seq(S) /\ Len(s \o t) = Len(s) + Len(t)
        /\ \A k \in 1 .. Len(s) + Len(t) :
             (s \o t)[k] = IF k <= Len(s) THEN s[k] ELSE t[k - Len(s)]
    BY ConcatProperties, Zenon
  <2> QED
    BY <2>1, Zenon
<1>2. /\ w \in Seq(S) /\ Len(w) = i + j
      /\ \A k \in 1 .. i + j : w[k] = IF k <= i THEN s[k] ELSE t[k - i]
  BY <1>1, Zenon
<1>3. \A k \in 1 .. i : w[k] = s[k]
  BY <1>2
<1>4. \A k \in i + 1 .. i + j : w[k] = t[k - i]
  BY <1>2
<1> QED
  BY <1>2, <1>3, <1>4, Zenon DEF Joins

(* The elements of the sequence that cp puts together.                     *)
Laid(t, a, u, b, v, c, m, n, S) ==
  /\ t \in Seq(S)
  /\ Len(t) = m + n + 3
  /\ t[1] = a /\ t[m + 2] = b /\ t[Len(t)] = c
  /\ \A k \in 2 .. m + 1 : t[k] = u[k - 1]
  /\ \A k \in m + 3 .. Len(t) - 1 : t[k] = v[k - m - 2]

(* cp lays its writes out so.                                              *)
LEMMA Parts ==
  ASSUME NEW m \in Nat, NEW n \in Nat, NEW S, NEW a \in S, NEW b \in S, NEW c \in S,
         NEW u \in Seq(S), Len(u) = m, NEW v \in Seq(S), Len(v) = n,
         NEW t, t = <<a>> \o u \o <<b>> \o v \o <<c>>
  PROVE  Laid(t, a, u, b, v, c, m, n, S)
<1>1. PICK r, q, p : r = <<a>> \o u /\ q = r \o <<b>> /\ p = q \o v
  OBVIOUS
<1>2. /\ <<a>> \in Seq(S) /\ <<b>> \in Seq(S) /\ <<c>> \in Seq(S)
      /\ Len(<<a>>) = 1 /\ Len(<<b>>) = 1 /\ Len(<<c>>) = 1
      /\ 1 \in Nat /\ m + 1 \in Nat /\ m + 2 \in Nat /\ m + n + 2 \in Nat
      /\ 1 + m = m + 1 /\ (m + 1) + 1 = m + 2 /\ (m + 2) + n = m + n + 2
  OBVIOUS
<1>3. Joins(r, <<a>>, 1, u, m, S)
  BY <1>1, <1>2, Joined, Zenon
<1>4. r \in Seq(S) /\ Len(r) = m + 1
  BY <1>2, <1>3, Zenon DEF Joins
<1>5. Joins(q, r, m + 1, <<b>>, 1, S)
  BY <1>1, <1>2, <1>4, Joined, Zenon
<1>6. q \in Seq(S) /\ Len(q) = m + 2
  BY <1>2, <1>5, Zenon DEF Joins
<1>7. Joins(p, q, m + 2, v, n, S)
  BY <1>1, <1>2, <1>6, Joined, Zenon
<1>8. p \in Seq(S) /\ Len(p) = m + n + 2
  BY <1>2, <1>7, Zenon DEF Joins
<1>9. t = p \o <<c>>
  BY <1>1, Zenon
<1>10. Joins(t, p, m + n + 2, <<c>>, 1, S)
  BY <1>2, <1>8, <1>9, Joined, Zenon
<1>11. /\ \A k \in 1 .. 1 : r[k] = <<a>>[k]
       /\ \A k \in 1 + 1 .. 1 + m : r[k] = u[k - 1]
  BY <1>3, Zenon DEF Joins
<1>12. /\ \A k \in 1 .. m + 1 : q[k] = r[k]
       /\ \A k \in (m + 1) + 1 .. (m + 1) + 1 : q[k] = <<b>>[k - (m + 1)]
  BY <1>5, Zenon DEF Joins
<1>13. /\ \A k \in 1 .. m + 2 : p[k] = q[k]
       /\ \A k \in (m + 2) + 1 .. (m + 2) + n : p[k] = v[k - (m + 2)]
  BY <1>7, Zenon DEF Joins
<1>14. /\ \A k \in 1 .. m + n + 2 : t[k] = p[k]
       /\ \A k \in (m + n + 2) + 1 .. (m + n + 2) + 1 : t[k] = <<c>>[k - (m + n + 2)]
       /\ t \in Seq(S) /\ Len(t) = (m + n + 2) + 1
  BY <1>10, Zenon DEF Joins
<1>15. Len(t) = m + n + 3
  BY <1>14
<1>16. t[1] = a
  BY <1>11, <1>12, <1>13, <1>14
<1>17. t[m + 2] = b
  <2>1. t[m + 2] = p[m + 2] /\ p[m + 2] = q[m + 2]
    <3>1. m + 2 \in 1 .. m + 2 /\ m + 2 \in 1 .. m + n + 2
      OBVIOUS
    <3> QED
      BY <1>13, <1>14, <3>1, Zenon
  <2>2. q[m + 2] = <<b>>[1]
    BY <1>12
  <2> QED
    BY <2>1, <2>2
<1>18. t[Len(t)] = c
  BY <1>14
<1>19. \A k \in 2 .. m + 1 : t[k] = u[k - 1]
  BY <1>11, <1>12, <1>13, <1>14
<1>20. \A k \in m + 3 .. Len(t) - 1 : t[k] = v[k - m - 2]
  BY <1>13, <1>14, SMTT(30)
<1> QED
  BY <1>14, <1>15, <1>16, <1>17, <1>18, <1>19, <1>20, Zenon DEF Laid

(* The writes of a command that creates a file, by their areas: in touch   *)
(* there are three,                                                        *)
Areas(writes, p) ==
  /\ IsSeq(writes)
  /\ p \in DOMAIN writes /\ 1 < p
  /\ \A k \in DOMAIN writes :
       /\ writes[k].area # "host"
       /\ writes[k].area = "iNodeBitmap" => k = 1
       /\ writes[k].area = "iNodeTable" => k = p

Creating(writes, a, b) == \E p : Areas(writes, p) /\ writes[1] = a /\ writes[p] = b

(* The three writes of touch create.                                       *)
LEMMA ThreeWrites ==
  ASSUME NEW a, a.area = "iNodeBitmap", NEW b, b.area = "iNodeTable", NEW c, c.area = "promise",
         NEW writes, writes = <<a, b, c>>
  PROVE  Creating(writes, a, b)
<1>1. DOMAIN writes = 1..3 /\ writes[1] = a /\ writes[2] = b /\ writes[3] = c
  OBVIOUS
<1>2. IsSeq(writes)
  <2>1. writes = [k \in 1..3 |-> writes[k]]
    OBVIOUS
  <2> QED
    BY <2>1, FunctionIsSeq
<1>3. Areas(writes, 2)
  BY <1>1, <1>2 DEF Areas
<1> QED
  BY <1>1, <1>3, Zenon DEF Creating

(* in cp those of the bits and of the units of the file come between them. *)
Middle(s, n, area) == s = [k \in 1..n |-> s[k]] /\ \A k \in 1..n : s[k].area = area

(* The writes of cp, laid out one after another, have these areas,         *)
LEMMA ManyAreas ==
  ASSUME NEW blocks \in Nat, NEW size \in Nat,
         NEW a, a.area = "iNodeBitmap", NEW b, b.area = "iNodeTable", NEW c, c.area = "promise",
         NEW u, Middle(u, blocks, "dataBitmap"), NEW v, Middle(v, size, "data"),
         NEW S, NEW writes, Laid(writes, a, u, b, v, c, blocks, size, S)
  PROVE  Creating(writes, a, b)
<1>1. /\ writes \in Seq(S) /\ Len(writes) = blocks + size + 3
      /\ writes[1] = a /\ writes[blocks + 2] = b /\ writes[Len(writes)] = c
      /\ DOMAIN writes = 1 .. blocks + size + 3
  BY DEF Laid
<1>2. \A k \in 2 .. blocks + 1 : writes[k].area = "dataBitmap"
  <2>1. \A k \in 1..blocks : u[k].area = "dataBitmap"
    BY Zenon DEF Middle
  <2> QED
    BY <2>1 DEF Laid
<1>3. \A k \in blocks + 3 .. blocks + size + 2 : writes[k].area = "data"
  <2>1. \A k \in 1..size : v[k].area = "data"
    BY Zenon DEF Middle
  <2> QED
    BY <2>1 DEF Laid
<1>4. \A k \in DOMAIN writes :
        /\ writes[k].area # "host"
        /\ writes[k].area = "iNodeBitmap" => k = 1
        /\ writes[k].area = "iNodeTable" => k = blocks + 2
  <2>1. \A k \in DOMAIN writes :
          k = 1 \/ k \in 2 .. blocks + 1 \/ k = blocks + 2 \/ k \in blocks + 3 .. blocks + size + 2
          \/ k = Len(writes)
    BY <1>1
  <2>2. /\ writes[1].area = "iNodeBitmap" /\ writes[blocks + 2].area = "iNodeTable"
        /\ writes[Len(writes)].area = "promise"
    BY <1>1
  <2> QED
    BY <1>2, <1>3, <2>1, <2>2
<1>5. IsSeq(writes)
  BY <1>1, SeqIsSeq
<1>6. blocks + 2 \in DOMAIN writes /\ 1 < blocks + 2
  BY <1>1
<1>7. Areas(writes, blocks + 2)
  BY <1>4, <1>5, <1>6, Zenon DEF Areas
<1> QED
  BY <1>1, <1>7, Zenon DEF Creating

(* and so they create.                                                     *)
LEMMA ManyWrites ==
  ASSUME NEW blocks \in Nat, NEW size \in Nat,
         NEW a, a.area = "iNodeBitmap", NEW b, b.area = "iNodeTable", NEW c, c.area = "promise",
         NEW u, Middle(u, blocks, "dataBitmap"), NEW v, Middle(v, size, "data"),
         NEW writes, writes = <<a>> \o u \o <<b>> \o v \o <<c>>
  PROVE  Creating(writes, a, b)
<1>1. PICK S : S = {a, b, c} \cup {u[z] : z \in 1..blocks} \cup {v[k] : k \in 1..size}
  OBVIOUS
<1>2. /\ a \in S /\ b \in S /\ c \in S
      /\ \A z \in 1..blocks : u[z] \in S
      /\ \A k \in 1..size : v[k] \in S
  BY <1>1, Zenon
<1>3. u \in Seq(S) /\ Len(u) = blocks
  BY <1>2, FunctionInSeq, Zenon DEF Middle
<1>4. v \in Seq(S) /\ Len(v) = size
  BY <1>2, FunctionInSeq, Zenon DEF Middle
<1>5. Laid(writes, a, u, b, v, c, blocks, size, S)
  BY <1>2, <1>3, <1>4, Parts, Zenon
<1> QED
  BY <1>5, ManyAreas, Zenon

(* A command that occupies inode n and later writes node to it.            *)
Creates(writes, n, node) ==
  Creating(writes, WriteTo("iNodeBitmap", n, TRUE), WriteTo("iNodeTable", n, node))

(* touch does so,                                                          *)
LEMMA TouchCreates ==
  ASSUME NEW n, NEW node, NEW f,
         NEW writes, writes = <<WriteTo("iNodeBitmap", n, TRUE), WriteTo("iNodeTable", n, node),
                                WriteTo("promise", f, <<>>)>>
  PROVE  Creates(writes, n, node)
<1>1. /\ WriteTo("iNodeBitmap", n, TRUE).area = "iNodeBitmap"
      /\ WriteTo("iNodeTable", n, node).area = "iNodeTable"
      /\ WriteTo("promise", f, <<>>).area = "promise"
  BY DEF WriteTo
<1> QED
  BY <1>1, ThreeWrites, Zenon DEF Creates

(* and so does cp.                                                         *)
LEMMA CpCreates ==
  ASSUME NEW n, NEW node, NEW f, NEW j, NEW value, NEW source, NEW blocks \in Nat, NEW size \in Nat,
         NEW writes,
         writes = <<WriteTo("iNodeBitmap", n, TRUE)>>
                  \o [z \in 1..blocks |-> WriteTo("dataBitmap", j + z - 1, TRUE)]
                  \o <<WriteTo("iNodeTable", n, node)>>
                  \o [k \in 1..size |-> WriteTo("data", j * BLOCK + k - 1, source[k])]
                  \o <<WriteTo("promise", f, value)>>
  PROVE  Creates(writes, n, node)
<1>1. PICK a, u, b, v, c :
        /\ a = WriteTo("iNodeBitmap", n, TRUE)
        /\ u = [z \in 1..blocks |-> WriteTo("dataBitmap", j + z - 1, TRUE)]
        /\ b = WriteTo("iNodeTable", n, node)
        /\ v = [k \in 1..size |-> WriteTo("data", j * BLOCK + k - 1, source[k])]
        /\ c = WriteTo("promise", f, value)
  OBVIOUS
<1>2. a.area = "iNodeBitmap" /\ b.area = "iNodeTable" /\ c.area = "promise"
  BY <1>1 DEF WriteTo
<1>3. Middle(u, blocks, "dataBitmap")
  BY <1>1 DEF WriteTo, Middle
<1>4. Middle(v, size, "data")
  BY <1>1 DEF WriteTo, Middle
<1>5. writes = <<a>> \o u \o <<b>> \o v \o <<c>>
  BY <1>1, Zenon
<1>6. Creating(writes, a, b)
  BY <1>2, <1>3, <1>4, <1>5, ManyWrites, Zenon
<1> QED
  BY <1>1, <1>6, Zenon DEF Creates
-----------------------------------------------------------------------------
(* The commands: what each is going to write.                              *)

(* A command that creates a file.                                          *)
LEMMA CreateStep ==
  ASSUME Typed, NamesInv, todo = <<>>,
         NEW f \in Names, ~Exists(f), NEW n \in INodes, n \notin Occupied,
         NEW node \in INodeRecords, node.name = f, Creates(todo', n, node),
         UNCHANGED <<iNodeBitmap, iNodeTable, host, resurrected>>
  PROVE  Typed' /\ NamesInv'
<1>1. PICK p : /\ Areas(todo', p)
               /\ todo'[1] = WriteTo("iNodeBitmap", n, TRUE)
               /\ todo'[p] = WriteTo("iNodeTable", n, node)
  BY Zenon DEF Creates, Creating
<1>2. /\ todo'[1].area = "iNodeBitmap" /\ todo'[1].index = n
      /\ todo'[p].area = "iNodeTable" /\ todo'[p].index = n /\ todo'[p].value = node
  BY <1>1 DEF WriteTo
<1>3. todo'[1].value = TRUE
  BY <1>1 DEF WriteTo
<1>4. /\ IsSeq(todo') /\ p \in DOMAIN todo' /\ 1 < p
      /\ \A k \in DOMAIN todo' :
           /\ todo'[k].area # "host"
           /\ todo'[k].area = "iNodeBitmap" => k = 1
           /\ todo'[k].area = "iNodeTable" => k = p
  BY <1>1, Zenon DEF Areas
<1>5. Typed'
  <2>1. \A k \in DOMAIN todo' : todo'[k].area = "iNodeBitmap" => todo'[k].value \in BOOLEAN
    BY <1>3, <1>4, Zenon
  <2>2. \A k \in DOMAIN todo' : todo'[k].area = "iNodeTable" => todo'[k].value \in INodeRecords
    BY <1>2, <1>4, Zenon
  <2>3. INodeRecords' = INodeRecords
    BY DEF INodeRecords
  <2> QED
    BY <1>4, <2>1, <2>2, Zenon DEF Typed
<1>6. NodeWrites' = {p}
  BY <1>2, <1>4, Zenon DEF NodeWrites
<1>7. Occupied' = Occupied /\ NodeWrites = {}
  BY DEF Occupied, NodeWrites
<1>8. OneNode'
  BY <1>6, Zenon DEF OneNode
<1>9. NodeFollows'
  BY <1>2, <1>4, <1>6, Zenon DEF NodeFollows
<1>10. NewName'
  BY <1>2, <1>6, <1>7 DEF NewName, Exists
<1>11. Settled'
  BY <1>7 DEF Settled, NamesInv
<1> QED
  BY <1>5, <1>8, <1>9, <1>10, <1>11 DEF NamesInv

(* A command that creates none.                                            *)
Harmless(writes) ==
  /\ IsSeq(writes)
  /\ \A k \in DOMAIN writes :
       /\ writes[k].area # "iNodeTable"
       /\ writes[k].area = "iNodeBitmap" => writes[k].value = FALSE
       /\ writes[k].area = "host" => IsSeq(writes[k].value)

(* It leaves the names alone.                                              *)
LEMMA HarmlessStep ==
  ASSUME Typed, NamesInv, todo = <<>>, Harmless(todo'),
         UNCHANGED <<iNodeBitmap, iNodeTable, host, resurrected>>
  PROVE  Typed' /\ NamesInv'
<1>1. Typed'
  <2>1. \A k \in DOMAIN todo' : todo'[k].area = "iNodeBitmap" => todo'[k].value \in BOOLEAN
    BY Zenon DEF Harmless
  <2> QED
    BY <2>1, Zenon DEF Typed, Harmless
<1>2. NodeWrites' = {} /\ NodeWrites = {} /\ Occupied' = Occupied
  BY DEF NodeWrites, Harmless, Occupied
<1>3. OneNode' /\ NewName'
  BY <1>2 DEF OneNode, NewName
<1>4. NodeFollows'
  BY Zenon DEF NodeFollows, Harmless
<1>5. Settled'
  BY <1>2 DEF Settled, NamesInv
<1> QED
  BY <1>1, <1>3, <1>4, <1>5 DEF NamesInv

(* The inodes that the commands choose.                                    *)
LEMMA FreeINode ==
  ASSUME Occupied # INodes
  PROVE  Min(INodes \ Occupied) \in INodes \ Occupied
<1>1. INodes \ Occupied \subseteq Nat /\ INodes \ Occupied # {}
  BY DiskAssumption DEF INodes, Occupied
<1> QED
  BY <1>1, MinNat, Zenon

(* The inode found under a name in use.                                    *)
LEMMA FoundINode ==
  ASSUME NEW f, Exists(f)
  PROVE  Found(f) \in Occupied /\ Found(f) \in INodes /\ iNodeTable[Found(f)].name = f
<1>1. PICK S : S = {n \in Occupied : iNodeTable[n].name = f}
  OBVIOUS
<1>2. S \subseteq Nat /\ S # {}
  BY <1>1, DiskAssumption DEF Exists, Occupied, INodes
<1>3. Min(S) \in S
  BY <1>2, MinNat
<1>4. Found(f) = Min(S)
  BY <1>1, Zenon DEF Found
<1> QED
  BY <1>1, <1>3, <1>4 DEF Occupied

(* The writes of rm clear bits.                                            *)
LEMMA RmWrites ==
  ASSUME NEW n, NEW blocks \in Nat,
         NEW writes,
         writes = <<WriteTo("iNodeBitmap", n, FALSE)>>
                  \o [z \in 1..blocks |-> WriteTo("dataBitmap", n + z - 1, FALSE)]
  PROVE  IsSeq(writes) /\ \A k \in DOMAIN writes :
           /\ writes[k].value = FALSE
           /\ \/ writes[k].area = "iNodeBitmap" /\ writes[k].index = n
              \/ writes[k].area = "dataBitmap"
<1>1. PICK a, u : /\ a = WriteTo("iNodeBitmap", n, FALSE)
                  /\ u = [z \in 1..blocks |-> WriteTo("dataBitmap", n + z - 1, FALSE)]
  OBVIOUS
<1>2. a.area = "iNodeBitmap" /\ a.index = n /\ a.value = FALSE
  BY <1>1 DEF WriteTo
<1>3. /\ u = [z \in 1..blocks |-> u[z]]
      /\ \A z \in 1..blocks : u[z].area = "dataBitmap" /\ u[z].value = FALSE
  BY <1>1 DEF WriteTo
<1>4. PICK S : S = {a} \cup {u[z] : z \in 1..blocks}
  OBVIOUS
<1>5. a \in S /\ \A z \in 1..blocks : u[z] \in S
  BY <1>4, Zenon
<1>6. u \in Seq(S) /\ Len(u) = blocks
  BY <1>3, <1>5, FunctionInSeq, Zenon
<1>7. <<a>> \in Seq(S) /\ Len(<<a>>) = 1 /\ <<a>>[1] = a /\ 1 \in Nat
  BY <1>5
<1>8. writes = <<a>> \o u
  BY <1>1, Zenon
<1>9. Joins(writes, <<a>>, 1, u, blocks, S)
  BY <1>6, <1>7, <1>8, Joined, Zenon
<1>10. /\ writes \in Seq(S) /\ Len(writes) = 1 + blocks
       /\ \A k \in 1 .. 1 : writes[k] = <<a>>[k]
       /\ \A k \in 1 + 1 .. 1 + blocks : writes[k] = u[k - 1]
  BY <1>9, Zenon DEF Joins
<1>11. \A k \in DOMAIN writes : k \in 1 .. 1 \/ (k \in 1 + 1 .. 1 + blocks /\ k - 1 \in 1 .. blocks)
  BY <1>10
<1>12. \A k \in DOMAIN writes : writes[k] = a \/ \E z \in 1 .. blocks : writes[k] = u[z]
  <2>1. \A k \in 1 .. 1 : writes[k] = a
    <3>1. 1 \in 1 .. 1 /\ \A k \in 1 .. 1 : k = 1
      OBVIOUS
    <3> QED
      BY <1>7, <1>10, <3>1, Zenon
  <2> QED
    BY <1>10, <1>11, <2>1, Zenon
<1>13. IsSeq(writes)
  BY <1>10, SeqIsSeq
<1> QED
  BY <1>2, <1>3, <1>12, <1>13, ZenonT(40)

(* They harm no name.                                                      *)
LEMMA RmHarmless ==
  ASSUME NEW n, NEW blocks \in Nat,
         NEW writes,
         writes = <<WriteTo("iNodeBitmap", n, FALSE)>>
                  \o [z \in 1..blocks |-> WriteTo("dataBitmap", n + z - 1, FALSE)]
  PROVE  Harmless(writes)
<1>1. /\ IsSeq(writes)
      /\ \A k \in DOMAIN writes :
           /\ writes[k].value = FALSE
           /\ \/ writes[k].area = "iNodeBitmap" /\ writes[k].index = n
              \/ writes[k].area = "dataBitmap"
  BY RmWrites, Zenon
<1> QED
  BY <1>1 DEF Harmless

(* mkfs writes to the image only,                                          *)
LEMMA MkfsStep ==
  ASSUME Typed, NamesInv, mkfs
  PROVE  Typed' /\ NamesInv'
<1>1. \A v : WriteTo("image", 0, v).area = "image"
  BY DEF WriteTo
<1>2. PICK a, b, c :
        /\ a = WriteTo("image", 0, "empty")
        /\ b = WriteTo("image", 0, "blank")
        /\ c = WriteTo("image", 0, "made")
  OBVIOUS
<1>3. a.area = "image" /\ b.area = "image" /\ c.area = "image"
  BY <1>1, <1>2
<1>4. /\ todo = <<>> /\ todo' = <<a, b, c, a, c>>
      /\ UNCHANGED <<iNodeBitmap, iNodeTable, host, resurrected>>
  BY <1>2 DEF mkfs, Command, disk, history
<1>5. IsSeq(todo')
  <2>1. <<a, b, c, a, c>> \in Seq({a, b, c})
    OBVIOUS
  <2> QED
    BY <1>4, <2>1, SeqIsSeq
<1>6. \A k \in DOMAIN todo' : todo'[k].area = "image"
  BY <1>3, <1>4
<1>7. Harmless(todo')
  BY <1>5, <1>6 DEF Harmless
<1> QED
  BY <1>4, <1>7, HarmlessStep

(* rmfs writes nothing,                                                    *)
LEMMA RmfsStep ==
  ASSUME Typed, NamesInv, rmfs
  PROVE  Typed' /\ NamesInv'
<1>1. /\ todo = <<>> /\ todo' = <<>>
      /\ UNCHANGED <<iNodeBitmap, iNodeTable, host, resurrected>>
  BY DEF rmfs, Command
<1>2. Harmless(todo')
  BY <1>1 DEF Harmless, IsSeq
<1> QED
  BY <1>1, <1>2, HarmlessStep

(* rm clears bits,                                                         *)
LEMMA RmStep ==
  ASSUME Typed, NamesInv, NEW f \in Names, rm(f)
  PROVE  Typed' /\ NamesInv'
<1>1. iNodeTable[Found(f)].size \in Nat
  BY FoundINode DEF rm, Typed, INodeRecords
<1>2. Blocks(iNodeTable[Found(f)].size) \in Nat
  BY <1>1, BlocksNat
<1>3. todo' = <<WriteTo("iNodeBitmap", Found(f), FALSE)>>
              \o [z \in 1..Blocks(iNodeTable[Found(f)].size) |->
                    WriteTo("dataBitmap", Found(f) + z - 1, FALSE)]
  BY Zenon DEF rm, Command
<1>4. Harmless(todo')
  BY <1>2, <1>3, RmHarmless, Zenon
<1>5. todo = <<>> /\ UNCHANGED <<iNodeBitmap, iNodeTable, host, resurrected>>
  BY DEF rm, Command, disk
<1> QED
  BY <1>4, <1>5, HarmlessStep

(* load writes to the host.                                                *)
LEMMA LoadStep ==
  ASSUME Typed, NamesInv, NEW f \in Names, load(f)
  PROVE  Typed' /\ NamesInv'
<1> DEFINE content == Content(f)
           S == {k - 1 : k \in {l \in DOMAIN content : content[l] = Zero}} \cup {Len(content)}
<1>1. iNodeTable[Found(f)].size \in Nat
  BY FoundINode DEF load, Typed, INodeRecords
<1>2. DOMAIN content = 1 .. iNodeTable[Found(f)].size /\ Len(content) = iNodeTable[Found(f)].size
  <2>1. content = [k \in 1 .. iNodeTable[Found(f)].size |-> content[k]]
    BY DEF Content
  <2> QED
    BY <1>1, <2>1, FunctionIsSeq, Zenon
<1>3. S \subseteq Nat /\ S # {}
  <2> HIDE DEF content
  <2> QED
    BY <1>1, <1>2
<1>4. Min(S) \in Nat
  BY <1>3, MinNat, Zenon
<1>5. IsSeq(SubSeq(content, 1, Min(S)))
  <2>1. PICK n : n = Min(S)
    OBVIOUS
  <2>2. SubSeq(content, 1, n) \in Seq({content[i] : i \in 1..n})
    <3>1. 1 \in Int /\ n \in Int
      <4>1. n \in Nat
        BY <1>4, <2>1, Zenon
      <4> QED
        BY <4>1
    <3>2. \A i \in 1..n : content[i] \in {content[k] : k \in 1..n}
      BY Zenon
    <3> QED
      BY <3>1, <3>2, SubSeqProperties, Zenon
  <2> QED
    BY <2>1, <2>2, SeqIsSeq, Zenon
<1>6. PICK a, b : /\ a = WriteTo("host", f, <<>>)
                  /\ b = WriteTo("host", f, SubSeq(content, 1, Min(S)))
  OBVIOUS
<1>7. todo' = <<a, b>>
  BY <1>6, Zenon DEF load, Command
<1>8. a.area = "host" /\ IsSeq(a.value) /\ b.area = "host" /\ IsSeq(b.value)
  <2>1. \A v : WriteTo("host", f, v).area = "host" /\ WriteTo("host", f, v).value = v
    BY DEF WriteTo
  <2>2. IsSeq(<<>>)
    BY DEF IsSeq
  <2> QED
    BY <1>5, <1>6, <2>1, <2>2, Zenon
<1>9. IsSeq(todo')
  <2>1. <<a, b>> \in Seq({a, b})
    OBVIOUS
  <2> QED
    BY <1>7, <2>1, SeqIsSeq, Zenon
<1>10. \A k \in DOMAIN todo' : todo'[k] = a \/ todo'[k] = b
  BY <1>7
<1>11. Harmless(todo')
  <2>1. \A k \in DOMAIN todo' : todo'[k].area = "host" /\ IsSeq(todo'[k].value)
    BY <1>8, <1>10, Zenon
  <2> QED
    BY <1>9, <2>1 DEF Harmless
<1>12. todo = <<>> /\ UNCHANGED <<iNodeBitmap, iNodeTable, host, resurrected>>
  BY DEF load, Command, disk, history
<1> QED
  BY <1>11, <1>12, HarmlessStep

(* touch creates a file in the first free inode ...                        *)
LEMMA TouchStep ==
  ASSUME Typed, NamesInv, NEW f \in Names, touch(f)
  PROVE  Typed' /\ NamesInv'
<1>1. PICK n : n = Min(INodes \ Occupied)
  OBVIOUS
<1>2. n \in INodes /\ n \notin Occupied
  BY <1>1, FreeINode DEF touch
<1>3. PICK node : node = [iNodeTable[n] EXCEPT !.size = 0, !.name = f]
  OBVIOUS
<1>4. node \in INodeRecords /\ node.name = f
  BY <1>2, <1>3 DEF Typed, INodeRecords
<1>5. todo' = <<WriteTo("iNodeBitmap", n, TRUE), WriteTo("iNodeTable", n, node),
                WriteTo("promise", f, <<>>)>>
  BY <1>1, <1>3, Zenon DEF touch, Command
<1>6. Creates(todo', n, node)
  BY <1>5, TouchCreates, Zenon
<1>7. /\ todo = <<>> /\ ~Exists(f)
      /\ UNCHANGED <<iNodeBitmap, iNodeTable, host, resurrected>>
  BY DEF touch, Command, disk, history
<1> QED
  BY <1>2, <1>4, <1>6, <1>7, CreateStep

(* What cp takes of the host's file.                                       *)
LEMMA SourceContents ==
  ASSUME Typed, NEW f \in Names, host[f] # Nothing, NEW source \in Sources(f)
  PROVE  /\ IsSeq(Readable(f)) /\ Len(Readable(f)) \in Nat /\ Len(source) \in Nat
         /\ Len(Readable(f)) <= Len(source)
         /\ Len(source) <= FS_DATA_BLOCKS * BLOCK + MaxGarbage
         /\ Len(Readable(f)) < CLEAN => Len(source) = Len(Readable(f))
         /\ \A k \in 1 .. Len(Readable(f)) : source[k] = Readable(f)[k]
<1>1. PICK all : all = FS_DATA_BLOCKS * BLOCK
  OBVIOUS
<1>2. all \in Nat
  BY <1>1, DiskAssumption
<1>3. IsSeq(host[f]) /\ Len(host[f]) \in Nat
  BY DEF Typed, IsSeq
<1>4. PICK n : n = Min({Len(host[f]), all})
  OBVIOUS
<1>5. n \in Nat /\ n <= all
  BY <1>2, <1>3, <1>4, MinNat
<1>6. PICK S : S = {host[f][i] : i \in 1..n} \cup {Garbage}
  OBVIOUS
<1>7. Readable(f) \in Seq(S) /\ Len(Readable(f)) = n
  <2>1. 1 \in Int /\ n \in Int /\ \A i \in 1..n : host[f][i] \in S
    BY <1>5, <1>6
  <2>2. SubSeq(host[f], 1, n) \in Seq(S)
    BY <2>1, SubSeqProperties, Zenon
  <2>3. Len(SubSeq(host[f], 1, n)) = n
    <3>1. n <= Len(host[f])
      BY <1>2, <1>3, <1>4, MinNat
    <3> QED
      BY <1>3, <1>5, <3>1 DEF IsSeq
  <2>4. Readable(f) = SubSeq(host[f], 1, n)
    BY <1>1, <1>4, Zenon DEF Readable
  <2> QED
    BY <2>2, <2>3, <2>4, Zenon
<1>8. PICK r : r = Readable(f)
  OBVIOUS
<1>9. PICK extra \in (IF Len(r) < CLEAN THEN {0} ELSE 0 .. MaxGarbage) :
        source = r \o [k \in 1..extra |-> Garbage]
  BY <1>8 DEF Sources
<1>10. extra \in Nat /\ extra <= MaxGarbage /\ (Len(r) < CLEAN => extra = 0)
  BY <1>9, DiskAssumption
<1>11. PICK g : g = [k \in 1..extra |-> Garbage]
  OBVIOUS
<1>12. g \in Seq(S) /\ Len(g) = extra
  BY <1>6, <1>10, <1>11
<1>13. Joins(source, r, n, g, extra, S)
  BY <1>5, <1>7, <1>8, <1>9, <1>10, <1>11, <1>12, Joined, Zenon
<1>14. source \in Seq(S) /\ Len(source) = n + extra /\ \A k \in 1 .. n : source[k] = r[k]
  BY <1>13, Zenon DEF Joins
<1>15. IsSeq(r)
  BY <1>7, <1>8, SeqIsSeq, Zenon
<1>16. MaxGarbage \in Nat
  BY DiskAssumption
<1>17. /\ Len(r) = n /\ n \in Nat /\ n + extra \in Nat /\ n <= n + extra
       /\ n + extra <= all + MaxGarbage
       /\ n < CLEAN => n + extra = n
  <2>1. Len(r) = n
    BY <1>7, <1>8, Zenon
  <2>2. extra \in Nat /\ extra <= MaxGarbage /\ (n < CLEAN => extra = 0)
    BY <1>10, <2>1, Zenon
  <2> QED
    BY <1>2, <1>5, <1>16, <2>1, <2>2
<1> QED
  BY <1>1, <1>8, <1>14, <1>15, <1>17, Zenon

(* ... and so does cp.                                                     *)
LEMMA CpStep ==
  ASSUME Typed, NamesInv, NEW f \in Names, cp(f)
  PROVE  Typed' /\ NamesInv'
<1>1. PICK edge \in FS_DATA_BLOCKS .. 2 * FS_DATA_BLOCKS, source \in Sources(f) :
        LET n == Min(INodes \ Occupied)
            size == Len(source)
            j == Min(Room(Blocks(size), edge))
        IN  /\ Room(Blocks(size), edge) # {}
            /\ todo = <<>>
            /\ todo' =
                 <<WriteTo("iNodeBitmap", n, TRUE)>>
                 \o [z \in 1..Blocks(size) |-> WriteTo("dataBitmap", j + z - 1, TRUE)]
                 \o <<WriteTo("iNodeTable", n,
                        [startingBlock |-> dataBlockOffset + j, size |-> size, name |-> f])>>
                 \o [k \in 1..size |-> WriteTo("data", j * BLOCK + k - 1, source[k])]
                 \o <<WriteTo("promise", f, Readable(f))>>
  BY Zenon DEF cp, Command
<1>2. PICK n, size, j :
        n = Min(INodes \ Occupied) /\ size = Len(source) /\ j = Min(Room(Blocks(size), edge))
  OBVIOUS
<1>3. PICK node : node = [startingBlock |-> dataBlockOffset + j, size |-> size, name |-> f]
  OBVIOUS
<1>4. /\ ~Exists(f) /\ host[f] # Nothing /\ Occupied # INodes
      /\ UNCHANGED <<iNodeBitmap, iNodeTable, host, resurrected>>
  BY DEF cp, disk, history
<1>5. n \in INodes /\ n \notin Occupied
  BY <1>2, <1>4, FreeINode
<1>6. size \in Nat /\ Blocks(size) \in Nat
  BY <1>2, <1>4, SourceContents, BlocksNat
<1>7. j \in Nat
  <2>1. Room(Blocks(size), edge) \subseteq Nat /\ Room(Blocks(size), edge) # {}
    BY <1>1, <1>2, DiskAssumption DEF Room, DataBlocks
  <2> QED
    BY <1>2, <2>1, MinNat, Zenon
<1>8. node \in INodeRecords /\ node.name = f
  BY <1>3, <1>6, <1>7 DEF INodeRecords, dataBlockOffset
<1>9. /\ todo = <<>>
      /\ todo' = <<WriteTo("iNodeBitmap", n, TRUE)>>
                 \o [z \in 1..Blocks(size) |-> WriteTo("dataBitmap", j + z - 1, TRUE)]
                 \o <<WriteTo("iNodeTable", n, node)>>
                 \o [k \in 1..size |-> WriteTo("data", j * BLOCK + k - 1, source[k])]
                 \o <<WriteTo("promise", f, Readable(f))>>
  BY <1>1, <1>2, <1>3, Zenon
<1>10. Creates(todo', n, node)
  BY <1>6, <1>9, CpCreates, Zenon
<1> QED
  BY <1>4, <1>5, <1>8, <1>9, <1>10, CreateStep, Zenon
-----------------------------------------------------------------------------
(* A write and a kill.                                                     *)

(* What is left to write after the first write.                            *)
LEMMA TailWrites ==
  ASSUME Typed, todo # <<>>, todo' = Tail(todo)
  PROVE  /\ 1 \in DOMAIN todo /\ Head(todo) = todo[1]
         /\ IsSeq(todo')
         /\ \A k \in DOMAIN todo' :
              k \in Nat \ {0} /\ k + 1 \in DOMAIN todo /\ todo'[k] = todo[k + 1]
         /\ \A k \in DOMAIN todo :
              k \in Nat \ {0} /\ (1 < k => k - 1 \in DOMAIN todo' /\ todo'[k - 1] = todo[k])
<1>1. PICK S : todo \in Seq(S)
  BY DEF Typed, IsSeq
<1>2. /\ todo' \in Seq(S) /\ Len(todo') = Len(todo) - 1
      /\ \A k \in 1 .. Len(todo') : todo'[k] = todo[k + 1]
  BY <1>1, HeadTailProperties, Zenon
<1>3. /\ Len(todo) \in Nat \ {0}
      /\ DOMAIN todo = 1 .. Len(todo) /\ DOMAIN todo' = 1 .. Len(todo')
      /\ Head(todo) = todo[1]
  BY <1>1, <1>2
<1>4. IsSeq(todo')
  BY <1>2, SeqIsSeq, Zenon
<1>5. \A k \in DOMAIN todo' : k \in Nat \ {0} /\ k + 1 \in DOMAIN todo /\ todo'[k] = todo[k + 1]
  BY <1>2, <1>3
<1>6. \A k \in DOMAIN todo :
        k \in Nat \ {0} /\ (1 < k => k - 1 \in DOMAIN todo' /\ todo'[k - 1] = todo[k])
  BY <1>2, <1>3
<1>7. 1 \in DOMAIN todo
  BY <1>3
<1> QED
  BY <1>3, <1>4, <1>5, <1>6, <1>7, Zenon

(* What a write does to the bitmap and the table of the inodes: it sets a  *)
(* bit or clears one, writes an inode, empties both or does neither.       *)
LEMMA WriteEffect ==
  ASSUME Typed, Write
  PROVE  \/ /\ todo[1].area = "iNodeBitmap"
            /\ iNodeBitmap' = Area(iNodeBitmap, todo[1])
            /\ iNodeTable' = iNodeTable
         \/ /\ todo[1].area = "iNodeTable"
            /\ iNodeBitmap' = iNodeBitmap
            /\ iNodeTable' = Area(iNodeTable, todo[1])
         \/ /\ todo[1].area \notin {"iNodeBitmap", "iNodeTable"}
            /\ iNodeBitmap' = [n \in INodes |-> FALSE]
            /\ iNodeTable' = [n \in INodes |-> NewINode]
         \/ /\ todo[1].area \notin {"iNodeBitmap", "iNodeTable"}
            /\ iNodeBitmap' = iNodeBitmap
            /\ iNodeTable' = iNodeTable
<1>1. Head(todo) = todo[1]
  BY TailWrites DEF Write
<1>2. /\ iNodeBitmap' = IF todo[1].area = "iNodeBitmap" THEN Area(iNodeBitmap, todo[1])
                        ELSE Formatted(iNodeBitmap, todo[1], FALSE)
      /\ iNodeTable' = IF todo[1].area = "iNodeTable" THEN Area(iNodeTable, todo[1])
                       ELSE Formatted(iNodeTable, todo[1], NewINode)
  BY <1>1, Zenon DEF Write
<1>3. DOMAIN iNodeBitmap = INodes /\ DOMAIN iNodeTable = INodes
  BY DEF Typed
<1>4. \/ /\ todo[1].area = "image"
         /\ Formatted(iNodeBitmap, todo[1], FALSE) = [n \in INodes |-> FALSE]
         /\ Formatted(iNodeTable, todo[1], NewINode) = [n \in INodes |-> NewINode]
      \/ /\ Formatted(iNodeBitmap, todo[1], FALSE) = iNodeBitmap
         /\ Formatted(iNodeTable, todo[1], NewINode) = iNodeTable
  BY <1>3, Zenon DEF Formatted
<1>5. /\ todo[1].area # "image" => Formatted(iNodeBitmap, todo[1], FALSE) = iNodeBitmap
      /\ todo[1].area # "image" => Formatted(iNodeTable, todo[1], NewINode) = iNodeTable
  BY Zenon DEF Formatted
<1>6. "image" \notin {"iNodeBitmap", "iNodeTable"}
  OBVIOUS
<1>7. CASE todo[1].area = "iNodeBitmap"
  <2>1. todo[1].area # "image" /\ todo[1].area # "iNodeTable"
    BY <1>7
  <2> QED
    BY <1>2, <1>5, <1>7, <2>1, Zenon
<1>8. CASE todo[1].area = "iNodeTable"
  <2>1. todo[1].area # "image" /\ todo[1].area # "iNodeBitmap"
    BY <1>8
  <2> QED
    BY <1>2, <1>5, <1>8, <2>1, Zenon
<1>9. CASE todo[1].area \notin {"iNodeBitmap", "iNodeTable"}
  BY <1>2, <1>4, <1>9, Zenon
<1> QED
  BY <1>7, <1>8, <1>9, Zenon

(* A write keeps the types ...                                             *)
LEMMA WriteTyped ==
  ASSUME Typed, Write
  PROVE  Typed'
<1>1. todo # <<>> /\ todo' = Tail(todo)
  BY DEF Write
<1>2. /\ 1 \in DOMAIN todo /\ Head(todo) = todo[1]
      /\ IsSeq(todo')
      /\ \A k \in DOMAIN todo' :
           k \in Nat \ {0} /\ k + 1 \in DOMAIN todo /\ todo'[k] = todo[k + 1]
  BY <1>1, TailWrites, Zenon
<1>3. iNodeBitmap' \in [INodes -> BOOLEAN]
  <2>1. CASE todo[1].area = "iNodeBitmap" /\ iNodeBitmap' = Area(iNodeBitmap, todo[1])
    <3>1. iNodeBitmap \in [INodes -> BOOLEAN] /\ todo[1].value \in BOOLEAN
      BY <1>2, <2>1, Zenon DEF Typed
    <3>2. iNodeBitmap' = [iNodeBitmap EXCEPT ![todo[1].index] = todo[1].value]
          \/ iNodeBitmap' = iNodeBitmap
      BY <2>1, Zenon DEF Area
    <3> QED
      BY <3>1, <3>2, Zenon
  <2>2. CASE iNodeBitmap' = [n \in INodes |-> FALSE]
    BY <2>2, Zenon
  <2>3. CASE iNodeBitmap' = iNodeBitmap
    BY <2>3, Zenon DEF Typed
  <2> QED
    BY <2>1, <2>2, <2>3, WriteEffect, Zenon
<1>4. iNodeTable' \in [INodes -> INodeRecords]
  <2>1. CASE todo[1].area = "iNodeTable" /\ iNodeTable' = Area(iNodeTable, todo[1])
    BY <1>2, <2>1 DEF Typed, Area
  <2>2. CASE iNodeTable' = [n \in INodes |-> NewINode]
    BY <2>2 DEF NewINode, INodeRecords
  <2>3. CASE iNodeTable' = iNodeTable
    BY <2>3, Zenon DEF Typed
  <2> QED
    BY <2>1, <2>2, <2>3, WriteEffect, Zenon
<1>5. host' = [f \in Names |-> host'[f]] /\ \A f \in Names : host'[f] # Nothing => IsSeq(host'[f])
  <2>1. host' = IF todo[1].area = "host" THEN Area(host, todo[1]) ELSE host
    BY <1>2, Zenon DEF Write
  <2>2. CASE host' = host
    BY <2>2, Zenon DEF Typed
  <2>3. CASE todo[1].area = "host" /\ host' = [host EXCEPT ![todo[1].index] = todo[1].value]
    <3>1. IsSeq(todo[1].value)
      BY <1>2, <2>3, Zenon DEF Typed
    <3>2. host = [f \in Names |-> host[f]]
      BY Zenon DEF Typed
    <3>3. \A f \in Names : host'[f] = host[f] \/ host'[f] = todo[1].value
      BY <2>3, <3>2
    <3>4. host' = [f \in Names |-> host'[f]]
      BY <2>3, <3>2
    <3> QED
      BY <3>1, <3>3, <3>4, Zenon DEF Typed
  <2> QED
    BY <2>1, <2>2, <2>3, Zenon DEF Area
<1>6. \A k \in DOMAIN todo' :
        /\ todo'[k].area = "iNodeBitmap" => todo'[k].value \in BOOLEAN
        /\ todo'[k].area = "iNodeTable" => todo'[k].value \in INodeRecords
        /\ todo'[k].area = "host" => IsSeq(todo'[k].value)
  BY <1>2, ZenonT(40) DEF Typed
<1> QED
  BY <1>2, <1>3, <1>4, <1>5, <1>6, Zenon DEF Typed

(* The writes to the inode table that are left after the first one.        *)
LEMMA NodeWritesLeft ==
  ASSUME Typed, todo # <<>>, todo' = Tail(todo)
  PROVE  /\ \A k \in NodeWrites' : k + 1 \in NodeWrites /\ todo'[k] = todo[k + 1] /\ k \in Nat \ {0}
         /\ \A k \in NodeWrites : k \in Nat \ {0} /\
              (1 < k => k - 1 \in NodeWrites' /\ todo'[k - 1] = todo[k])
BY TailWrites DEF NodeWrites

(* ... and the names apart: a new inode is occupied before it is named.    *)
LEMMA WriteNames ==
  ASSUME Typed, NamesInv, Write
  PROVE  NamesInv'
<1>1. todo # <<>> /\ todo' = Tail(todo) /\ resurrected' = resurrected
  BY DEF Write
<1>2. /\ 1 \in DOMAIN todo
      /\ \A k \in DOMAIN todo' :
           k \in Nat \ {0} /\ k + 1 \in DOMAIN todo /\ todo'[k] = todo[k + 1]
  BY <1>1, TailWrites, Zenon
<1>3. /\ \A k \in NodeWrites' : k + 1 \in NodeWrites /\ todo'[k] = todo[k + 1] /\ k \in Nat \ {0}
      /\ \A k \in NodeWrites : k \in Nat \ {0} /\
           (1 < k => k - 1 \in NodeWrites' /\ todo'[k - 1] = todo[k])
  BY <1>1, NodeWritesLeft, Zenon
<1>4. OneNode /\ NodeFollows /\ NewName /\ Settled
  BY DEF NamesInv
<1>5. OneNode'
  <2>1. \A k, l \in NodeWrites' : k + 1 = l + 1
    BY <1>3, <1>4, Zenon DEF OneNode
  <2>2. \A k, l \in NodeWrites' : k = l
    BY <1>3, <2>1
  <2> QED
    BY <2>2, Zenon DEF OneNode
<1>6. NodeFollows'
  <2> SUFFICES ASSUME NEW k \in DOMAIN todo', todo'[k].area = "iNodeBitmap", todo'[k].value = TRUE
               PROVE  \E l \in NodeWrites' : k < l /\ todo'[l].index = todo'[k].index
    BY Zenon DEF NodeFollows
  <2>1. k \in Nat \ {0} /\ k + 1 \in DOMAIN todo /\ todo'[k] = todo[k + 1]
    BY <1>2, Zenon
  <2>2. PICK l \in NodeWrites : k + 1 < l /\ todo[l].index = todo[k + 1].index
    BY <1>4, <2>1, Zenon DEF NodeFollows
  <2>3. l \in Nat /\ 1 < l /\ k < l - 1
    BY <1>3, <2>1, <2>2
  <2>4. l - 1 \in NodeWrites' /\ todo'[l - 1] = todo[l]
    BY <1>3, <2>3, Zenon
  <2>5. todo'[l - 1].index = todo'[k].index
    BY <2>1, <2>2, <2>4, Zenon
  <2> QED
    BY <2>3, <2>4, <2>5, Zenon
<1>7. \A n \in Occupied : n \in INodes
  BY DEF Occupied
<1>8. CASE /\ todo[1].area # "iNodeTable"
           /\ iNodeTable' = iNodeTable
           /\ \/ todo[1].area = "iNodeBitmap" /\ iNodeBitmap' = Area(iNodeBitmap, todo[1])
              \/ iNodeBitmap' = iNodeBitmap
  <2>1. 1 \notin NodeWrites
    BY <1>8 DEF NodeWrites
  <2>2. \A k \in NodeWrites : 1 < k /\ k - 1 \in NodeWrites' /\ todo'[k - 1] = todo[k]
    BY <1>3, <2>1
  <2>3. ASSUME NEW n \in Occupied', n \notin Occupied
        PROVE  \E l \in NodeWrites : todo[l].index = n
    <3>1. n \in INodes /\ iNodeBitmap'[n] # iNodeBitmap[n] /\ iNodeBitmap'[n] = TRUE
      <4>1. n \in INodes /\ iNodeBitmap'[n] /\ ~iNodeBitmap[n]
        BY <2>3, Zenon DEF Occupied
      <4>2. iNodeBitmap' \in [INodes -> BOOLEAN]
        BY WriteTyped, Zenon DEF Typed
      <4>3. iNodeBitmap'[n] \in BOOLEAN
        BY <4>1, <4>2, Zenon
      <4> QED
        BY <4>1, <4>3, Zenon
    <3>2. iNodeBitmap' = [iNodeBitmap EXCEPT ![todo[1].index] = todo[1].value]
          \/ iNodeBitmap' = iNodeBitmap
      BY <1>8, Zenon DEF Area
    <3>3. iNodeBitmap \in [INodes -> BOOLEAN]
      BY Zenon DEF Typed
    <3>4. iNodeBitmap' = [iNodeBitmap EXCEPT ![todo[1].index] = todo[1].value]
      BY <3>1, <3>2, Zenon
    <3>5. n = todo[1].index /\ todo[1].value = TRUE
      BY <3>1, <3>3, <3>4, Zenon
    <3>6. todo[1].area = "iNodeBitmap"
      BY <1>8, <3>1, Zenon
    <3>7. \E l \in NodeWrites : 1 < l /\ todo[l].index = todo[1].index
      BY <1>2, <1>4, <3>5, <3>6, Zenon DEF NodeFollows
    <3> QED
      BY <3>5, <3>7, Zenon
  <2>4. \A k, l \in NodeWrites : k = l
    BY <1>4, Zenon DEF OneNode
  <2>5. NewName'
    <3> SUFFICES ASSUME NEW k \in NodeWrites', NEW n \in Occupied', n # todo'[k].index
                 PROVE  iNodeTable'[n].name # todo'[k].value.name
      BY Zenon DEF NewName
    <3>1. k + 1 \in NodeWrites /\ todo'[k] = todo[k + 1]
      BY <1>3, Zenon
    <3>2. n \in Occupied
      <4>1. ASSUME n \notin Occupied
            PROVE  FALSE
        <5>1. PICK l \in NodeWrites : todo[l].index = n
          BY <2>3, <4>1, Zenon
        <5>2. l = k + 1
          BY <2>4, <3>1, <5>1, Zenon
        <5> QED
          BY <3>1, <5>1, <5>2, Zenon
      <4> QED
        BY <4>1, Zenon
    <3>3. iNodeTable[n].name # todo[k + 1].value.name
      BY <1>4, <3>1, <3>2, Zenon DEF NewName
    <3> QED
      BY <1>8, <3>1, <3>3, Zenon
  <2>6. Settled'
    <3> SUFFICES ASSUME ~resurrected',
                        NEW m \in Occupied', m \notin {todo'[k].index : k \in NodeWrites'},
                        NEW n \in Occupied', n \notin {todo'[k].index : k \in NodeWrites'},
                        iNodeTable'[m].name = iNodeTable'[n].name
                 PROVE  m = n \/ iNodeTable'[m].name = NoName
      BY Zenon DEF Settled
    <3>1. \A k \in NodeWrites : todo[k].index # m /\ todo[k].index # n
      <4>1. \A k \in NodeWrites : todo[k].index \in {todo'[l].index : l \in NodeWrites'}
        BY <2>2, Zenon
      <4> QED
        BY <4>1, Zenon
    <3>2. m \in Occupied /\ n \in Occupied
      BY <2>3, <3>1, Zenon
    <3> QED
      BY <1>1, <1>4, <1>8, <3>1, <3>2, ZenonT(40) DEF Settled
  <2> QED
    BY <1>5, <1>6, <2>5, <2>6, Zenon DEF NamesInv
<1>9. CASE /\ todo[1].area = "iNodeTable"
           /\ iNodeBitmap' = iNodeBitmap
           /\ iNodeTable' = Area(iNodeTable, todo[1])
  <2>1. 1 \in NodeWrites
    BY <1>2, <1>9, Zenon DEF NodeWrites
  <2>2. \A k \in NodeWrites : k = 1
    BY <1>4, <2>1, Zenon DEF OneNode
  <2>3. NodeWrites' = {}
    <3>1. \A k \in NodeWrites' : k \in Nat \ {0} /\ k + 1 = 1
      BY <1>3, <2>2, Zenon
    <3> QED
      BY <3>1
  <2>4. NewName'
    BY <2>3, Zenon DEF NewName
  <2>5. Occupied' = Occupied
    BY <1>9 DEF Occupied
  <2>6. Settled'
    <3> SUFFICES ASSUME ~resurrected', NEW m \in Occupied, NEW n \in Occupied,
                        iNodeTable'[m].name = iNodeTable'[n].name, m # n
                 PROVE  iNodeTable'[m].name = NoName
      BY <2>5, Zenon DEF Settled
    <3>1. PICK i, node : i = todo[1].index /\ node = todo[1].value
      OBVIOUS
    <3>2. \A o \in Occupied : o # i => iNodeTable[o].name # node.name
      BY <1>4, <2>1, <3>1, Zenon DEF NewName
    <3>3. \A o, q \in Occupied : o # i /\ q # i /\ iNodeTable[o].name = iNodeTable[q].name
             => o = q \/ iNodeTable[o].name = NoName
      <4>1. {todo[k].index : k \in NodeWrites} = {i}
        BY <2>1, <2>2, <3>1
      <4> QED
        BY <1>1, <1>4, <4>1, Zenon DEF Settled
    <3>4. iNodeTable' = [iNodeTable EXCEPT ![i] = node] \/ i \notin INodes
      BY <1>9, <3>1, Zenon DEF Area, Typed
    <3>5. i \notin INodes => iNodeTable' = iNodeTable
      <4>1. DOMAIN iNodeTable = INodes
        BY Zenon DEF Typed
      <4> QED
        BY <1>9, <3>1, <4>1, Zenon DEF Area
    <3>6. DOMAIN iNodeTable = INodes
      BY Zenon DEF Typed
    <3>7. \A o \in Occupied : iNodeTable'[o] = IF o = i THEN node ELSE iNodeTable[o]
      BY <1>7, <3>4, <3>5, <3>6
    <3> QED
      BY <3>2, <3>3, <3>7, Zenon
  <2> QED
    BY <1>5, <1>6, <2>4, <2>6, Zenon DEF NamesInv
<1>10. CASE iNodeBitmap' = [n \in INodes |-> FALSE]
  <2>1. Occupied' = {}
    BY <1>10 DEF Occupied
  <2>2. NewName' /\ Settled'
    BY <2>1, Zenon DEF NewName, Settled
  <2> QED
    BY <1>5, <1>6, <2>2, Zenon DEF NamesInv
<1>11. "iNodeBitmap" # "iNodeTable"
  OBVIOUS
<1> QED
  BY <1>8, <1>9, <1>10, <1>11, WriteEffect, Zenon

(* A kill drops the name that was going to be written.                     *)
LEMMA KillStep ==
  ASSUME Typed, NamesInv, Kill
  PROVE  Typed' /\ NamesInv'
<1>1. todo' = <<>> /\ UNCHANGED <<iNodeBitmap, iNodeTable, host>>
  BY DEF Kill, disk
<1>2. IsSeq(todo') /\ DOMAIN todo' = {}
  BY <1>1 DEF IsSeq
<1>3. Typed'
  BY <1>1, <1>2, Zenon DEF Typed
<1>4. NodeWrites' = {} /\ Occupied' = Occupied
  BY <1>1, <1>2 DEF NodeWrites, Occupied
<1>5. OneNode' /\ NodeFollows' /\ NewName'
  BY <1>2, <1>4, Zenon DEF OneNode, NodeFollows, NewName
<1>6. Settled'
  <2> SUFFICES ASSUME ~resurrected', NEW m \in Occupied, NEW n \in Occupied,
                      iNodeTable[m].name = iNodeTable[n].name, m # n
               PROVE  iNodeTable[m].name = NoName
    BY <1>1, <1>4, Zenon DEF Settled
  <2>1. ~resurrected /\ \A k \in NodeWrites :
          ~iNodeBitmap[todo[k].index] \/ iNodeTable[todo[k].index].name = NoName
    BY Zenon DEF Kill, NodeWrites
  <2>2. \A k \in NodeWrites : todo[k].index \in Occupied =>
          iNodeTable[todo[k].index].name = NoName
    BY <2>1, Zenon DEF Occupied
  <2>3. CASE \E k \in NodeWrites : todo[k].index = m \/ todo[k].index = n
    BY <2>2, <2>3, Zenon
  <2>4. CASE ~ \E k \in NodeWrites : todo[k].index = m \/ todo[k].index = n
    <3>1. m \notin {todo[k].index : k \in NodeWrites} /\ n \notin {todo[k].index : k \in NodeWrites}
      BY <2>4, Zenon
    <3> QED
      BY <2>1, <3>1, Zenon DEF NamesInv, Settled
  <2> QED
    BY <2>3, <2>4, Zenon
<1> QED
  BY <1>3, <1>5, <1>6, Zenon DEF NamesInv
-----------------------------------------------------------------------------
(* The types and the names are an inductive invariant ...                  *)
LEMMA NamesInit ==
  ASSUME Init
  PROVE  Typed /\ NamesInv
<1>1. \A f \in Names : IsSeq(host[f])
  <2> TAKE f \in Names
  <2>1. HostSize[f] \in Nat
    BY DiskAssumption
  <2>2. host[f] = [k \in 1..HostSize[f] |-> host[f][k]]
    BY DEF Init
  <2> QED
    BY <2>1, <2>2, FunctionIsSeq, Zenon
<1>2. todo = <<>> /\ IsSeq(todo) /\ DOMAIN todo = {}
  BY DEF Init, IsSeq
<1>3. iNodeBitmap \in [INodes -> BOOLEAN] /\ Occupied = {}
  BY DEF Init, Occupied
<1>4. iNodeTable \in [INodes -> INodeRecords]
  BY DEF Init, NewINode, INodeRecords
<1>5. host = [f \in Names |-> host[f]]
  BY DEF Init
<1>6. Typed
  BY <1>1, <1>2, <1>3, <1>4, <1>5, Zenon DEF Typed
<1>7. NamesInv
  BY <1>2, <1>3, Zenon DEF NamesInv, OneNode, NodeFollows, NewName, Settled, NodeWrites
<1> QED
  BY <1>6, <1>7

(* Every step keeps them, ...                                              *)
LEMMA NamesStep ==
  ASSUME Typed, NamesInv, [Next]_vars
  PROVE  Typed' /\ NamesInv'
<1>1. CASE mkfs
  BY <1>1, MkfsStep
<1>2. CASE rmfs
  BY <1>2, RmfsStep
<1>3. ASSUME NEW f \in Names, touch(f)
      PROVE  Typed' /\ NamesInv'
  BY <1>3, TouchStep
<1>4. ASSUME NEW f \in Names, cp(f)
      PROVE  Typed' /\ NamesInv'
  BY <1>4, CpStep
<1>5. ASSUME NEW f \in Names, rm(f)
      PROVE  Typed' /\ NamesInv'
  BY <1>5, RmStep
<1>6. ASSUME NEW f \in Names, load(f)
      PROVE  Typed' /\ NamesInv'
  BY <1>6, LoadStep
<1>7. CASE Write
  BY <1>7, WriteTyped, WriteNames
<1>8. CASE Kill
  BY <1>8, KillStep
<1>9. CASE UNCHANGED vars
  BY <1>9 DEF vars, disk, history, Typed, NamesInv, OneNode, NodeFollows, NewName, Settled,
              NodeWrites, Occupied, INodeRecords
<1> QED
  BY <1>1, <1>2, <1>3, <1>4, <1>5, <1>6, <1>7, <1>8, <1>9, Zenon DEF Next

(* ... so that between two commands ls lists no name twice: touch and cp   *)
(* look a name up before the first of their writes, each of which may be   *)
(* the last, and only a kill between occupying an inode and writing it can *)
(* bring an old name back.                                                 *)
THEOREM NamesUnique == Spec => []UniqueNames
<1>1. Init => Typed /\ NamesInv
  BY NamesInit
<1>2. Typed /\ NamesInv /\ [Next]_vars => Typed' /\ NamesInv'
  BY NamesStep
<1>3. NamesInv => UniqueNames
  <2> SUFFICES ASSUME NamesInv, todo = <<>>, ~resurrected,
                      NEW k \in DOMAIN ls, NEW l \in DOMAIN ls, ls[k] = ls[l]
               PROVE  k = l \/ ls[k] = NoName
    BY Zenon DEF UniqueNames, AtRest
  <2>1. k \in Occupied /\ l \in Occupied
        /\ ls[k] = iNodeTable[k].name /\ ls[l] = iNodeTable[l].name
    BY DEF ls
  <2>2. NodeWrites = {}
    BY DEF NodeWrites
  <2> QED
    BY <2>1, <2>2, Zenon DEF NamesInv, Settled
<1> QED
  BY <1>1, <1>2, <1>3, PTL DEF Spec
-----------------------------------------------------------------------------
(* The files on the disk: each has blocks of its own, and what the         *)
(* commands promised can be read back.                                     *)

(* A table with an entry for each of D.                                    *)
IsTable(table, D) == table = [x \in D |-> table[x]]

(* An inode as the commands make it.                                       *)
Sound(node) ==
  /\ node.startingBlock \in {0} \cup {dataBlockOffset + b : b \in DataBlocks}
  /\ node.size \in 0 .. FS_DATA_BLOCKS * BLOCK + MaxGarbage
  /\ node.size # 0 => node.startingBlock # 0
  /\ node.name = NoName => node.size = 0

(* A write as the commands make it.                                        *)
GoodWrite(w) ==
  /\ w.area = "image" => w.value \in {"empty", "blank", "made"}
  /\ w.area = "dataBitmap" => w.value \in BOOLEAN
  /\ w.area = "data" => w.index \in Units
  /\ w.area = "iNodeTable" => w.index \in INodes /\ Sound(w.value) /\ w.value.name \in Names
  /\ w.area = "promise" => w.index \in Names /\ IsSeq(w.value)

(* The types of what the names do not depend on.                           *)
DiskTyped ==
  /\ image \in {"absent", "empty", "blank", "made"}
  /\ dataBitmap \in [DataBlocks -> BOOLEAN]
  /\ \A n \in INodes : Sound(iNodeTable[n])
  /\ IsTable(data, Units) /\ IsTable(promised, Names)
  /\ \A f \in Names : promised[f] # Nothing => IsSeq(promised[f])
  /\ commands \in 0 .. MaxCommands /\ kills \in 0 .. MaxKills
  /\ misfreed \in BOOLEAN /\ resurrected \in BOOLEAN
  /\ \A k \in DOMAIN todo : GoodWrite(todo[k])

(* The order of the writes: a command that makes something undoes nothing, *)
(* and a promise is its last write.                                        *)
Makes(w) == w.area \in {"iNodeTable", "data", "promise"}
Undoes(w) == w.area = "image" \/ (w.area \in {"iNodeBitmap", "dataBitmap"} /\ w.value = FALSE)

Ordered ==
  /\ \A k, l \in DOMAIN todo : ~ (Makes(todo[k]) /\ Undoes(todo[l]))
  /\ \A k, l \in DOMAIN todo : todo[k].area = "promise" => l <= k
  /\ \A l \in DOMAIN todo :
       todo[l].area = "data" => \E k \in DOMAIN todo : todo[k].area = "promise"

(* An inode is written after it has been occupied.                         *)
Ready ==
  \A k \in NodeWrites :
    \/ todo[k].index \in Occupied
    \/ \E l \in DOMAIN todo : l < k /\ todo[l] = WriteTo("iNodeBitmap", todo[k].index, TRUE)

(* The blocks of an inode, also of one that is not written yet.            *)
Region(node) ==
  LET first == node.startingBlock - dataBlockOffset
  IN  IF node.size = 0 THEN {} ELSE first .. first + Blocks(node.size) - 1

(* The inodes of files: those that no command is about to write.           *)
Live == Occupied \ {todo[k].index : k \in NodeWrites}

(* Files have no block in common, and their blocks are marked, ...         *)
Apart == \A m, n \in Live : m # n => Region(iNodeTable[m]) \cap Region(iNodeTable[n]) = {}
Marked == \A n \in Live : \A b \in Region(iNodeTable[n]) \cap DataBlocks : dataBitmap[b]

(* ... also with the file that a command is about to create.               *)
Fitted ==
  \A k \in NodeWrites : \A m \in Live : Region(todo[k].value) \cap Region(iNodeTable[m]) = {}
Marking ==
  \A k \in NodeWrites : \A b \in Region(todo[k].value) \cap DataBlocks :
    dataBitmap[b] \/ \E l \in DOMAIN todo : l < k /\ todo[l] = WriteTo("dataBitmap", b, TRUE)

SpaceInv == ~misfreed /\ ~resurrected => Apart /\ Marked /\ Fitted /\ Marking

(* What every step keeps of the disk.                                      *)
DiskInv == DiskTyped /\ Ordered /\ Ready /\ SpaceInv

(* The k-th unit of a file.                                                *)
Place(node, k) == (node.startingBlock - dataBlockOffset) * BLOCK + k - 1

(* An inode with room for the contents s, and for no more unless cp read   *)
(* past the clean part of its buffer.                                      *)
Sized(node, s) == Len(s) <= node.size /\ (Len(s) < CLEAN => node.size = Len(s))

(* Every promise is kept.                                                  *)
Kept ==
  \A f \in Names : promised[f] # Nothing =>
    \E n \in Live :
      /\ iNodeTable[n].name = f
      /\ Sized(iNodeTable[n], promised[f])
      /\ \A i \in 1 .. Len(promised[f]) : data[Place(iNodeTable[n], i)] = promised[f][i]

(* What is going to be formatted or freed belongs to no promise.           *)
NonePromised == \A f \in Names : promised[f] = Nothing

Clean ==
  /\ image = "absent" => NonePromised
  /\ \A k \in DOMAIN todo : todo[k].area = "image" => NonePromised
  /\ \A k \in DOMAIN todo : todo[k].area = "iNodeBitmap" /\ todo[k].value = FALSE =>
       \A f \in Names : iNodeTable[todo[k].index].name = f => promised[f] = Nothing

(* Inode n is going to be node, or is already.                             *)
Target(n, node) ==
  \/ \E k \in NodeWrites : todo[k].index = n /\ todo[k].value = node
  \/ NodeWrites = {} /\ n \in Occupied /\ iNodeTable[n] = node

UnitsOf(b) == b * BLOCK .. b * BLOCK + BLOCK - 1

(* The units of node are going to be s, or are already; no other unit is   *)
(* going to be written.                                                    *)
Filling(node, s) ==
  /\ \A i \in 1..Len(s) :
       \/ data[Place(node, i)] = s[i]
       \/ \E l \in DOMAIN todo : todo[l].area = "data" /\ todo[l].index = Place(node, i)
  /\ \A l \in DOMAIN todo : todo[l].area = "data" =>
       /\ \E b \in Region(node) : todo[l].index \in UnitsOf(b)
       /\ \A i \in 1..Len(s) : todo[l].index = Place(node, i) => todo[l].value = s[i]

(* The promise that a command is about to make will be kept.               *)
Due ==
  \A k \in DOMAIN todo : todo[k].area = "promise" =>
    /\ image # "absent" /\ promised[todo[k].index] = Nothing
    /\ \E n \in INodes : \E node :
         /\ Target(n, node)
         /\ node.name = todo[k].index /\ Sized(node, todo[k].value)
         /\ Filling(node, todo[k].value)

KeptInv == ~misfreed /\ ~resurrected => Clean /\ Kept /\ Due
-----------------------------------------------------------------------------
(* Blocks and their units.                                                 *)

(* Division with a remainder.                                              *)
LEMMA Quotient ==
  ASSUME NEW x \in Nat, NEW d \in Nat \ {0}
  PROVE  /\ x \div d \in Nat
         /\ x \in (x \div d) * d .. (x \div d) * d + d - 1
<1>1. /\ x \div d \in Nat /\ x % d \in 0 .. d - 1
      /\ x = d * (x \div d) + (x % d)
  OBVIOUS
<1>2. PICK q \in Nat, r \in 0 .. d - 1 : q = x \div d /\ r = x % d
  BY <1>1
<1>3. x = d * q + r
  BY <1>1, <1>2
<1>4. x \in q * d .. q * d + d - 1
  BY <1>3
<1> QED
  BY <1>1, <1>2, <1>4

(* The quotients keep the order.                                           *)
LEMMA QuotientOrder ==
  ASSUME NEW x \in Nat, NEW y \in Nat, x <= y, NEW d \in Nat \ {0}
  PROVE  x \div d <= y \div d
<1>1. PICK p \in Nat, q \in Nat : /\ p = x \div d /\ q = y \div d
                                  /\ x \in p * d .. p * d + d - 1
                                  /\ y \in q * d .. q * d + d - 1
  BY Quotient
<1>2. p * d < q * d + d
  BY <1>1
<1>3. p <= q
  <2> SUFFICES ASSUME q + 1 <= p PROVE FALSE
    BY <1>1
  <2>1. (q + 1) * d <= p * d
    OBVIOUS
  <2>2. (q + 1) * d = q * d + d
    OBVIOUS
  <2> QED
    BY <1>2, <2>1, <2>2
<1> QED
  BY <1>1, <1>3

(* No unit is in two blocks.                                               *)
LEMMA UnitsApart ==
  ASSUME NEW b \in Nat, NEW c \in Nat, NEW u \in UnitsOf(b), u \in UnitsOf(c)
  PROVE  b = c
<1>1. PICK d \in Nat \ {0} : d = BLOCK
  BY DiskAssumption
<1>2. u \in Nat /\ b * d <= u /\ u < b * d + d /\ c * d <= u /\ u < c * d + d
  BY <1>1 DEF UnitsOf
<1>3. ASSUME NEW x \in Nat, NEW y \in Nat, x * d <= u, u < y * d + d, y < x
      PROVE  FALSE
  <2>1. (y + 1) * d <= x * d /\ (y + 1) * d = y * d + d
    BY <1>3
  <2> QED
    BY <1>2, <1>3, <2>1
<1>4. ~(b < c) /\ ~(c < b)
  BY <1>2, <1>3
<1> QED
  BY <1>4

(* The blocks of a sound inode.                                            *)
LEMMA RegionBlocks ==
  ASSUME NEW node, Sound(node), node.size # 0
  PROVE  /\ node.startingBlock - dataBlockOffset \in DataBlocks
         /\ Blocks(node.size) \in Nat
         /\ Region(node) = node.startingBlock - dataBlockOffset ..
                             node.startingBlock - dataBlockOffset + Blocks(node.size) - 1
<1>1. node.startingBlock - dataBlockOffset \in DataBlocks
  BY DEF Sound, dataBlockOffset, DataBlocks
<1>2. node.size \in Nat
  BY DiskAssumption DEF Sound
<1> QED
  BY <1>1, <1>2, BlocksNat DEF Region

(* They are numbers.                                                       *)
LEMMA RegionNat ==
  ASSUME NEW node, Sound(node)
  PROVE  Region(node) \subseteq Nat
<1>1. CASE node.size = 0
  BY <1>1 DEF Region
<1>2. CASE node.size # 0
  BY <1>2, RegionBlocks, DiskAssumption, SMTT(30) DEF DataBlocks
<1> QED
  BY <1>1, <1>2

(* The units of a file are in its blocks.                                  *)
LEMMA PlaceInRegion ==
  ASSUME NEW node, Sound(node), NEW i \in 1 .. node.size
  PROVE  \E b \in Region(node) : Place(node, i) \in UnitsOf(b)
<1>1. node.size \in Nat /\ node.size # 0
  BY DiskAssumption DEF Sound
<1>2. PICK d \in Nat \ {0} : d = BLOCK
  BY DiskAssumption
<1>3. PICK j \in Nat : j = node.startingBlock - dataBlockOffset
  BY <1>1, RegionBlocks, DiskAssumption DEF DataBlocks
<1>4. i - 1 \in Nat /\ i - 1 <= node.size
  BY <1>1
<1>5. PICK q \in Nat : q = (i - 1) \div d /\ i - 1 \in q * d .. q * d + d - 1
  BY <1>4, Quotient
<1>6. PICK p \in Nat : p = node.size \div d
  BY <1>1, Quotient
<1>7. q <= p
  BY <1>1, <1>4, <1>5, <1>6, QuotientOrder
<1>8. Region(node) = j .. j + p
  BY <1>1, <1>2, <1>3, <1>6, RegionBlocks DEF Blocks
<1>9. j + q \in Region(node)
  BY <1>7, <1>8
<1>10. Place(node, i) = j * d + i - 1
  BY <1>2, <1>3 DEF Place
<1>11. (j + q) * d = j * d + q * d
  OBVIOUS
<1>12. Place(node, i) \in UnitsOf(j + q)
  <2>1. PICK x \in Nat, y \in Nat : x = j * d /\ y = q * d
    OBVIOUS
  <2>2. UnitsOf(j + q) = x + y .. x + y + d - 1
    BY <1>2, <1>11, <2>1 DEF UnitsOf
  <2>3. Place(node, i) = x + i - 1 /\ i - 1 >= y /\ i - 1 <= y + d - 1
    BY <1>4, <1>5, <1>10, <2>1
  <2> QED
    BY <2>2, <2>3
<1> QED
  BY <1>9, <1>12

(* Files with no block in common have no unit in common.                   *)
LEMMA PlaceElsewhere ==
  ASSUME NEW node, Sound(node), NEW other, Sound(other), Region(node) \cap Region(other) = {},
         NEW i \in 1 .. node.size, NEW b \in Region(other)
  PROVE  Place(node, i) \notin UnitsOf(b)
<1>1. PICK c \in Region(node) : Place(node, i) \in UnitsOf(c)
  BY PlaceInRegion
<1>2. b \in Nat /\ c \in Nat /\ b # c
  BY RegionNat
<1> QED
  BY <1>1, <1>2, UnitsApart
-----------------------------------------------------------------------------
(* What a write does to the disk and to the promises: one of these.        *)
WritesBit ==
  /\ todo[1].area = "iNodeBitmap"
  /\ iNodeBitmap' = Area(iNodeBitmap, todo[1])
  /\ image' = image /\ dataBitmap' = dataBitmap /\ iNodeTable' = iNodeTable
  /\ data' = data /\ promised' = promised

MarksBlock ==
  /\ todo[1].area = "dataBitmap"
  /\ dataBitmap' = Area(dataBitmap, todo[1])
  /\ image' = image /\ iNodeBitmap' = iNodeBitmap /\ iNodeTable' = iNodeTable
  /\ data' = data /\ promised' = promised

WritesNode ==
  /\ todo[1].area = "iNodeTable"
  /\ iNodeTable' = Area(iNodeTable, todo[1])
  /\ image' = image /\ iNodeBitmap' = iNodeBitmap /\ dataBitmap' = dataBitmap
  /\ data' = data /\ promised' = promised

WritesUnit ==
  /\ todo[1].area = "data"
  /\ data' = Area(data, todo[1])
  /\ image' = image /\ iNodeBitmap' = iNodeBitmap /\ dataBitmap' = dataBitmap
  /\ iNodeTable' = iNodeTable /\ promised' = promised

Promises ==
  /\ todo[1].area = "promise"
  /\ promised' = Area(promised, todo[1])
  /\ image' = image /\ iNodeBitmap' = iNodeBitmap /\ dataBitmap' = dataBitmap
  /\ iNodeTable' = iNodeTable /\ data' = data

Formats ==
  /\ todo[1].area = "image"
  /\ image' = todo[1].value
  /\ iNodeBitmap' = [n \in INodes |-> FALSE]
  /\ dataBitmap' = [b \in DataBlocks |-> FALSE]
  /\ iNodeTable' = [n \in INodes |-> NewINode]
  /\ data' = [u \in Units |-> Zero]
  /\ promised' = promised

WritesElse ==
  /\ todo[1].area \notin {"iNodeBitmap", "dataBitmap", "iNodeTable", "data", "promise"}
  /\ image' = IF todo[1].area = "image" THEN todo[1].value ELSE image
  /\ iNodeBitmap' = iNodeBitmap /\ dataBitmap' = dataBitmap /\ iNodeTable' = iNodeTable
  /\ data' = data /\ promised' = promised

(* A write does one of these.                                              *)
LEMMA WriteCases ==
  ASSUME Typed, DiskTyped, Write
  PROVE  WritesBit \/ MarksBlock \/ WritesNode \/ WritesUnit \/ Promises \/ Formats \/ WritesElse
<1>1. PICK w : w = todo[1] /\ w = Head(todo)
  BY TailWrites DEF Write
<1>2. /\ w.area = "image" => image' = w.value
      /\ w.area # "image" => image' = image
      /\ w.area = "iNodeBitmap" => iNodeBitmap' = Area(iNodeBitmap, w)
      /\ w.area # "iNodeBitmap" => iNodeBitmap' = Formatted(iNodeBitmap, w, FALSE)
      /\ w.area = "dataBitmap" => dataBitmap' = Area(dataBitmap, w)
      /\ w.area # "dataBitmap" => dataBitmap' = Formatted(dataBitmap, w, FALSE)
      /\ w.area = "iNodeTable" => iNodeTable' = Area(iNodeTable, w)
      /\ w.area # "iNodeTable" => iNodeTable' = Formatted(iNodeTable, w, NewINode)
      /\ w.area = "data" => data' = Area(data, w)
      /\ w.area # "data" => data' = Formatted(data, w, Zero)
      /\ w.area = "promise" => promised' = Area(promised, w)
      /\ w.area # "promise" => promised' = promised
  <2>1. /\ image' = IF w.area = "image" THEN w.value ELSE image
        /\ iNodeBitmap' = IF w.area = "iNodeBitmap" THEN Area(iNodeBitmap, w)
                          ELSE Formatted(iNodeBitmap, w, FALSE)
        /\ dataBitmap' = IF w.area = "dataBitmap" THEN Area(dataBitmap, w)
                         ELSE Formatted(dataBitmap, w, FALSE)
        /\ iNodeTable' = IF w.area = "iNodeTable" THEN Area(iNodeTable, w)
                         ELSE Formatted(iNodeTable, w, NewINode)
        /\ data' = IF w.area = "data" THEN Area(data, w) ELSE Formatted(data, w, Zero)
        /\ promised' = IF w.area = "promise" THEN Area(promised, w) ELSE promised
    BY <1>1, Zenon DEF Write
  <2> QED
    BY <2>1, Zenon
<1>3. w.area # "image" =>
        /\ Formatted(iNodeBitmap, w, FALSE) = iNodeBitmap
        /\ Formatted(dataBitmap, w, FALSE) = dataBitmap
        /\ Formatted(iNodeTable, w, NewINode) = iNodeTable
        /\ Formatted(data, w, Zero) = data
  BY Zenon DEF Formatted
<1>4. CASE w.area = "image" /\ w.value = "empty"
  <2>1. /\ Formatted(iNodeBitmap, w, FALSE) = [x \in DOMAIN iNodeBitmap |-> FALSE]
        /\ Formatted(dataBitmap, w, FALSE) = [x \in DOMAIN dataBitmap |-> FALSE]
        /\ Formatted(iNodeTable, w, NewINode) = [x \in DOMAIN iNodeTable |-> NewINode]
        /\ Formatted(data, w, Zero) = [x \in DOMAIN data |-> Zero]
    BY <1>4, Zenon DEF Formatted
  <2>2. /\ DOMAIN iNodeBitmap = INodes /\ DOMAIN dataBitmap = DataBlocks
        /\ DOMAIN iNodeTable = INodes /\ DOMAIN data = Units
    BY DEF Typed, DiskTyped, IsTable
  <2>3. w.area # "iNodeBitmap" /\ w.area # "dataBitmap" /\ w.area # "iNodeTable"
        /\ w.area # "data" /\ w.area # "promise"
    BY <1>4
  <2>4. Formats
    BY <1>1, <1>2, <1>4, <2>1, <2>2, <2>3 DEF Formats
  <2> QED
    BY <2>4
<1>5. CASE w.area = "image" /\ w.value # "empty"
  <2>1. /\ Formatted(iNodeBitmap, w, FALSE) = iNodeBitmap
        /\ Formatted(dataBitmap, w, FALSE) = dataBitmap
        /\ Formatted(iNodeTable, w, NewINode) = iNodeTable
        /\ Formatted(data, w, Zero) = data
    BY <1>5, Zenon DEF Formatted
  <2>2. w.area # "iNodeBitmap" /\ w.area # "dataBitmap" /\ w.area # "iNodeTable"
        /\ w.area # "data" /\ w.area # "promise"
    BY <1>5
  <2>3. WritesElse
    BY <1>1, <1>2, <1>5, <2>1, <2>2, Zenon DEF WritesElse
  <2> QED
    BY <2>3
<1>6. CASE w.area = "iNodeBitmap"
  <2>1. w.area # "image" /\ w.area # "dataBitmap" /\ w.area # "iNodeTable"
        /\ w.area # "data" /\ w.area # "promise"
    BY <1>6
  <2>2. WritesBit
    BY <1>1, <1>2, <1>3, <1>6, <2>1, Zenon DEF WritesBit
  <2> QED
    BY <2>2
<1>7. CASE w.area = "dataBitmap"
  <2>1. w.area # "image" /\ w.area # "iNodeBitmap" /\ w.area # "iNodeTable"
        /\ w.area # "data" /\ w.area # "promise"
    BY <1>7
  <2>2. MarksBlock
    BY <1>1, <1>2, <1>3, <1>7, <2>1, Zenon DEF MarksBlock
  <2> QED
    BY <2>2
<1>8. CASE w.area = "iNodeTable"
  <2>1. w.area # "image" /\ w.area # "iNodeBitmap" /\ w.area # "dataBitmap"
        /\ w.area # "data" /\ w.area # "promise"
    BY <1>8
  <2>2. WritesNode
    BY <1>1, <1>2, <1>3, <1>8, <2>1, Zenon DEF WritesNode
  <2> QED
    BY <2>2
<1>9. CASE w.area = "data"
  <2>1. w.area # "image" /\ w.area # "iNodeBitmap" /\ w.area # "dataBitmap"
        /\ w.area # "iNodeTable" /\ w.area # "promise"
    BY <1>9
  <2>2. WritesUnit
    BY <1>1, <1>2, <1>3, <1>9, <2>1, Zenon DEF WritesUnit
  <2> QED
    BY <2>2
<1>10. CASE w.area = "promise"
  <2>1. w.area # "image" /\ w.area # "iNodeBitmap" /\ w.area # "dataBitmap"
        /\ w.area # "iNodeTable" /\ w.area # "data"
    BY <1>10
  <2>2. Promises
    BY <1>1, <1>2, <1>3, <1>10, <2>1, Zenon DEF Promises
  <2> QED
    BY <2>2
<1>11. CASE w.area \notin {"image", "iNodeBitmap", "dataBitmap", "iNodeTable", "data", "promise"}
  <2>1. w.area # "image" /\ w.area # "iNodeBitmap" /\ w.area # "dataBitmap"
        /\ w.area # "iNodeTable" /\ w.area # "data" /\ w.area # "promise"
    BY <1>11
  <2>2. WritesElse
    BY <1>1, <1>2, <1>3, <2>1, Zenon DEF WritesElse
  <2> QED
    BY <2>2
<1> QED
  BY <1>4, <1>5, <1>6, <1>7, <1>8, <1>9, <1>10, <1>11, Zenon

(* The table u is the table t after the write w.                           *)
Updated(u, t, w, D) ==
  /\ IsTable(u, D)
  /\ \A x \in D : u[x] = w.value \/ u[x] = t[x]
  /\ \A x \in D : x # w.index => u[x] = t[x]
  /\ w.index \in D => u[w.index] = w.value

(* Area writes one entry of a table, if there is one.                      *)
LEMMA AreaEntry ==
  ASSUME NEW D, NEW t, IsTable(t, D), NEW w, NEW u, u = Area(t, w)
  PROVE  Updated(u, t, w, D)
<1>1. DOMAIN t = D
  BY DEF IsTable
<1>2. PICK i, v : i = w.index /\ v = w.value
  OBVIOUS
<1>3. u = [x \in D |-> IF x = i THEN v ELSE t[x]]
  <2>1. u = IF i \in DOMAIN t THEN [t EXCEPT ![i] = v] ELSE t
    BY <1>2, Zenon DEF Area
  <2> QED
    BY <1>1, <2>1 DEF IsTable
<1>4. /\ IsTable(u, D)
      /\ \A x \in D : u[x] = v \/ u[x] = t[x]
      /\ \A x \in D : x # i => u[x] = t[x]
      /\ i \in D => u[i] = v
  BY <1>3 DEF IsTable
<1> QED
  BY <1>2, <1>4, Zenon DEF Updated

(* A write keeps the types.                                                *)
LEMMA WriteDiskTyped ==
  ASSUME Typed, DiskTyped, Write
  PROVE  DiskTyped'
<1>1. /\ 1 \in DOMAIN todo
      /\ \A k \in DOMAIN todo' : k + 1 \in DOMAIN todo /\ todo'[k] = todo[k + 1]
  BY TailWrites DEF Write
<1>2. GoodWrite(todo[1]) /\ \A k \in DOMAIN todo' : GoodWrite(todo'[k])
  BY <1>1, Zenon DEF DiskTyped
<1>3. /\ commands' = commands /\ kills' = kills /\ resurrected' = resurrected
      /\ misfreed' \in BOOLEAN
  BY DEF Write
<1>4. /\ image \in {"absent", "empty", "blank", "made"}
      /\ dataBitmap \in [DataBlocks -> BOOLEAN]
      /\ \A n \in INodes : Sound(iNodeTable[n])
      /\ IsTable(data, Units) /\ IsTable(promised, Names)
      /\ \A f \in Names : promised[f] # Nothing => IsSeq(promised[f])
  BY DEF DiskTyped
<1>5. IsTable(iNodeTable, INodes)
  BY DEF Typed, IsTable
<1>6. Sound(NewINode)
  BY DiskAssumption DEF Sound, NewINode
<1>7. image' \in {"absent", "empty", "blank", "made"}
  BY <1>2, <1>4, WriteCases
     DEF WritesBit, MarksBlock, WritesNode, WritesUnit, Promises, Formats, WritesElse, GoodWrite
<1>8. dataBitmap' \in [DataBlocks -> BOOLEAN]
  <2>1. CASE MarksBlock
    BY <1>2, <1>4, <2>1 DEF MarksBlock, Area, GoodWrite
  <2>2. CASE Formats
    BY <2>2 DEF Formats
  <2>3. CASE dataBitmap' = dataBitmap
    BY <1>4, <2>3
  <2> QED
    BY <2>1, <2>2, <2>3, WriteCases, Zenon
       DEF WritesBit, WritesNode, WritesUnit, Promises, WritesElse
<1>9. \A n \in INodes : Sound(iNodeTable'[n])
  <2>1. CASE WritesNode
    <3>1. Updated(iNodeTable', iNodeTable, todo[1], INodes)
      BY <1>5, <2>1, AreaEntry, Zenon DEF WritesNode
    <3>2. \A n \in INodes : iNodeTable'[n] = todo[1].value \/ iNodeTable'[n] = iNodeTable[n]
      BY <3>1, Zenon DEF Updated
    <3>3. Sound(todo[1].value)
      BY <1>2, <2>1, Zenon DEF WritesNode, GoodWrite
    <3> QED
      BY <1>4, <3>2, <3>3, Zenon
  <2>2. CASE Formats
    BY <1>6, <2>2 DEF Formats
  <2>3. CASE iNodeTable' = iNodeTable
    BY <1>4, <2>3, Zenon
  <2> QED
    BY <2>1, <2>2, <2>3, WriteCases, Zenon
       DEF WritesBit, MarksBlock, WritesUnit, Promises, WritesElse
<1>10. IsTable(data', Units)
  <2>1. CASE WritesUnit
    <3>1. Updated(data', data, todo[1], Units)
      BY <1>4, <2>1, AreaEntry, Zenon DEF WritesUnit
    <3> QED
      BY <3>1, Zenon DEF Updated
  <2>2. CASE Formats
    BY <2>2 DEF Formats, IsTable
  <2>3. CASE data' = data
    BY <1>4, <2>3, Zenon
  <2> QED
    BY <2>1, <2>2, <2>3, WriteCases, Zenon
       DEF WritesBit, MarksBlock, WritesNode, Promises, WritesElse
<1>11. /\ IsTable(promised', Names)
       /\ \A f \in Names : promised'[f] # Nothing => IsSeq(promised'[f])
  <2>1. CASE Promises
    <3>1. Updated(promised', promised, todo[1], Names)
      BY <1>4, <2>1, AreaEntry, Zenon DEF Promises
    <3>2. /\ IsTable(promised', Names)
          /\ \A f \in Names : promised'[f] = todo[1].value \/ promised'[f] = promised[f]
      BY <3>1, Zenon DEF Updated
    <3>3. IsSeq(todo[1].value)
      BY <1>2, <2>1, Zenon DEF Promises, GoodWrite
    <3> QED
      BY <1>4, <3>2, <3>3, Zenon
  <2>2. CASE promised' = promised
    BY <1>4, <2>2, Zenon
  <2> QED
    BY <2>1, <2>2, WriteCases, Zenon
       DEF WritesBit, MarksBlock, WritesNode, WritesUnit, Formats, WritesElse
<1>12. commands' \in 0 .. MaxCommands /\ kills' \in 0 .. MaxKills /\ resurrected' \in BOOLEAN
  BY <1>3, Zenon DEF DiskTyped
<1> QED
  BY <1>2, <1>3, <1>7, <1>8, <1>9, <1>10, <1>11, <1>12 DEF DiskTyped, Sound, GoodWrite, IsTable
-----------------------------------------------------------------------------
(* A write leaves the others in their order.                               *)
LEMMA WriteOrdered ==
  ASSUME Typed, Ordered, Write
  PROVE  Ordered'
<1>1. /\ \A k \in DOMAIN todo' : k \in Nat \ {0} /\ k + 1 \in DOMAIN todo /\ todo'[k] = todo[k + 1]
      /\ \A k \in DOMAIN todo :
           k \in Nat \ {0} /\ (1 < k => k - 1 \in DOMAIN todo' /\ todo'[k - 1] = todo[k])
  BY TailWrites DEF Write
<1>2. \A k, l \in DOMAIN todo' : ~ (Makes(todo'[k]) /\ Undoes(todo'[l]))
  BY <1>1, Zenon DEF Ordered
<1>3. \A k, l \in DOMAIN todo' : todo'[k].area = "promise" => l <= k
  <2> SUFFICES ASSUME NEW k \in DOMAIN todo', NEW l \in DOMAIN todo', todo'[k].area = "promise"
               PROVE  l <= k
    OBVIOUS
  <2>1. l + 1 <= k + 1
    BY <1>1, Zenon DEF Ordered
  <2> QED
    BY <1>1, <2>1
<1>4. ASSUME NEW l \in DOMAIN todo', todo'[l].area = "data"
      PROVE  \E k \in DOMAIN todo' : todo'[k].area = "promise"
  <2>1. l \in Nat \ {0} /\ l + 1 \in DOMAIN todo /\ todo[l + 1].area = "data"
    BY <1>1, <1>4, Zenon
  <2>2. PICK k \in DOMAIN todo : todo[k].area = "promise"
    BY <2>1, Zenon DEF Ordered
  <2>3. l + 1 <= k
    BY <2>1, <2>2, Zenon DEF Ordered
  <2>4. 1 < k
    BY <1>1, <2>1, <2>3
  <2> QED
    BY <1>1, <2>2, <2>4, Zenon
<1> QED
  BY <1>2, <1>3, <1>4, Zenon DEF Ordered, Makes, Undoes

(* A command that makes a file frees no inode and no block.                *)
LEMMA Growing ==
  ASSUME Typed, DiskTyped, Ordered, Write, NEW k \in DOMAIN todo, Makes(todo[k])
  PROVE  /\ ~Undoes(todo[1]) /\ ~Formats
         /\ Occupied \subseteq Occupied'
         /\ \A b \in DataBlocks : dataBitmap[b] => dataBitmap'[b]
<1>1. 1 \in DOMAIN todo
  BY TailWrites DEF Write
<1>2. ~Undoes(todo[1])
  BY <1>1, Zenon DEF Ordered
<1>3. ~Formats
  BY <1>2, Zenon DEF Formats, Undoes
<1>4. iNodeBitmap \in [INodes -> BOOLEAN] /\ dataBitmap \in [DataBlocks -> BOOLEAN]
  BY Zenon DEF Typed, DiskTyped
<1>5. CASE WritesBit
  <2>1. todo[1].value = TRUE
    BY <1>1, <1>2, <1>5 DEF WritesBit, Undoes, Typed
  <2>2. IsTable(iNodeBitmap, INodes)
    BY <1>4 DEF IsTable
  <2>3. Updated(iNodeBitmap', iNodeBitmap, todo[1], INodes)
    BY <1>5, <2>2, AreaEntry, Zenon DEF WritesBit
  <2>4. Occupied \subseteq Occupied'
    BY <2>1, <2>3 DEF Updated, Occupied
  <2> QED
    BY <1>2, <1>3, <1>5, <2>4 DEF WritesBit
<1>6. CASE MarksBlock
  <2>1. todo[1].value = TRUE
    BY <1>1, <1>2, <1>6 DEF MarksBlock, Undoes, DiskTyped, GoodWrite
  <2>2. IsTable(dataBitmap, DataBlocks)
    BY <1>4 DEF IsTable
  <2>3. Updated(dataBitmap', dataBitmap, todo[1], DataBlocks)
    BY <1>6, <2>2, AreaEntry, Zenon DEF MarksBlock
  <2>4. \A b \in DataBlocks : dataBitmap[b] => dataBitmap'[b]
    BY <2>1, <2>3 DEF Updated
  <2>5. Occupied' = Occupied
    BY <1>6 DEF MarksBlock, Occupied
  <2> QED
    BY <1>2, <1>3, <2>4, <2>5
<1>7. CASE iNodeBitmap' = iNodeBitmap /\ dataBitmap' = dataBitmap
  BY <1>2, <1>3, <1>7 DEF Occupied
<1> QED
  BY <1>3, <1>5, <1>6, <1>7, WriteCases, Zenon DEF WritesNode, WritesUnit, Promises, WritesElse

(* An inode is written after it has been occupied.                         *)
LEMMA WriteReady ==
  ASSUME Typed, DiskTyped, Ordered, Ready, Write
  PROVE  Ready'
<1>1. /\ \A k \in DOMAIN todo' : k \in Nat \ {0} /\ k + 1 \in DOMAIN todo /\ todo'[k] = todo[k + 1]
      /\ \A k \in DOMAIN todo :
           k \in Nat \ {0} /\ (1 < k => k - 1 \in DOMAIN todo' /\ todo'[k - 1] = todo[k])
  BY TailWrites DEF Write
<1> SUFFICES ASSUME NEW k \in NodeWrites'
             PROVE  \/ todo'[k].index \in Occupied'
                    \/ \E l \in DOMAIN todo' :
                         l < k /\ todo'[l] = WriteTo("iNodeBitmap", todo'[k].index, TRUE)
  BY DEF Ready, WriteTo
<1>2. k \in Nat \ {0} /\ k + 1 \in NodeWrites /\ todo'[k] = todo[k + 1]
  BY <1>1, Zenon DEF NodeWrites
<1>3. PICK i : i = todo[k + 1].index /\ i = todo'[k].index
  BY <1>2
<1>4. i \in INodes
  BY <1>2, <1>3, Zenon DEF NodeWrites, DiskTyped, GoodWrite
<1>5. Makes(todo[k + 1]) /\ k + 1 \in DOMAIN todo
  BY <1>2 DEF NodeWrites, Makes
<1>6. CASE i \in Occupied
  BY <1>3, <1>5, <1>6, Growing, Zenon
<1>7. ASSUME NEW l \in DOMAIN todo, l < k + 1, todo[l] = WriteTo("iNodeBitmap", i, TRUE)
      PROVE  \/ i \in Occupied'
             \/ \E m \in DOMAIN todo' : m < k /\ todo'[m] = WriteTo("iNodeBitmap", i, TRUE)
  <2>1. CASE l = 1
    <3>1. todo[1].area = "iNodeBitmap" /\ todo[1].index = i /\ todo[1].value = TRUE
      BY <1>7, <2>1 DEF WriteTo
    <3>2. WritesBit
      BY <3>1, <1>5, Growing, WriteCases
         DEF MarksBlock, WritesNode, WritesUnit, Promises, WritesElse
    <3>3. IsTable(iNodeBitmap, INodes)
      BY DEF Typed, IsTable
    <3>4. Updated(iNodeBitmap', iNodeBitmap, todo[1], INodes)
      BY <3>2, <3>3, AreaEntry, Zenon DEF WritesBit
    <3> QED
      BY <1>4, <3>1, <3>4 DEF Updated, Occupied
  <2>2. CASE l # 1
    <3>1. 1 < l /\ l - 1 < k
      <4>1. l \in Nat \ {0} /\ k \in Nat
        BY <1>1, <1>2, <1>7, Zenon
      <4>2. \A x \in Nat \ {0}, y \in Nat : x < y + 1 /\ x # 1 => 1 < x /\ x - 1 < y
        OBVIOUS
      <4> QED
        BY <1>7, <2>2, <4>1, <4>2, Zenon
    <3> QED
      BY <1>1, <1>7, <3>1, Zenon
  <2> QED
    BY <2>1, <2>2
<1> QED
  BY <1>2, <1>3, <1>6, <1>7, Zenon DEF Ready

(* Only the write of an inode makes a file.                                *)
LEMMA LiveShrinks ==
  ASSUME Typed, DiskTyped, NamesInv, Write, ~WritesNode
  PROVE  Live' \subseteq Live
<1>1. /\ 1 \in DOMAIN todo
      /\ \A k \in DOMAIN todo' : k \in Nat \ {0} /\ k + 1 \in DOMAIN todo /\ todo'[k] = todo[k + 1]
  BY TailWrites DEF Write
<1>2. \A k \in NodeWrites : k \in Nat \ {0} /\
        (1 < k => k - 1 \in NodeWrites' /\ todo'[k - 1] = todo[k])
  BY NodeWritesLeft DEF Write
<1>3. 1 \notin NodeWrites \/ Formats
  BY WriteCases DEF NodeWrites, WritesBit, MarksBlock, WritesUnit, Promises, WritesElse, WritesNode,
                    Formats
<1>4. CASE Formats
  <2>1. Occupied' = {}
    BY <1>4 DEF Formats, Occupied
  <2> QED
    BY <2>1 DEF Live
<1>5. CASE 1 \notin NodeWrites /\ ~Formats
  <2>1. \A k \in NodeWrites : k - 1 \in NodeWrites' /\ todo'[k - 1] = todo[k]
    BY <1>2, <1>5
  <2>2. \A k \in NodeWrites : todo[k].index \in {todo'[l].index : l \in NodeWrites'}
    BY <2>1, Zenon
  <2>3. ASSUME NEW n \in Occupied', n \notin Occupied
        PROVE  n \in {todo'[l].index : l \in NodeWrites'}
    <3>1. n \in INodes /\ iNodeBitmap'[n] /\ ~iNodeBitmap[n]
      BY <2>3 DEF Occupied
    <3>2. WritesBit
      BY <1>5, <3>1, WriteCases DEF MarksBlock, WritesUnit, Promises, WritesElse, WritesNode
    <3>3. IsTable(iNodeBitmap, INodes) /\ iNodeBitmap[n] = FALSE
      BY <3>1 DEF Typed, IsTable
    <3>4. iNodeBitmap'[n] # iNodeBitmap[n]
      BY <3>1, <3>3
    <3>5. n = todo[1].index /\ iNodeBitmap'[n] = todo[1].value
      <4>1. Updated(iNodeBitmap', iNodeBitmap, todo[1], INodes)
        BY <3>2, <3>3, AreaEntry, Zenon DEF WritesBit
      <4> QED
        BY <3>1, <3>4, <4>1 DEF Updated
    <3>6. todo[1].area = "iNodeBitmap" /\ todo[1].value = TRUE
      BY <1>1, <3>1, <3>2, <3>5 DEF WritesBit, Typed
    <3>7. PICK l \in NodeWrites : todo[l].index = todo[1].index
      BY <1>1, <3>6, Zenon DEF NamesInv, NodeFollows
    <3> QED
      BY <2>2, <3>5, <3>7
  <2> QED
    BY <2>2, <2>3, Zenon DEF Live
<1> QED
  BY <1>3, <1>4, <1>5
-----------------------------------------------------------------------------
(* The blocks that an inode refers to, before a step and after it.         *)
LEMMA OwnRegions ==
  /\ \A n : OwnBlocks(n) = Region(iNodeTable[n])
  /\ \A n : (OwnBlocks(n) = Region(iNodeTable[n]))'
BY DEF OwnBlocks, Region

(* No harm was done before a step that leaves none.                        *)
LEMMA StillUnharmed ==
  ASSUME Write, ~misfreed', ~resurrected'
  PROVE  /\ ~misfreed /\ ~resurrected
         /\ todo[1].area = "dataBitmap" /\ ~todo[1].value /\ todo[1] = Head(todo) =>
              \A n \in Occupied : todo[1].index \notin OwnBlocks(n)
<1>1. PICK w : w = Head(todo)
  OBVIOUS
<1>2. misfreed' = (misfreed \/ /\ w.area = "dataBitmap" /\ ~w.value
                               /\ \E n \in Occupied : w.index \in OwnBlocks(n))
  BY <1>1, Zenon DEF Write
<1>3. ~misfreed /\ ~resurrected
  BY <1>2, Zenon DEF Write
<1>4. w.area = "dataBitmap" /\ ~w.value => \A n \in Occupied : w.index \notin OwnBlocks(n)
  BY <1>2, Zenon
<1> QED
  BY <1>1, <1>3, <1>4

(* The blocks of a file are its own and stay marked, as long as no rm frees *)
(* one of them: a write that is not the one of its inode ...               *)
LEMMA OtherWriteSpace ==
  ASSUME Typed, DiskTyped, NamesInv, Ordered, Write, ~WritesNode,
         ~misfreed', ~resurrected', Apart, Marked, Fitted, Marking
  PROVE  Apart' /\ Marked' /\ Fitted' /\ Marking'
<1>1. /\ 1 \in DOMAIN todo /\ Head(todo) = todo[1]
      /\ \A k \in DOMAIN todo' : k \in Nat \ {0} /\ k + 1 \in DOMAIN todo /\ todo'[k] = todo[k + 1]
      /\ \A k \in DOMAIN todo :
           k \in Nat \ {0} /\ (1 < k => k - 1 \in DOMAIN todo' /\ todo'[k - 1] = todo[k])
  BY TailWrites DEF Write
<1>2. /\ \A k \in NodeWrites' : k + 1 \in NodeWrites /\ todo'[k] = todo[k + 1] /\ k \in Nat \ {0}
  BY NodeWritesLeft DEF Write
<1>3. Live' \subseteq Live
  BY LiveShrinks
<1>4. \A k \in NodeWrites : k \in DOMAIN todo /\ Makes(todo[k])
  BY DEF NodeWrites, Makes
<1>5. CASE Formats
  <2>1. Live' = {}
    BY <1>5 DEF Formats, Live, Occupied
  <2>2. NodeWrites' = {}
    BY <1>2, <1>4, <1>5, Growing, Zenon
  <2> QED
    BY <2>1, <2>2 DEF Apart, Marked, Fitted, Marking
<1>6. CASE ~Formats
  <2>1. iNodeTable' = iNodeTable
    BY <1>6, WriteCases DEF WritesBit, MarksBlock, WritesUnit, Promises, WritesElse
  <2>2. Apart'
    BY <1>3, <2>1 DEF Apart, Region, Blocks
  <2>3. Fitted'
    BY <1>2, <1>3, <2>1 DEF Fitted, Region, Blocks
  <2>4. Marked'
    <3> SUFFICES ASSUME NEW n \in Live', NEW b \in Region(iNodeTable'[n]), b \in DataBlocks
                 PROVE  dataBitmap'[b]
      BY DEF Marked, Region, Blocks, DataBlocks
    <3>1. n \in Live /\ b \in Region(iNodeTable[n])
      BY <1>3, <2>1
    <3>2. dataBitmap[b]
      BY <3>1 DEF Marked
    <3>3. n \in Occupied /\ b \in OwnBlocks(n)
      BY <3>1, OwnRegions DEF Live
    <3>4. CASE MarksBlock
      <4>1. IsTable(dataBitmap, DataBlocks)
        BY DEF DiskTyped, IsTable
      <4>2. Updated(dataBitmap', dataBitmap, todo[1], DataBlocks)
        BY <3>4, <4>1, AreaEntry, Zenon DEF MarksBlock
      <4>3. CASE b = todo[1].index
        <5>1. todo[1].value \in BOOLEAN /\ todo[1].area = "dataBitmap"
          BY <1>1, <3>4, Zenon DEF MarksBlock, DiskTyped, GoodWrite
        <5>2. todo[1].value = TRUE
          BY <1>1, <3>3, <4>3, <5>1, StillUnharmed
        <5> QED
          BY <4>2, <4>3, <5>2 DEF Updated
      <4>4. CASE b # todo[1].index
        BY <3>2, <4>2, <4>4 DEF Updated
      <4> QED
        BY <4>3, <4>4
    <3>5. CASE dataBitmap' = dataBitmap
      BY <3>2, <3>5
    <3> QED
      BY <1>6, <3>4, <3>5, WriteCases DEF WritesBit, WritesUnit, Promises, WritesElse
  <2>5. Marking'
    <3> SUFFICES ASSUME NEW k \in NodeWrites', NEW b \in Region(todo'[k].value), b \in DataBlocks
                 PROVE  \/ dataBitmap'[b]
                        \/ \E l \in DOMAIN todo' :
                             l < k /\ todo'[l] = WriteTo("dataBitmap", b, TRUE)
      BY DEF Marking, Region, Blocks, DataBlocks, WriteTo
    <3>1. k \in Nat \ {0} /\ k + 1 \in NodeWrites /\ b \in Region(todo[k + 1].value)
      BY <1>2
    <3>2. k + 1 \in DOMAIN todo /\ Makes(todo[k + 1])
      BY <1>4, <3>1
    <3>3. CASE dataBitmap[b]
      BY <3>2, <3>3, Growing
    <3>4. ASSUME NEW l \in DOMAIN todo, l < k + 1, todo[l] = WriteTo("dataBitmap", b, TRUE)
          PROVE  \/ dataBitmap'[b]
                 \/ \E m \in DOMAIN todo' : m < k /\ todo'[m] = WriteTo("dataBitmap", b, TRUE)
      <4>1. CASE l = 1
        <5>1. todo[1].area = "dataBitmap" /\ todo[1].index = b /\ todo[1].value = TRUE
          BY <3>4, <4>1 DEF WriteTo
        <5>2. MarksBlock
          BY <1>6, <5>1, WriteCases DEF WritesBit, WritesUnit, Promises, WritesElse
        <5>3. IsTable(dataBitmap, DataBlocks)
          BY DEF DiskTyped, IsTable
        <5>4. Updated(dataBitmap', dataBitmap, todo[1], DataBlocks)
          BY <5>2, <5>3, AreaEntry, Zenon DEF MarksBlock
        <5> QED
          BY <5>1, <5>4 DEF Updated
      <4>2. CASE l # 1
        <5>1. 1 < l /\ l - 1 < k
          <6>1. l \in Nat \ {0} /\ k \in Nat
            BY <1>1, <3>1, <3>4, Zenon
          <6>2. \A x \in Nat \ {0}, y \in Nat : x < y + 1 /\ x # 1 => 1 < x /\ x - 1 < y
            OBVIOUS
          <6> QED
            BY <3>4, <4>2, <6>1, <6>2, Zenon
        <5> QED
          BY <1>1, <3>4, <5>1, Zenon
      <4> QED
        BY <4>1, <4>2
    <3> QED
      BY <3>1, <3>3, <3>4, Zenon DEF Marking
  <2> QED
    BY <2>2, <2>3, <2>4, <2>5
<1> QED
  BY <1>5, <1>6

(* ... and the one of its inode.                                           *)
LEMMA NodeWriteSpace ==
  ASSUME Typed, DiskTyped, NamesInv, Ready, Write, WritesNode, Apart, Marked, Fitted, Marking
  PROVE  /\ Apart' /\ Marked' /\ Fitted' /\ Marking'
         /\ NodeWrites = {1} /\ NodeWrites' = {}
         /\ todo[1].index \in INodes /\ iNodeTable'[todo[1].index] = todo[1].value
         /\ \A n \in INodes : n # todo[1].index => iNodeTable'[n] = iNodeTable[n]
         /\ todo[1].index \in Occupied /\ Occupied' = Occupied
<1>1. /\ 1 \in DOMAIN todo
      /\ \A k \in DOMAIN todo : k \in Nat \ {0}
  BY TailWrites DEF Write
<1>2. /\ \A k \in NodeWrites' : k + 1 \in NodeWrites /\ k \in Nat \ {0}
  BY NodeWritesLeft DEF Write
<1>3. 1 \in NodeWrites
  BY <1>1 DEF NodeWrites, WritesNode
<1>4. NodeWrites = {1}
  BY <1>3 DEF NamesInv, OneNode
<1>5. NodeWrites' = {}
  BY <1>2, <1>4
<1>6. PICK i, node : i = todo[1].index /\ node = todo[1].value
  OBVIOUS
<1>7. i \in INodes
  BY <1>1, <1>6 DEF WritesNode, DiskTyped, GoodWrite
<1>8. Occupied' = Occupied
  BY DEF WritesNode, Occupied
<1>9. i \in Occupied
  <2>1. CASE \E l \in DOMAIN todo : l < 1
    BY <1>1, <2>1
  <2> QED
    BY <1>3, <1>6, <2>1, Zenon DEF Ready
<1>10. Updated(iNodeTable', iNodeTable, todo[1], INodes)
  <2>1. IsTable(iNodeTable, INodes)
    BY DEF Typed, IsTable
  <2> QED
    BY <2>1, AreaEntry, Zenon DEF WritesNode
<1>11. iNodeTable'[i] = node /\ \A n \in INodes : n # i => iNodeTable'[n] = iNodeTable[n]
  BY <1>6, <1>7, <1>10, Zenon DEF Updated
<1>12. Live' = Occupied /\ Live = Occupied \ {i} /\ Occupied \subseteq INodes
  BY <1>4, <1>5, <1>6, <1>8 DEF Live, Occupied
<1>13. \A m \in Live : Region(node) \cap Region(iNodeTable[m]) = {}
  BY <1>3, <1>6 DEF Fitted
<1>14. \A b \in Region(node) \cap DataBlocks : dataBitmap[b]
  <2> SUFFICES ASSUME NEW b \in Region(node) \cap DataBlocks
               PROVE  dataBitmap[b]
    OBVIOUS
  <2>1. ~ \E l \in DOMAIN todo : l < 1
    BY <1>1
  <2> QED
    BY <1>3, <1>6, <2>1, Zenon DEF Marking
<1>15. \A n \in Live' : n = i \/ (n \in Live /\ iNodeTable'[n] = iNodeTable[n])
  BY <1>11, <1>12
<1>16. dataBitmap' = dataBitmap
  BY DEF WritesNode
<1>17. Apart'
  <2> SUFFICES ASSUME NEW m \in Live', NEW n \in Live', m # n
               PROVE  Region(iNodeTable'[m]) \cap Region(iNodeTable'[n]) = {}
    BY DEF Apart, Region, Blocks
  <2>1. CASE m = i
    BY <1>11, <1>13, <1>15, <2>1
  <2>2. CASE n = i
    BY <1>11, <1>13, <1>15, <2>2
  <2>3. CASE m # i /\ n # i
    BY <1>15, <2>3 DEF Apart
  <2> QED
    BY <2>1, <2>2, <2>3
<1>18. Marked'
  <2> SUFFICES ASSUME NEW n \in Live', NEW b \in Region(iNodeTable'[n]), b \in DataBlocks
               PROVE  dataBitmap'[b]
    BY DEF Marked, Region, Blocks, DataBlocks
  <2>1. CASE n = i
    BY <1>11, <1>14, <1>16, <2>1
  <2>2. CASE n # i
    BY <1>15, <1>16, <2>2 DEF Marked
  <2> QED
    BY <2>1, <2>2
<1>19. Fitted' /\ Marking'
  BY <1>5 DEF Fitted, Marking
<1> QED
  BY <1>4, <1>5, <1>6, <1>7, <1>8, <1>9, <1>11, <1>17, <1>18, <1>19

(* So every write keeps the blocks apart.                                  *)
LEMMA WriteSpace ==
  ASSUME Typed, DiskTyped, NamesInv, Ordered, Ready, SpaceInv, Write
  PROVE  SpaceInv'
<1> SUFFICES ASSUME ~misfreed', ~resurrected'
             PROVE  Apart' /\ Marked' /\ Fitted' /\ Marking'
  BY DEF SpaceInv
<1>1. Apart /\ Marked /\ Fitted /\ Marking
  BY StillUnharmed DEF SpaceInv
<1> QED
  BY <1>1, OtherWriteSpace, NodeWriteSpace

(* A kill before the inode is written leaves one that has no blocks.       *)
LEMMA KillSpace ==
  ASSUME Typed, DiskTyped, SpaceInv, Kill
  PROVE  DiskTyped' /\ Ordered' /\ Ready' /\ SpaceInv'
<1>1. /\ todo' = <<>> /\ image' = image /\ iNodeBitmap' = iNodeBitmap /\ dataBitmap' = dataBitmap
      /\ iNodeTable' = iNodeTable /\ data' = data /\ promised' = promised /\ misfreed' = misfreed
      /\ commands' = commands /\ kills < MaxKills /\ kills' = kills + 1
  BY DEF Kill, disk
<1>2. NodeWrites' = {} /\ Occupied' = Occupied
  BY <1>1 DEF NodeWrites, Occupied
<1>3. resurrected' \in BOOLEAN
  BY DEF Kill
<1>4. DiskTyped'
  BY <1>1, <1>3, DiskAssumption DEF DiskTyped, IsTable, Sound
<1>5. Ordered' /\ Ready'
  BY <1>1, <1>2 DEF Ordered, Ready
<1>6. SpaceInv'
  <2> SUFFICES ASSUME ~misfreed', ~resurrected'
               PROVE  Apart' /\ Marked' /\ Fitted' /\ Marking'
    BY DEF SpaceInv
  <2>1. ~misfreed /\ ~resurrected /\ \A k \in NodeWrites :
          ~iNodeBitmap[todo[k].index] \/ iNodeTable[todo[k].index].name = NoName
    <3>1. ~misfreed
      BY <1>1
    <3> QED
      BY <3>1, Zenon DEF Kill, NodeWrites
  <2>2. Apart /\ Marked
    BY <2>1 DEF SpaceInv
  <2>3. \A n \in Occupied : n \in Live \/ Region(iNodeTable[n]) = {}
    <3> SUFFICES ASSUME NEW k \in NodeWrites, todo[k].index \in Occupied
                 PROVE  Region(iNodeTable[todo[k].index]) = {}
      BY DEF Live
    <3>1. iNodeTable[todo[k].index].name = NoName /\ todo[k].index \in INodes
      BY <2>1 DEF Occupied
    <3>2. iNodeTable[todo[k].index].size = 0
      BY <3>1 DEF DiskTyped, Sound
    <3> QED
      BY <3>2 DEF Region
  <2>4. Live' = Occupied
    BY <1>2 DEF Live
  <2>5. Apart'
    BY <1>1, <2>2, <2>3, <2>4 DEF Apart, Region, Blocks
  <2>6. Marked'
    BY <1>1, <2>2, <2>3, <2>4 DEF Marked, Region, Blocks, DataBlocks
  <2> QED
    BY <1>2, <2>5, <2>6 DEF Fitted, Marking
<1> QED
  BY <1>4, <1>5, <1>6
-----------------------------------------------------------------------------
(* The writes of a command that creates the file f with the contents s in  *)
(* inode n: first the bit of the inode, then those of the blocks, the      *)
(* inode, the units and the promise.                                       *)
UnitWrite(w, node, s) ==
  /\ w.area = "data" /\ w.index \in Units
  /\ \E b \in Region(node) : w.index \in UnitsOf(b)
  /\ \A i \in 1 .. Len(s) : w.index = Place(node, i) => w.value = s[i]

OneOf(w, k, n, node, f, s, p, q) ==
  \/ k = 1 /\ w = WriteTo("iNodeBitmap", n, TRUE)
  \/ w.area = "dataBitmap" /\ w.value = TRUE
  \/ k = p /\ w = WriteTo("iNodeTable", n, node)
  \/ UnitWrite(w, node, s)
  \/ k = q /\ w = WriteTo("promise", f, s)

Making(writes, n, node, f, s, p, q) ==
  /\ DOMAIN writes = 1 .. q /\ 1 < p /\ p < q /\ p \in Nat /\ q \in Nat
  /\ writes[1] = WriteTo("iNodeBitmap", n, TRUE)
  /\ writes[p] = WriteTo("iNodeTable", n, node)
  /\ writes[q] = WriteTo("promise", f, s)
  /\ \A k \in 1 .. q : OneOf(writes[k], k, n, node, f, s, p, q)
  /\ \A b \in Region(node) : \E l \in 1 .. q : l < p /\ writes[l] = WriteTo("dataBitmap", b, TRUE)
  /\ \A i \in 1 .. Len(s) : \E l \in 1 .. q :
       writes[l].area = "data" /\ writes[l].index = Place(node, i)

(* Where they are of the areas that matter.                                *)
Spread(writes, node, s, p, q) ==
  \A k \in DOMAIN writes :
    /\ k \in Nat
    /\ writes[k].area \in {"iNodeBitmap", "dataBitmap", "iNodeTable", "data", "promise"}
    /\ writes[k].area \in {"iNodeBitmap", "dataBitmap"} => writes[k].value = TRUE
    /\ writes[k].area = "iNodeBitmap" => k = 1
    /\ writes[k].area = "iNodeTable" => k = p
    /\ writes[k].area = "data" => UnitWrite(writes[k], node, s)
    /\ writes[k].area = "promise" => k = q

(* They are in the order in which such a command makes them.               *)
LEMMA MakingAreas ==
  ASSUME NEW n, NEW node, NEW f, NEW s, NEW p, NEW q, NEW writes,
         Making(writes, n, node, f, s, p, q)
  PROVE  Spread(writes, node, s, p, q)
<1> SUFFICES ASSUME NEW k \in 1 .. q
             PROVE  /\ k \in Nat
                    /\ writes[k].area \in
                         {"iNodeBitmap", "dataBitmap", "iNodeTable", "data", "promise"}
                    /\ writes[k].area \in {"iNodeBitmap", "dataBitmap"} => writes[k].value = TRUE
                    /\ writes[k].area = "iNodeBitmap" => k = 1
                    /\ writes[k].area = "iNodeTable" => k = p
                    /\ writes[k].area = "data" => UnitWrite(writes[k], node, s)
                    /\ writes[k].area = "promise" => k = q
  BY DEF Making, Spread
<1>1. PICK w : w = writes[k]
  OBVIOUS
<1>2. OneOf(w, k, n, node, f, s, p, q)
  BY <1>1, Zenon DEF Making
<1>3. UnitWrite(w, node, s) => w.area = "data"
  BY Zenon DEF UnitWrite
<1> QED
  BY <1>1, <1>2, <1>3 DEF OneOf, WriteTo

(* Two files have no block in common if those of the one are marked and    *)
(* those of the other are not: both start in the data region, and past its *)
(* end they would share its last block.                                    *)
LEMMA FreeRegion ==
  ASSUME NEW node, Sound(node), NEW other, Sound(other),
         \A b \in Region(node) \cap DataBlocks : ~dataBitmap[b],
         \A b \in Region(other) \cap DataBlocks : dataBitmap[b]
  PROVE  Region(node) \cap Region(other) = {}
<1> SUFFICES ASSUME NEW c \in Region(node), c \in Region(other)
             PROVE  FALSE
  OBVIOUS
<1>1. node.size # 0 /\ other.size # 0
  BY DEF Region
<1>2. PICK i, m, j, l : /\ i \in DataBlocks /\ m \in Nat /\ Region(node) = i .. i + m - 1
                        /\ j \in DataBlocks /\ l \in Nat /\ Region(other) = j .. j + l - 1
  BY <1>1, RegionBlocks
<1>3. c \notin DataBlocks
  OBVIOUS
<1>4. FS_DATA_BLOCKS \in Nat \ {0}
  BY DiskAssumption
<1>5. FS_DATA_BLOCKS - 1 \in DataBlocks
  BY <1>4 DEF DataBlocks
<1>6. FS_DATA_BLOCKS - 1 \in Region(node) /\ FS_DATA_BLOCKS - 1 \in Region(other)
  BY <1>2, <1>3, <1>4 DEF DataBlocks
<1> QED
  BY <1>5, <1>6

(* A command that creates a file.                                          *)
LEMMA MakingStep ==
  ASSUME Typed, DiskTyped, SpaceInv, todo = <<>>,
         NEW f \in Names, NEW n \in INodes, n \notin Occupied, NEW node, Sound(node), node.name = f,
         NEW s, IsSeq(s), NEW p, NEW q, Making(todo', n, node, f, s, p, q),
         \A b \in Region(node) \cap DataBlocks : ~dataBitmap[b],
         image' = image, iNodeBitmap' = iNodeBitmap, dataBitmap' = dataBitmap,
         iNodeTable' = iNodeTable, data' = data, promised' = promised, misfreed' = misfreed,
         resurrected' = resurrected, kills' = kills, commands < MaxCommands,
         commands' = commands + 1
  PROVE  /\ DiskTyped' /\ Ordered' /\ Ready' /\ SpaceInv'
         /\ NodeWrites' = {p} /\ todo'[p].index = n /\ todo'[p].value = node
<1>1. /\ DOMAIN todo' = 1 .. q /\ 1 \in 1 .. q /\ p \in 1 .. q /\ q \in 1 .. q
      /\ 1 < p
  BY DEF Making
<1>2. /\ todo'[1] = WriteTo("iNodeBitmap", n, TRUE)
      /\ todo'[p].area = "iNodeTable" /\ todo'[p].index = n /\ todo'[p].value = node
      /\ todo'[q].area = "promise" /\ todo'[q].index = f /\ todo'[q].value = s
  BY DEF Making, WriteTo
<1>3. \A k \in DOMAIN todo' :
        /\ k \in Nat
        /\ todo'[k].area \in {"iNodeBitmap", "dataBitmap", "iNodeTable", "data", "promise"}
        /\ todo'[k].area \in {"iNodeBitmap", "dataBitmap"} => todo'[k].value = TRUE
        /\ todo'[k].area = "iNodeTable" => k = p
        /\ todo'[k].area = "data" => todo'[k].index \in Units
        /\ todo'[k].area = "promise" => k = q
  <2>1. Spread(todo', node, s, p, q)
    BY MakingAreas, Zenon
  <2> QED
    BY <2>1 DEF Spread, UnitWrite
<1>4. NodeWrites' = {p}
  BY <1>1, <1>2, <1>3 DEF NodeWrites
<1>5. NodeWrites = {} /\ Live = Occupied /\ Occupied' = Occupied
  BY DEF NodeWrites, Live, Occupied
<1>6. DiskTyped'
  <2>1. \A k \in DOMAIN todo' : GoodWrite(todo'[k])
    <3> SUFFICES ASSUME NEW k \in DOMAIN todo'
                 PROVE  GoodWrite(todo'[k])
      OBVIOUS
    <3>1. todo'[k].area = "iNodeTable" =>
            todo'[k].index \in INodes /\ Sound(todo'[k].value) /\ todo'[k].value.name \in Names
      BY <1>2, <1>3, Zenon
    <3>2. todo'[k].area = "promise" => todo'[k].index \in Names /\ IsSeq(todo'[k].value)
      BY <1>2, <1>3, Zenon
    <3>3. todo'[k].area # "image" /\ (todo'[k].area = "dataBitmap" => todo'[k].value \in BOOLEAN)
          /\ (todo'[k].area = "data" => todo'[k].index \in Units)
      BY <1>3
    <3> QED
      BY <3>1, <3>2, <3>3, Zenon DEF GoodWrite
  <2>2. commands' \in 0 .. MaxCommands
    BY DiskAssumption DEF DiskTyped
  <2>3. (\A k \in DOMAIN todo : GoodWrite(todo[k]))'
    BY <2>1 DEF GoodWrite, Sound
  <2> QED
    BY <2>2, <2>3 DEF DiskTyped, IsTable, Sound
<1>7. Ordered'
  <2>1. \A k \in DOMAIN todo' : ~Undoes(todo'[k])
    BY <1>3 DEF Undoes
  <2>2. \A k, l \in DOMAIN todo' : todo'[k].area = "promise" => l <= k
    BY <1>1, <1>3
  <2>3. \E k \in DOMAIN todo' : todo'[k].area = "promise"
    BY <1>1, <1>2
  <2> QED
    BY <2>1, <2>2, <2>3, Zenon DEF Ordered, Undoes
<1>8. Ready'
  <2>1. \E l \in DOMAIN todo' : l < p /\ todo'[l] = WriteTo("iNodeBitmap", todo'[p].index, TRUE)
    BY <1>1, <1>2, Zenon
  <2> QED
    BY <1>4, <2>1 DEF Ready, WriteTo
<1>9. SpaceInv'
  <2> SUFFICES ASSUME ~misfreed, ~resurrected
               PROVE  Apart' /\ Marked' /\ Fitted' /\ Marking'
    BY DEF SpaceInv
  <2>1. Apart /\ Marked
    BY DEF SpaceInv
  <2>2. Live' = Occupied
    BY <1>2, <1>4, <1>5 DEF Live
  <2>3. Apart' /\ Marked'
    BY <1>5, <2>1, <2>2 DEF Apart, Marked, Region, Blocks, DataBlocks
  <2>4. Fitted'
    <3>1. \A m \in Occupied : Region(node) \cap Region(iNodeTable[m]) = {}
      <4> SUFFICES ASSUME NEW m \in Occupied
                   PROVE  Region(node) \cap Region(iNodeTable[m]) = {}
        OBVIOUS
      <4>1. Sound(iNodeTable[m])
        BY DEF DiskTyped, Occupied
      <4>2. \A b \in Region(iNodeTable[m]) \cap DataBlocks : dataBitmap[b]
        BY <1>5, <2>1 DEF Marked
      <4> QED
        BY <4>1, <4>2, FreeRegion
    <3> QED
      BY <1>2, <1>4, <2>2, <3>1 DEF Fitted, Region, Blocks
  <2>5. Marking'
    <3>1. \A b \in Region(node) :
            \E l \in 1 .. q : l < p /\ todo'[l] = WriteTo("dataBitmap", b, TRUE)
      BY Zenon DEF Making
    <3> QED
      BY <1>1, <1>2, <1>4, <3>1 DEF Marking, Region, Blocks, WriteTo
  <2> QED
    BY <2>3, <2>4, <2>5
<1> QED
  BY <1>2, <1>4, <1>6, <1>7, <1>8, <1>9
-----------------------------------------------------------------------------
(* A command that creates f with the contents s in inode n starts.         *)
Starts(f, n, node, s) ==
  /\ todo = <<>> /\ image = "made" /\ ~Exists(f)
  /\ n \in INodes /\ n \notin Occupied
  /\ Sound(node) /\ node.name = f
  /\ IsSeq(s) /\ Sized(node, s)
  /\ \A b \in Region(node) \cap DataBlocks : ~dataBitmap[b]
  /\ \E p, q : Making(todo', n, node, f, s, p, q)
  /\ image' = image /\ iNodeBitmap' = iNodeBitmap /\ dataBitmap' = dataBitmap
  /\ iNodeTable' = iNodeTable /\ data' = data /\ promised' = promised
  /\ misfreed' = misfreed /\ resurrected' = resurrected
  /\ kills' = kills /\ commands < MaxCommands /\ commands' = commands + 1

(* touch does so with no contents.                                         *)
LEMMA TouchStarts ==
  ASSUME Typed, DiskTyped, NEW f \in Names, touch(f)
  PROVE  \E n, node, s : Starts(f, n, node, s)
<1>1. PICK n : n = Min(INodes \ Occupied)
  OBVIOUS
<1>2. n \in INodes /\ n \notin Occupied
  BY <1>1, FreeINode DEF touch
<1>3. PICK node : node = [iNodeTable[n] EXCEPT !.size = 0, !.name = f]
  OBVIOUS
<1>4. node.size = 0 /\ node.name = f /\ node.startingBlock = iNodeTable[n].startingBlock
  BY <1>2, <1>3 DEF Typed, INodeRecords
<1>5. PICK a, b, c : /\ a = WriteTo("iNodeBitmap", n, TRUE)
                     /\ b = WriteTo("iNodeTable", n, node)
                     /\ c = WriteTo("promise", f, <<>>)
  OBVIOUS
<1>6. todo' = <<a, b, c>>
  BY <1>1, <1>3, <1>5, Zenon DEF touch, Command
<1>7. Sound(node)
  BY <1>2, <1>4, DiskAssumption DEF DiskTyped, Sound
<1>8. Region(node) = {} /\ Len(<<>>) = 0
  BY <1>4 DEF Region
<1>9. IsSeq(<<>>) /\ Sized(node, <<>>)
  BY <1>4 DEF IsSeq, Sized
<1>10. Making(todo', n, node, f, <<>>, 2, 3)
  <2>1. DOMAIN todo' = 1 .. 3 /\ todo'[1] = a /\ todo'[2] = b /\ todo'[3] = c
    BY <1>6
  <2>2. \A k \in 1 .. 3 : OneOf(todo'[k], k, n, node, f, <<>>, 2, 3)
    <3> SUFFICES ASSUME NEW k \in 1 .. 3
                 PROVE  OneOf(todo'[k], k, n, node, f, <<>>, 2, 3)
      OBVIOUS
    <3>1. k = 1 \/ k = 2 \/ k = 3
      OBVIOUS
    <3> QED
      BY <1>5, <2>1, <3>1, Zenon DEF OneOf
  <2>3. 1 < 2 /\ 2 < 3 /\ 2 \in Nat /\ 3 \in Nat
    OBVIOUS
  <2>4. /\ \A d \in Region(node) :
             \E l \in 1 .. 3 : l < 2 /\ todo'[l] = WriteTo("dataBitmap", d, TRUE)
        /\ \A i \in 1 .. Len(<<>>) : \E l \in 1 .. 3 :
             todo'[l].area = "data" /\ todo'[l].index = Place(node, i)
    BY <1>8
  <2> QED
    BY <1>5, <2>1, <2>2, <2>3, <2>4, Zenon DEF Making
<1>11. /\ todo = <<>> /\ image = "made" /\ ~Exists(f)
       /\ image' = image /\ iNodeBitmap' = iNodeBitmap /\ dataBitmap' = dataBitmap
       /\ iNodeTable' = iNodeTable /\ data' = data /\ promised' = promised
       /\ misfreed' = misfreed /\ resurrected' = resurrected
       /\ kills' = kills /\ commands < MaxCommands /\ commands' = commands + 1
  BY DEF touch, Command, disk, history
<1>12. Starts(f, n, node, <<>>)
  BY <1>2, <1>4, <1>7, <1>8, <1>9, <1>10, <1>11 DEF Starts
<1> QED
  BY <1>12

(* A unit that cp writes is one of the disk and of the file.               *)
LEMMA CpUnit ==
  ASSUME NEW node, Sound(node), NEW j \in DataBlocks, node.startingBlock = dataBlockOffset + j,
         j + Blocks(node.size) <= 2 * FS_DATA_BLOCKS, NEW s, NEW source,
         \A i \in 1 .. Len(s) : source[i] = s[i],
         NEW k \in 1 .. node.size
  PROVE  UnitWrite(WriteTo("data", j * BLOCK + k - 1, source[k]), node, s)
<1>1. PICK w : w = WriteTo("data", j * BLOCK + k - 1, source[k])
  OBVIOUS
<1>2. w.area = "data" /\ w.index = j * BLOCK + k - 1 /\ w.value = source[k]
  BY <1>1 DEF WriteTo
<1>3. \A i : Place(node, i) = j * BLOCK + i - 1
  <2>1. node.startingBlock - dataBlockOffset = j
    BY DiskAssumption DEF dataBlockOffset, DataBlocks
  <2> QED
    BY <2>1 DEF Place
<1>4. PICK b \in Region(node) : w.index \in UnitsOf(b)
  BY <1>2, <1>3, PlaceInRegion
<1>5. w.index \in Units
  <2>1. PICK d \in Nat \ {0}, m \in Nat : d = BLOCK /\ m = FS_DATA_BLOCKS
    BY DiskAssumption
  <2>2. node.size # 0 /\ node.size \in Nat
    BY DiskAssumption DEF Sound
  <2>3. b \in Nat /\ b + 1 <= 2 * m
    <3>1. j \in Nat
      BY DiskAssumption DEF DataBlocks
    <3>2. PICK blocks \in Nat : blocks = Blocks(node.size)
      BY <2>2, BlocksNat
    <3>3. node.startingBlock - dataBlockOffset = j
      BY <3>1 DEF dataBlockOffset
    <3>4. Region(node) = j .. j + blocks - 1
      BY <2>2, <3>2, <3>3, RegionBlocks, Zenon
    <3> QED
      BY <2>1, <3>1, <3>2, <3>4
  <2>4. (b + 1) * d <= (2 * m) * d /\ (b + 1) * d = b * d + d /\ b * d \in Nat
    BY <2>3
  <2>5. (2 * m) * d = 2 * m * d /\ 2 * m * d \in Nat
    OBVIOUS
  <2>6. w.index \in b * d .. b * d + d - 1 /\ Units = 0 .. 2 * m * d - 1
    BY <1>4, <2>1 DEF UnitsOf, Units
  <2> QED
    BY <2>4, <2>5, <2>6
<1>6. \A i \in 1 .. Len(s) : w.index = Place(node, i) => w.value = s[i]
  <2> SUFFICES ASSUME NEW i \in 1 .. Len(s), w.index = Place(node, i)
               PROVE  w.value = s[i]
    OBVIOUS
  <2>1. j * BLOCK \in Int
    BY DiskAssumption DEF DataBlocks
  <2>2. i \in Int /\ k \in Int
    OBVIOUS
  <2>3. k = i
    <3>1. j * BLOCK + k - 1 = j * BLOCK + i - 1
      BY <1>2, <1>3
    <3>2. PICK x \in Int : x = j * BLOCK
      BY <2>1
    <3> QED
      BY <2>2, <3>1, <3>2
  <2> QED
    BY <1>2, <2>3
<1> QED
  BY <1>1, <1>2, <1>4, <1>5, <1>6 DEF UnitWrite
-----------------------------------------------------------------------------
(* The place of the bit of block d among the writes of cp ...              *)
LEMMA BitPlace ==
  ASSUME NEW blocks \in Nat, NEW j \in Nat, NEW d \in j .. j + blocks - 1
  PROVE  \E l \in 2 .. blocks + 1 : l - 1 \in 1 .. blocks /\ j + (l - 1) - 1 = d
<1>1. /\ d - j + 2 \in 2 .. blocks + 1 /\ (d - j + 2) - 1 \in 1 .. blocks
      /\ j + ((d - j + 2) - 1) - 1 = d
  OBVIOUS
<1> QED
  BY <1>1

(* ... comes before that of the inode ...                                  *)
LEMMA BitBefore ==
  ASSUME NEW blocks \in Nat, NEW size \in Nat, NEW l \in 2 .. blocks + 1,
         NEW p, p = blocks + 2, NEW q, q = blocks + size + 3
  PROVE  l \in 1 .. q /\ l < p
OBVIOUS

(* ... and that of its i-th unit.                                          *)
LEMMA UnitPlace ==
  ASSUME NEW blocks \in Nat, NEW size \in Nat, NEW i \in 1 .. size,
         NEW l, l = blocks + 2 + i, NEW q, q = blocks + size + 3
  PROVE  l \in blocks + 3 .. q - 1 /\ l \in 1 .. q /\ l - blocks - 2 = i
OBVIOUS

(* Writes that are laid out like those of cp are such writes.              *)
LEMMA LaidMaking ==
  ASSUME NEW f, NEW n, NEW node, Sound(node), NEW j \in DataBlocks,
         node.startingBlock = dataBlockOffset + j,
         NEW blocks \in Nat, blocks = Blocks(node.size), NEW size \in Nat, size = node.size,
         j + blocks <= 2 * FS_DATA_BLOCKS, NEW s, NEW source, IsSeq(s), Len(s) <= size,
         \A i \in 1 .. Len(s) : source[i] = s[i],
         NEW a, a = WriteTo("iNodeBitmap", n, TRUE),
         NEW u, \A z \in 1 .. blocks : u[z] = WriteTo("dataBitmap", j + z - 1, TRUE),
         NEW b, b = WriteTo("iNodeTable", n, node),
         NEW v, \A k \in 1 .. size : v[k] = WriteTo("data", j * BLOCK + k - 1, source[k]),
         NEW c, c = WriteTo("promise", f, s),
         NEW S, NEW writes, Laid(writes, a, u, b, v, c, blocks, size, S),
         NEW p, p = blocks + 2, NEW q, q = blocks + size + 3
  PROVE  Making(writes, n, node, f, s, p, q)
<1>9. /\ DOMAIN writes = 1 .. q /\ Len(writes) = q
      /\ writes[1] = a /\ writes[p] = b /\ writes[q] = c
      /\ \A k \in 2 .. blocks + 1 : writes[k] = u[k - 1]
      /\ \A k \in blocks + 3 .. q - 1 : writes[k] = v[k - blocks - 2]
  BY DEF Laid
<1>10. 1 < p /\ p < q /\ p \in Nat /\ q \in Nat
  OBVIOUS
<1>13. \A k \in 1 .. size : UnitWrite(v[k], node, s)
  <2>1. \A k \in 1 .. size : UnitWrite(WriteTo("data", j * BLOCK + k - 1, source[k]), node, s)
    BY CpUnit
  <2> QED
    BY <2>1
<1>14. \A k \in 1 .. q : OneOf(writes[k], k, n, node, f, s, p, q)
  <2> SUFFICES ASSUME NEW k \in 1 .. q
               PROVE  OneOf(writes[k], k, n, node, f, s, p, q)
    OBVIOUS
  <2>1. k = 1 \/ k \in 2 .. blocks + 1 \/ k = p \/ k \in blocks + 3 .. q - 1 \/ k = q
    BY SMTT(30)
  <2>2. CASE k = 1
    BY <1>9, <2>2, Zenon DEF OneOf
  <2>3. CASE k \in 2 .. blocks + 1
    <3>1. k - 1 \in 1 .. blocks
      BY <2>3
    <3>2. writes[k] = WriteTo("dataBitmap", j + (k - 1) - 1, TRUE)
      BY <1>9, <2>3, <3>1, Zenon
    <3>3. writes[k].area = "dataBitmap" /\ writes[k].value = TRUE
      BY <3>2 DEF WriteTo
    <3> QED
      BY <3>3, Zenon DEF OneOf
  <2>4. CASE k = p
    BY <1>9, <2>4, Zenon DEF OneOf
  <2>5. CASE k \in blocks + 3 .. q - 1
    <3>1. k - blocks - 2 \in 1 .. size
      BY <2>5, SMTT(30)
    <3>2. UnitWrite(writes[k], node, s)
      BY <1>9, <1>13, <2>5, <3>1, Zenon
    <3> QED
      BY <3>2, Zenon DEF OneOf
  <2>6. CASE k = q
    BY <1>9, <2>6, Zenon DEF OneOf
  <2> QED
    BY <2>1, <2>2, <2>3, <2>4, <2>5, <2>6
<1>15. j \in Nat /\ node.startingBlock - dataBlockOffset = j
  BY DiskAssumption DEF DataBlocks, dataBlockOffset
<1>16. ASSUME NEW d \in Region(node)
       PROVE  \E l \in 1 .. q : l < p /\ writes[l] = WriteTo("dataBitmap", d, TRUE)
  <2>1. node.size # 0
    BY DEF Region
  <2>2. d \in j .. j + blocks - 1
    BY <1>15, <2>1, RegionBlocks
  <2>3. j \in Nat
    BY <1>15
  <2>4. PICK l \in 2 .. blocks + 1 : l - 1 \in 1 .. blocks /\ j + (l - 1) - 1 = d
    BY <2>2, <2>3, BitPlace, Zenon
  <2>5. writes[l] = WriteTo("dataBitmap", d, TRUE)
    BY <1>9, <2>4, Zenon
  <2>6. l \in 1 .. q /\ l < p
    BY BitBefore, Zenon
  <2> QED
    BY <2>5, <2>6
<1>17. ASSUME NEW i \in 1 .. Len(s)
       PROVE  \E l \in 1 .. q : writes[l].area = "data" /\ writes[l].index = Place(node, i)
  <2>1. i \in 1 .. size
    BY DEF IsSeq
  <2>2. i \in Nat /\ 1 <= i /\ i <= size
    BY <2>1
  <2>3. PICK l \in Nat : l = blocks + 2 + i
    BY <2>2
  <2>4. l \in blocks + 3 .. q - 1 /\ l \in 1 .. q
    BY <2>1, <2>3, UnitPlace, Zenon
  <2>5. l - blocks - 2 = i
    <3>1. (blocks + 2 + i) - blocks - 2 = i
      BY <2>2
    <3> QED
      BY <2>3, <3>1, Zenon
  <2>6. writes[l] = WriteTo("data", j * BLOCK + i - 1, source[i])
    BY <1>9, <2>1, <2>4, <2>5, Zenon
  <2>7. Place(node, i) = j * BLOCK + i - 1
    BY <1>15, Zenon DEF Place
  <2>8. writes[l].area = "data" /\ writes[l].index = Place(node, i)
    BY <2>6, <2>7 DEF WriteTo
  <2> QED
    BY <2>4, <2>8
<1> QED
  BY <1>9, <1>10, <1>14, <1>16, <1>17, Zenon DEF Making

(* The writes of cp are laid out so.                                       *)
LEMMA CpMaking ==
  ASSUME NEW f, NEW n, NEW node, Sound(node), NEW j \in DataBlocks,
         node.startingBlock = dataBlockOffset + j,
         NEW blocks \in Nat, blocks = Blocks(node.size), NEW size \in Nat, size = node.size,
         j + blocks <= 2 * FS_DATA_BLOCKS, NEW s, NEW source, IsSeq(s), Len(s) <= size,
         \A i \in 1 .. Len(s) : source[i] = s[i],
         NEW writes,
         writes = <<WriteTo("iNodeBitmap", n, TRUE)>>
                  \o [z \in 1..blocks |-> WriteTo("dataBitmap", j + z - 1, TRUE)]
                  \o <<WriteTo("iNodeTable", n, node)>>
                  \o [k \in 1..size |-> WriteTo("data", j * BLOCK + k - 1, source[k])]
                  \o <<WriteTo("promise", f, s)>>
  PROVE  Making(writes, n, node, f, s, blocks + 2, blocks + size + 3)
<1>1. PICK a, u, b, v, c :
        /\ a = WriteTo("iNodeBitmap", n, TRUE)
        /\ u = [z \in 1..blocks |-> WriteTo("dataBitmap", j + z - 1, TRUE)]
        /\ b = WriteTo("iNodeTable", n, node)
        /\ v = [k \in 1..size |-> WriteTo("data", j * BLOCK + k - 1, source[k])]
        /\ c = WriteTo("promise", f, s)
  OBVIOUS
<1>2. PICK S : S = {a, b, c} \cup {u[z] : z \in 1..blocks} \cup {v[k] : k \in 1..size}
  OBVIOUS
<1>3. /\ a \in S /\ b \in S /\ c \in S
      /\ \A z \in 1..blocks : u[z] \in S
      /\ \A k \in 1..size : v[k] \in S
  BY <1>2, Zenon
<1>4. u = [z \in 1..blocks |-> u[z]] /\ v = [k \in 1..size |-> v[k]]
  BY <1>1
<1>5. u \in Seq(S) /\ Len(u) = blocks /\ v \in Seq(S) /\ Len(v) = size
  BY <1>3, <1>4, FunctionInSeq, Zenon
<1>6. writes = <<a>> \o u \o <<b>> \o v \o <<c>>
  BY <1>1, Zenon
<1>7. Laid(writes, a, u, b, v, c, blocks, size, S)
  BY <1>3, <1>5, <1>6, Parts, Zenon
<1>8. /\ \A z \in 1 .. blocks : u[z] = WriteTo("dataBitmap", j + z - 1, TRUE)
      /\ \A k \in 1 .. size : v[k] = WriteTo("data", j * BLOCK + k - 1, source[k])
  BY <1>1
<1> QED
  BY <1>1, <1>7, <1>8, LaidMaking, Zenon

(* cp so starts with what it can read of the host's file.                  *)
LEMMA CpStarts ==
  ASSUME Typed, DiskTyped, NEW f \in Names, cp(f)
  PROVE  \E n, node, s : Starts(f, n, node, s)
<1>1. PICK edge \in FS_DATA_BLOCKS .. 2 * FS_DATA_BLOCKS, source \in Sources(f) :
        LET n == Min(INodes \ Occupied)
            size == Len(source)
            j == Min(Room(Blocks(size), edge))
        IN  /\ Room(Blocks(size), edge) # {}
            /\ todo = <<>>
            /\ todo' =
                 <<WriteTo("iNodeBitmap", n, TRUE)>>
                 \o [z \in 1..Blocks(size) |-> WriteTo("dataBitmap", j + z - 1, TRUE)]
                 \o <<WriteTo("iNodeTable", n,
                        [startingBlock |-> dataBlockOffset + j, size |-> size, name |-> f])>>
                 \o [k \in 1..size |-> WriteTo("data", j * BLOCK + k - 1, source[k])]
                 \o <<WriteTo("promise", f, Readable(f))>>
  BY Zenon DEF cp, Command
<1>2. PICK n, size, j :
        n = Min(INodes \ Occupied) /\ size = Len(source) /\ j = Min(Room(Blocks(size), edge))
  OBVIOUS
<1>3. PICK node, blocks, s :
        /\ node = [startingBlock |-> dataBlockOffset + j, size |-> size, name |-> f]
        /\ blocks = Blocks(size) /\ s = Readable(f)
  OBVIOUS
<1>4. node.startingBlock = dataBlockOffset + j /\ node.size = size /\ node.name = f
  BY <1>3
<1>5. /\ todo = <<>> /\ image = "made" /\ ~Exists(f) /\ host[f] # Nothing /\ Occupied # INodes
      /\ image' = image /\ iNodeBitmap' = iNodeBitmap /\ dataBitmap' = dataBitmap
      /\ iNodeTable' = iNodeTable /\ data' = data /\ promised' = promised
      /\ misfreed' = misfreed /\ resurrected' = resurrected
      /\ kills' = kills /\ commands < MaxCommands /\ commands' = commands + 1
  BY DEF cp, Command, disk, history
<1>6. n \in INodes /\ n \notin Occupied
  BY <1>2, <1>5, FreeINode
<1>7. /\ IsSeq(s) /\ Len(s) \in Nat /\ size \in Nat /\ Len(s) <= size
      /\ size <= FS_DATA_BLOCKS * BLOCK + MaxGarbage
      /\ Len(s) < CLEAN => size = Len(s)
      /\ \A k \in 1 .. Len(s) : source[k] = s[k]
  BY <1>2, <1>3, <1>5, SourceContents, Zenon
<1>8. blocks \in Nat
  BY <1>3, <1>7, BlocksNat
<1>9. j \in Room(blocks, edge)
  <2>1. Room(blocks, edge) \subseteq Nat /\ Room(blocks, edge) # {}
    BY <1>1, <1>2, <1>3, DiskAssumption DEF Room, DataBlocks
  <2> QED
    BY <1>2, <1>3, <2>1, MinNat, Zenon
<1>10. /\ j \in DataBlocks /\ j + blocks <= edge /\ edge <= 2 * FS_DATA_BLOCKS
       /\ \A k \in j .. j + blocks - 1 : k \in DataBlocks => ~dataBitmap[k]
  BY <1>9, DiskAssumption DEF Room, Fits
<1>11. j \in Nat /\ FS_DATA_BLOCKS \in Nat /\ edge \in Nat
  BY <1>10, DiskAssumption DEF DataBlocks
<1>12. j + blocks <= 2 * FS_DATA_BLOCKS
  BY <1>8, <1>10, <1>11
<1>13. Sound(node)
  <2>1. PICK most : most = FS_DATA_BLOCKS * BLOCK + MaxGarbage
    OBVIOUS
  <2>2. most \in Nat
    <3>1. FS_DATA_BLOCKS * BLOCK \in Nat
      BY DiskAssumption
    <3> QED
      BY <2>1, <3>1, DiskAssumption
  <2>3. size \in 0 .. most
    BY <1>7, <2>1, <2>2
  <2>4. node.startingBlock \in {dataBlockOffset + b : b \in DataBlocks}
    BY <1>4, <1>10
  <2>5. node.startingBlock # 0
    BY <1>4, <1>11 DEF dataBlockOffset
  <2>6. node.name # NoName
    BY <1>4, DiskAssumption
  <2> QED
    BY <1>4, <2>1, <2>3, <2>4, <2>5, <2>6 DEF Sound
<1>14. todo' = <<WriteTo("iNodeBitmap", n, TRUE)>>
               \o [z \in 1..blocks |-> WriteTo("dataBitmap", j + z - 1, TRUE)]
               \o <<WriteTo("iNodeTable", n, node)>>
               \o [k \in 1..size |-> WriteTo("data", j * BLOCK + k - 1, source[k])]
               \o <<WriteTo("promise", f, s)>>
  BY <1>1, <1>2, <1>3, Zenon
<1>15. Making(todo', n, node, f, s, blocks + 2, blocks + size + 3)
  BY <1>3, <1>4, <1>7, <1>8, <1>10, <1>12, <1>13, <1>14, CpMaking, ZenonT(40)
<1>16. \A b \in Region(node) \cap DataBlocks : ~dataBitmap[b]
  <2>1. Region(node) \subseteq j .. j + blocks - 1
    BY <1>3, <1>4, <1>11 DEF Region, dataBlockOffset
  <2> QED
    BY <1>10, <2>1
<1>17. Sized(node, s)
  BY <1>4, <1>7 DEF Sized
<1>18. Starts(f, n, node, s)
  BY <1>4, <1>5, <1>6, <1>7, <1>13, <1>15, <1>16, <1>17, Zenon DEF Starts
<1> QED
  BY <1>18
-----------------------------------------------------------------------------
(* A command that creates none starts.                                     *)
StartsPlain ==
  /\ todo = <<>>
  /\ \A k \in DOMAIN todo' : ~Makes(todo'[k]) /\ GoodWrite(todo'[k])
  /\ iNodeBitmap' = iNodeBitmap /\ dataBitmap' = dataBitmap
  /\ iNodeTable' = iNodeTable /\ data' = data
  /\ misfreed' = misfreed /\ resurrected' = resurrected
  /\ kills' = kills /\ commands < MaxCommands /\ commands' = commands + 1
  /\ \A f \in Names : promised'[f] \in {promised[f], Nothing}
  /\ IsTable(promised', Names)

(* mkfs does so,                                                           *)
LEMMA MkfsStarts ==
  ASSUME DiskTyped, mkfs
  PROVE  /\ StartsPlain /\ promised' = promised /\ image' = image
         /\ \A k \in DOMAIN todo' : todo'[k].area = "image"
<1>1. PICK a, b, c :
        /\ a = WriteTo("image", 0, "empty")
        /\ b = WriteTo("image", 0, "blank")
        /\ c = WriteTo("image", 0, "made")
  OBVIOUS
<1>2. /\ a.area = "image" /\ b.area = "image" /\ c.area = "image"
      /\ a.value = "empty" /\ b.value = "blank" /\ c.value = "made"
  BY <1>1 DEF WriteTo
<1>3. /\ todo = <<>> /\ todo' = <<a, b, c, a, c>>
      /\ image' = image /\ iNodeBitmap' = iNodeBitmap /\ dataBitmap' = dataBitmap
      /\ iNodeTable' = iNodeTable /\ data' = data /\ promised' = promised
      /\ misfreed' = misfreed /\ resurrected' = resurrected
      /\ kills' = kills /\ commands < MaxCommands /\ commands' = commands + 1
  BY <1>1 DEF mkfs, Command, disk, history
<1>4. \A k \in DOMAIN todo' : todo'[k] \in {a, b, c}
  BY <1>3
<1>5. \A k \in DOMAIN todo' :
        todo'[k].area = "image" /\ todo'[k].value \in {"empty", "blank", "made"}
  BY <1>2, <1>4
<1>6. \A k \in DOMAIN todo' : ~Makes(todo'[k]) /\ GoodWrite(todo'[k])
  BY <1>5 DEF Makes, GoodWrite
<1> QED
  BY <1>3, <1>5, <1>6 DEF StartsPlain, DiskTyped

(* and rmfs,                                                               *)
LEMMA RmfsStarts ==
  ASSUME rmfs
  PROVE  /\ StartsPlain /\ image' = "absent" /\ todo' = <<>>
         /\ \A f \in Names : promised'[f] = Nothing
BY DEF rmfs, Command, StartsPlain, IsTable

(* and rm, which clears bits,                                              *)
LEMMA RmStarts ==
  ASSUME Typed, DiskTyped, NEW f \in Names, rm(f)
  PROVE  /\ StartsPlain /\ image' = image
         /\ promised'[f] = Nothing /\ \A g \in Names : g # f => promised'[g] = promised[g]
         /\ \A k \in DOMAIN todo' :
              /\ todo'[k].area # "image"
              /\ todo'[k].area = "iNodeBitmap" => todo'[k].index = Found(f)
<1>1. iNodeTable[Found(f)].size \in Nat
  BY FoundINode DEF rm, Typed, INodeRecords
<1>2. PICK blocks \in Nat : blocks = Blocks(iNodeTable[Found(f)].size)
  BY <1>1, BlocksNat
<1>3. todo' = <<WriteTo("iNodeBitmap", Found(f), FALSE)>>
              \o [z \in 1..blocks |-> WriteTo("dataBitmap", Found(f) + z - 1, FALSE)]
  BY <1>2, Zenon DEF rm, Command
<1>4. \A k \in DOMAIN todo' :
        /\ todo'[k].value = FALSE
        /\ \/ todo'[k].area = "iNodeBitmap" /\ todo'[k].index = Found(f)
           \/ todo'[k].area = "dataBitmap"
  BY <1>3, RmWrites, Zenon
<1>5. \A k \in DOMAIN todo' : ~Makes(todo'[k]) /\ GoodWrite(todo'[k])
  BY <1>4 DEF Makes, GoodWrite
<1>6. \A k \in DOMAIN todo' :
        /\ todo'[k].area # "image"
        /\ todo'[k].area = "iNodeBitmap" => todo'[k].index = Found(f)
  BY <1>4
<1>7. /\ todo = <<>>
      /\ image' = image /\ iNodeBitmap' = iNodeBitmap /\ dataBitmap' = dataBitmap
      /\ iNodeTable' = iNodeTable /\ data' = data /\ promised' = [promised EXCEPT ![f] = Nothing]
      /\ misfreed' = misfreed /\ resurrected' = resurrected
      /\ kills' = kills /\ commands < MaxCommands /\ commands' = commands + 1
  BY DEF rm, Command, disk
<1>8. /\ promised'[f] = Nothing /\ \A g \in Names : g # f => promised'[g] = promised[g]
      /\ IsTable(promised', Names)
  BY <1>7 DEF DiskTyped, IsTable
<1> QED
  BY <1>5, <1>6, <1>7, <1>8 DEF StartsPlain

(* and load.                                                               *)
LEMMA LoadStarts ==
  ASSUME DiskTyped, NEW f \in Names, load(f)
  PROVE  /\ StartsPlain /\ promised' = promised /\ image' = image
         /\ \A k \in DOMAIN todo' : todo'[k].area = "host"
<1>1. PICK a, b : /\ a.area = "host" /\ b.area = "host"
                  /\ todo' = <<a, b>>
  <2>1. PICK v, w : todo' = <<WriteTo("host", f, v), WriteTo("host", f, w)>>
    BY Zenon DEF load, Command
  <2>2. WriteTo("host", f, v).area = "host" /\ WriteTo("host", f, w).area = "host"
    BY DEF WriteTo
  <2> QED
    BY <2>1, <2>2, Zenon
<1>2. \A k \in DOMAIN todo' : todo'[k].area = "host"
  BY <1>1
<1>3. \A k \in DOMAIN todo' : ~Makes(todo'[k]) /\ GoodWrite(todo'[k])
  BY <1>2 DEF Makes, GoodWrite
<1>4. /\ todo = <<>>
      /\ image' = image /\ iNodeBitmap' = iNodeBitmap /\ dataBitmap' = dataBitmap
      /\ iNodeTable' = iNodeTable /\ data' = data /\ promised' = promised
      /\ misfreed' = misfreed /\ resurrected' = resurrected
      /\ kills' = kills /\ commands < MaxCommands /\ commands' = commands + 1
  BY DEF load, Command, disk, history
<1> QED
  BY <1>2, <1>3, <1>4 DEF StartsPlain, DiskTyped

(* It leaves the blocks alone.                                             *)
LEMMA PlainStep ==
  ASSUME Typed, DiskTyped, SpaceInv, StartsPlain, image' \in {"absent", image}
  PROVE  /\ DiskTyped' /\ Ordered' /\ Ready' /\ SpaceInv'
         /\ NodeWrites' = {} /\ Live' = Live /\ Live = Occupied
<1>1. NodeWrites' = {} /\ NodeWrites = {}
  BY DEF StartsPlain, NodeWrites, Makes
<1>2. Live' = Live /\ Live = Occupied
  BY <1>1 DEF StartsPlain, Live, Occupied
<1>3. (\A k \in DOMAIN todo : GoodWrite(todo[k]))'
  BY DEF StartsPlain, GoodWrite, Sound
<1>4. commands' \in 0 .. MaxCommands
  BY DiskAssumption DEF DiskTyped, StartsPlain
<1>5. /\ image' \in {"absent", "empty", "blank", "made"}
      /\ dataBitmap' = dataBitmap /\ iNodeTable' = iNodeTable /\ data' = data /\ kills' = kills
      /\ misfreed' = misfreed /\ resurrected' = resurrected
      /\ IsTable(promised', Names)
      /\ \A f \in Names : promised'[f] = promised[f] \/ promised'[f] = Nothing
  BY DEF StartsPlain, DiskTyped
<1>6. DiskTyped'
  BY <1>3, <1>4, <1>5 DEF DiskTyped, IsTable, Sound
<1>7. Ordered'
  BY DEF StartsPlain, Makes, Ordered, Undoes
<1>8. Ready'
  BY <1>1 DEF Ready
<1>9. SpaceInv'
  BY <1>1, <1>2, <1>5 DEF SpaceInv, Apart, Marked, Fitted, Marking, Region, Blocks, DataBlocks
<1> QED
  BY <1>1, <1>2, <1>6, <1>7, <1>8, <1>9

(* A command that creates a file keeps all of it,                          *)
LEMMA StartsStep ==
  ASSUME Typed, DiskTyped, SpaceInv, NEW f \in Names, NEW n, NEW node, NEW s, Starts(f, n, node, s)
  PROVE  /\ DiskInv'
         /\ \E p : NodeWrites' = {p} /\ todo'[p].index = n /\ todo'[p].value = node
<1>1. PICK p, q : Making(todo', n, node, f, s, p, q)
  BY Zenon DEF Starts
<1>2. /\ todo = <<>> /\ n \in INodes /\ n \notin Occupied
      /\ Sound(node) /\ node.name = f /\ IsSeq(s)
      /\ \A b \in Region(node) \cap DataBlocks : ~dataBitmap[b]
      /\ image' = image /\ iNodeBitmap' = iNodeBitmap /\ dataBitmap' = dataBitmap
      /\ iNodeTable' = iNodeTable /\ data' = data /\ promised' = promised
      /\ misfreed' = misfreed /\ resurrected' = resurrected
      /\ kills' = kills /\ commands < MaxCommands /\ commands' = commands + 1
  BY Zenon DEF Starts
<1>3. /\ DiskTyped' /\ Ordered' /\ Ready' /\ SpaceInv'
      /\ NodeWrites' = {p} /\ todo'[p].index = n /\ todo'[p].value = node
  BY <1>1, <1>2, MakingStep
<1> QED
  BY <1>3 DEF DiskInv

(* the disk starts with it,                                                *)
LEMMA DiskInit ==
  ASSUME Init
  PROVE  DiskInv
<1>1. DiskTyped
  <2>1. Sound(NewINode)
    BY DiskAssumption DEF Sound, NewINode
  <2>2. 0 \in 0 .. MaxCommands /\ 0 \in 0 .. MaxKills
    BY DiskAssumption
  <2>3. IsTable(data, Units) /\ IsTable(promised, Names) /\ \A f \in Names : promised[f] = Nothing
    BY DEF Init, IsTable
  <2>4. \A n \in INodes : Sound(iNodeTable[n])
    BY <2>1 DEF Init
  <2>5. dataBitmap \in [DataBlocks -> BOOLEAN]
    BY DEF Init
  <2>6. \A k \in DOMAIN todo : GoodWrite(todo[k])
    BY DEF Init
  <2>7. image = "absent" /\ commands = 0 /\ kills = 0 /\ misfreed = FALSE /\ resurrected = FALSE
    BY DEF Init
  <2> QED
    BY <2>2, <2>3, <2>4, <2>5, <2>6, <2>7 DEF DiskTyped
<1>2. todo = <<>> /\ NodeWrites = {} /\ Occupied = {} /\ Live = {}
  BY DEF Init, NodeWrites, Occupied, Live
<1>3. Ordered /\ Ready
  BY <1>2 DEF Ordered, Ready
<1>4. SpaceInv
  BY <1>2 DEF SpaceInv, Apart, Marked, Fitted, Marking
<1> QED
  BY <1>1, <1>3, <1>4 DEF DiskInv

(* and so does every other step.                                           *)
LEMMA DiskStep ==
  ASSUME Typed, NamesInv, DiskInv, [Next]_vars
  PROVE  DiskInv'
<1> USE DEF DiskInv
<1>1. CASE mkfs
  BY <1>1, MkfsStarts, PlainStep
<1>2. CASE rmfs
  BY <1>2, RmfsStarts, PlainStep
<1>3. ASSUME NEW f \in Names, touch(f)
      PROVE  DiskInv'
  BY <1>3, TouchStarts, StartsStep
<1>4. ASSUME NEW f \in Names, cp(f)
      PROVE  DiskInv'
  BY <1>4, CpStarts, StartsStep
<1>5. ASSUME NEW f \in Names, rm(f)
      PROVE  DiskInv'
  BY <1>5, RmStarts, PlainStep
<1>6. ASSUME NEW f \in Names, load(f)
      PROVE  DiskInv'
  BY <1>6, LoadStarts, PlainStep
<1>7. CASE Write
  BY <1>7, WriteDiskTyped, WriteOrdered, WriteReady, WriteSpace
<1>8. CASE Kill
  BY <1>8, KillSpace
<1>9. CASE UNCHANGED vars
  BY <1>9 DEF vars, disk, history, DiskTyped, GoodWrite, Sound, IsTable, Ordered, Makes, Undoes,
              Ready, NodeWrites, Occupied, WriteTo, SpaceInv, Apart, Marked, Fitted, Marking,
              Live, Region, Blocks, DataBlocks
<1> QED
  BY <1>1, <1>2, <1>3, <1>4, <1>5, <1>6, <1>7, <1>8, <1>9, Zenon DEF Next

(* Every variable has its type: a file that is written lies within what    *)
(* data has room for, also if cp found its place past the end of the       *)
(* bitmap.                                                                 *)
THEOREM VsfsTypes == Spec => []TypeOK
<1>1. Init => Typed /\ NamesInv /\ DiskInv
  BY NamesInit, DiskInit
<1>2. Typed /\ NamesInv /\ DiskInv /\ [Next]_vars => Typed' /\ NamesInv' /\ DiskInv'
  BY NamesStep, DiskStep
<1>3. Typed /\ DiskInv => TypeOK
  <2> SUFFICES ASSUME Typed, DiskInv
               PROVE  TypeOK
    OBVIOUS
  <2>1. \A n \in INodes : iNodeTable[n].name \in Names \cup {NoName}
    BY DEF Typed, INodeRecords
  <2> QED
    BY <2>1 DEF TypeOK, Typed, DiskInv, DiskTyped, Sound, GoodWrite, IsTable
<1> QED
  BY <1>1, <1>2, <1>3, PTL DEF Spec
-----------------------------------------------------------------------------
(* A write leaves the files that have been promised as they are.           *)

(* A file stays one as long as its bit is set.                             *)
LEMMA LiveStays ==
  ASSUME Typed, Write, NEW n \in Live, n \in Occupied'
  PROVE  n \in Live'
<1>1. \A k \in NodeWrites' : k + 1 \in NodeWrites /\ todo'[k] = todo[k + 1]
  BY NodeWritesLeft DEF Write
<1>2. \A k \in NodeWrites' : todo'[k].index \in {todo[l].index : l \in NodeWrites}
  BY <1>1, Zenon
<1> QED
  BY <1>2 DEF Live

(* What it takes for a promise to be kept.                                 *)
Holds(n, f, s) ==
  /\ n \in Live /\ iNodeTable[n].name = f /\ Sized(iNodeTable[n], s)
  /\ \A i \in 1 .. Len(s) : data[Place(iNodeTable[n], i)] = s[i]

(* For every name there is a file for which this holds.                    *)
LEMMA KeptHolds ==
  /\ Kept <=> \A f \in Names : promised[f] # Nothing => \E n : Holds(n, f, promised[f])
  /\ Kept' <=> \A f \in Names : promised'[f] # Nothing => \E n : (Holds(n, f, promised[f]))'
<1>1. Kept <=> \A f \in Names : promised[f] # Nothing => \E n : Holds(n, f, promised[f])
  BY DEF Kept, Holds
<1>2. Kept' <=> \A f \in Names : promised'[f] # Nothing => \E n : (Holds(n, f, promised[f]))'
  BY DEF Kept, Holds
<1> QED
  BY <1>1, <1>2

(* A file that is left alone holds what it held.                           *)
LEMMA StillHolds ==
  ASSUME Typed, Write, NEW n, NEW f \in Names, Holds(n, f, promised[f]), n \in Occupied',
         iNodeTable'[n] = iNodeTable[n], promised'[f] = promised[f],
         \A i \in 1 .. Len(promised[f]) :
           data'[Place(iNodeTable[n], i)] = data[Place(iNodeTable[n], i)]
  PROVE  (Holds(n, f, promised[f]))'
<1>1. n \in Live'
  BY LiveStays DEF Holds
<1> QED
  BY <1>1 DEF Holds, Sized, Place

(* A bit that is cleared is the one of a file whose promise is taken back. *)
LEMMA BitKept ==
  ASSUME Typed, DiskTyped, Clean, Kept, Write, WritesBit
  PROVE  Kept'
<1>1. /\ iNodeTable' = iNodeTable /\ data' = data /\ promised' = promised
      /\ todo[1].area = "iNodeBitmap"
  BY DEF WritesBit
<1>2. 1 \in DOMAIN todo
  BY TailWrites DEF Write
<1> SUFFICES ASSUME NEW f \in Names, promised[f] # Nothing
             PROVE  \E n : (Holds(n, f, promised[f]))'
  BY <1>1, KeptHolds
<1>3. PICK n : Holds(n, f, promised[f])
  BY KeptHolds
<1>4. n \in INodes /\ iNodeBitmap[n] /\ iNodeTable[n].name = f
  BY <1>3 DEF Holds, Live, Occupied
<1>5. Updated(iNodeBitmap', iNodeBitmap, todo[1], INodes)
  <2>1. IsTable(iNodeBitmap, INodes)
    BY DEF Typed, IsTable
  <2> QED
    BY <2>1, AreaEntry, Zenon DEF WritesBit
<1>6. iNodeBitmap'[n]
  <2>1. CASE n # todo[1].index
    BY <1>4, <1>5, <2>1 DEF Updated
  <2>2. CASE n = todo[1].index
    <3>1. todo[1].value # FALSE
      BY <1>1, <1>2, <1>4, <2>2 DEF Clean
    <3>2. todo[1].value = TRUE
      BY <1>1, <1>2, <3>1 DEF Typed
    <3> QED
      BY <1>4, <1>5, <2>2, <3>2 DEF Updated
  <2> QED
    BY <2>1, <2>2
<1>7. n \in Occupied'
  BY <1>4, <1>6 DEF Occupied
<1> QED
  BY <1>1, <1>3, <1>7, StillHolds

(* The unit that is written is in no promised file.                        *)
LEMMA UnitKept ==
  ASSUME Typed, DiskTyped, Ordered, Apart, Fitted, Kept, Due, Write, WritesUnit
  PROVE  Kept'
<1>1. /\ iNodeTable' = iNodeTable /\ iNodeBitmap' = iNodeBitmap /\ promised' = promised
      /\ todo[1].area = "data"
  BY DEF WritesUnit
<1>2. 1 \in DOMAIN todo
  BY TailWrites DEF Write
<1>3. PICK k \in DOMAIN todo : todo[k].area = "promise"
  BY <1>1, <1>2 DEF Ordered
<1>4. PICK m, node : /\ m \in INodes /\ Target(m, node)
                                /\ node.name = todo[k].index /\ promised[todo[k].index] = Nothing
                                /\ Filling(node, todo[k].value)
  BY <1>3, Zenon DEF Due
<1>5. PICK b \in Region(node) : todo[1].index \in UnitsOf(b)
  BY <1>1, <1>2, <1>4, Zenon DEF Filling
<1>6. Sound(node)
  BY <1>4 DEF Target, DiskTyped, GoodWrite, NodeWrites
<1> SUFFICES ASSUME NEW f \in Names, promised[f] # Nothing
             PROVE  \E n : (Holds(n, f, promised[f]))'
  BY <1>1, KeptHolds
<1>7. PICK n : Holds(n, f, promised[f])
  BY KeptHolds
<1>8. n \in Live /\ n \in Occupied /\ n \in INodes /\ iNodeTable[n].name = f
  BY <1>7 DEF Holds, Live, Occupied
<1>9. Region(iNodeTable[n]) \cap Region(node) = {}
  <2>1. CASE \E l \in NodeWrites : todo[l].index = m /\ todo[l].value = node
    BY <1>8, <2>1 DEF Fitted
  <2>2. CASE NodeWrites = {} /\ m \in Occupied /\ iNodeTable[m] = node
    <3>1. m \in Live
      BY <2>2 DEF Live
    <3>2. m # n
      BY <1>4, <1>8, <2>2
    <3> QED
      BY <1>8, <2>2, <3>1, <3>2 DEF Apart
  <2> QED
    BY <1>4, <2>1, <2>2, Zenon DEF Target
<1>10. \A i \in 1 .. Len(promised[f]) : Place(iNodeTable[n], i) # todo[1].index
  <2> SUFFICES ASSUME NEW i \in 1 .. Len(promised[f])
               PROVE  Place(iNodeTable[n], i) # todo[1].index
    OBVIOUS
  <2>1. Sound(iNodeTable[n])
    BY <1>8 DEF DiskTyped
  <2>2. i \in 1 .. iNodeTable[n].size
    <3>1. IsSeq(promised[f])
      BY DEF DiskTyped
    <3>2. Len(promised[f]) \in Nat /\ Len(promised[f]) <= iNodeTable[n].size
      BY <1>7, <3>1 DEF Holds, Sized, IsSeq
    <3>3. iNodeTable[n].size \in Nat
      BY <1>8 DEF Typed, INodeRecords
    <3> QED
      BY <3>2, <3>3
  <2>3. Place(iNodeTable[n], i) \notin UnitsOf(b)
    BY <1>6, <1>9, <2>1, <2>2, PlaceElsewhere
  <2> QED
    BY <1>5, <2>3
<1>11. Updated(data', data, todo[1], Units)
  BY AreaEntry, Zenon DEF WritesUnit, DiskTyped
<1>12. \A i \in 1 .. Len(promised[f]) :
         data'[Place(iNodeTable[n], i)] = data[Place(iNodeTable[n], i)]
  <2>1. \A u : u # todo[1].index => data'[u] = data[u]
    <3>1. DOMAIN data = Units
      BY DEF DiskTyped, IsTable
    <3>2. data' = [data EXCEPT ![todo[1].index] = todo[1].value]
      BY <1>1, <1>2, <3>1 DEF WritesUnit, Area, DiskTyped, GoodWrite
    <3> QED
      BY <3>1, <3>2
  <2> QED
    BY <1>10, <2>1
<1>13. n \in Occupied'
  BY <1>1, <1>8 DEF Occupied
<1> QED
  BY <1>1, <1>7, <1>12, <1>13, StillHolds
-----------------------------------------------------------------------------
(* The inode that is written is in no file yet.                            *)
LEMMA NodeKept ==
  ASSUME Typed, DiskTyped, NamesInv, Ready, Apart, Marked, Fitted, Marking, Kept, Write, WritesNode
  PROVE  Kept'
<1>1. /\ NodeWrites = {1} /\ Occupied' = Occupied
      /\ \A n \in INodes : n # todo[1].index => iNodeTable'[n] = iNodeTable[n]
  BY NodeWriteSpace
<1>2. data' = data /\ promised' = promised
  BY DEF WritesNode
<1> SUFFICES ASSUME NEW f \in Names, promised[f] # Nothing
             PROVE  \E n : (Holds(n, f, promised[f]))'
  BY <1>2, KeptHolds
<1>3. PICK n : Holds(n, f, promised[f])
  BY KeptHolds
<1>4. n \in INodes /\ n \in Occupied /\ n # todo[1].index
  BY <1>1, <1>3 DEF Holds, Live, Occupied
<1>5. iNodeTable'[n] = iNodeTable[n] /\ n \in Occupied'
  BY <1>1, <1>4
<1> QED
  BY <1>2, <1>3, <1>5, StillHolds

(* A promise is made when the file is there.                               *)
LEMMA PromiseKept ==
  ASSUME Typed, DiskTyped, Ordered, Kept, Due, Write, Promises
  PROVE  Kept'
<1>1. /\ iNodeTable' = iNodeTable /\ iNodeBitmap' = iNodeBitmap /\ data' = data
      /\ todo[1].area = "promise"
  BY DEF Promises
<1>2. /\ 1 \in DOMAIN todo
      /\ \A k \in DOMAIN todo : k \in Nat \ {0}
  BY TailWrites DEF Write
<1>3. \A k \in DOMAIN todo : k = 1
  <2>1. \A k \in DOMAIN todo : k <= 1
    BY <1>1, <1>2, Zenon DEF Ordered
  <2> QED
    BY <1>2, <2>1
<1>4. NodeWrites = {} /\ NodeWrites' = {}
  <2>1. NodeWrites = {}
    BY <1>1, <1>3 DEF NodeWrites
  <2> QED
    BY <2>1, NodeWritesLeft DEF Write
<1>5. PICK g, s : g = todo[1].index /\ s = todo[1].value
  OBVIOUS
<1>6. g \in Names
  BY <1>1, <1>2, <1>5, Zenon DEF DiskTyped, GoodWrite
<1>7. PICK n, node : /\ n \in INodes /\ Target(n, node) /\ node.name = g
                    /\ Sized(node, s) /\ Filling(node, s)
  BY <1>1, <1>2, <1>5, Zenon DEF Due
<1>8. n \in Occupied /\ iNodeTable[n] = node
  BY <1>4, <1>7 DEF Target
<1>9. \A i \in 1 .. Len(s) : data[Place(node, i)] = s[i]
  <2>1. ~ \E l \in DOMAIN todo : todo[l].area = "data"
    BY <1>1, <1>3
  <2> QED
    BY <1>7, <2>1, Zenon DEF Filling
<1>10. Updated(promised', promised, todo[1], Names)
  BY AreaEntry, Zenon DEF Promises, DiskTyped
<1>11. promised'[g] = s /\ \A f \in Names : f # g => promised'[f] = promised[f]
  BY <1>5, <1>6, <1>10, Zenon DEF Updated
<1>12. Occupied' = Occupied
  BY <1>1 DEF Occupied
<1>13. (Holds(n, g, promised[g]))'
  <2>1. n \in Live'
    BY <1>4, <1>8, <1>12 DEF Live
  <2> QED
    BY <1>1, <1>7, <1>8, <1>9, <1>11, <2>1 DEF Holds, Sized, Place
<1> SUFFICES ASSUME NEW f \in Names, promised'[f] # Nothing
             PROVE  \E m : (Holds(m, f, promised[f]))'
  BY KeptHolds
<1>14. CASE f = g
  BY <1>13, <1>14
<1>15. CASE f # g
  <2>1. promised'[f] = promised[f]
    BY <1>11, <1>15
  <2>2. PICK m : Holds(m, f, promised[f])
    BY <2>1, KeptHolds
  <2>3. m \in Occupied'
    BY <1>12, <2>2 DEF Holds, Live
  <2>4. (Holds(m, f, promised[f]))'
    BY <1>1, <2>1, <2>2, <2>3, StillHolds
  <2> QED
    BY <2>4
<1> QED
  BY <1>14, <1>15

(* Every write keeps the promises.                                         *)
LEMMA WriteKept ==
  ASSUME Typed, DiskTyped, NamesInv, Ordered, Ready, Apart, Marked, Fitted, Marking,
         Clean, Kept, Due, Write
  PROVE  Kept'
<1>1. CASE Formats
  <2>1. todo[1].area = "image" /\ promised' = promised
    BY <1>1 DEF Formats
  <2>2. NonePromised
    BY <2>1, TailWrites DEF Clean, Write
  <2> QED
    BY <2>1, <2>2 DEF Kept, NonePromised
<1>2. CASE MarksBlock \/ WritesElse
  <2>1. /\ iNodeTable' = iNodeTable /\ iNodeBitmap' = iNodeBitmap /\ data' = data
        /\ promised' = promised
    BY <1>2 DEF MarksBlock, WritesElse
  <2>2. Occupied' = Occupied
    BY <2>1 DEF Occupied
  <2> SUFFICES ASSUME NEW f \in Names, promised[f] # Nothing
               PROVE  \E n : (Holds(n, f, promised[f]))'
    BY <2>1, KeptHolds
  <2>3. PICK n : Holds(n, f, promised[f])
    BY KeptHolds
  <2>4. n \in Occupied'
    BY <2>2, <2>3 DEF Holds, Live
  <2> QED
    BY <2>1, <2>3, <2>4, StillHolds
<1> QED
  BY <1>1, <1>2, WriteCases, BitKept, UnitKept, NodeKept, PromiseKept

(* What is going to be formatted or freed belongs to no promise.           *)
LEMMA WriteClean ==
  ASSUME Typed, DiskTyped, Ordered, Clean, Due, Write
  PROVE  Clean'
<1>1. /\ 1 \in DOMAIN todo
      /\ \A k \in DOMAIN todo' : k + 1 \in DOMAIN todo /\ todo'[k] = todo[k + 1]
  BY TailWrites DEF Write
<1>2. image' = "absent" => NonePromised'
  <2> SUFFICES ASSUME image' = "absent"
               PROVE  NonePromised'
    OBVIOUS
  <2>1. todo[1].area # "image" /\ image' = image
    <3>1. todo[1].area = "image" => todo[1].value # "absent"
      BY <1>1 DEF DiskTyped, GoodWrite
    <3> QED
      BY <3>1, WriteCases
         DEF WritesBit, MarksBlock, WritesNode, WritesUnit, Promises, Formats, WritesElse
  <2>2. todo[1].area # "promise"
    BY <1>1, <2>1 DEF Due
  <2>3. promised' = promised
    BY <2>2, WriteCases
       DEF WritesBit, MarksBlock, WritesNode, WritesUnit, Promises, Formats, WritesElse
  <2> QED
    BY <2>1, <2>3 DEF Clean, NonePromised
<1>3. ASSUME NEW k \in DOMAIN todo', Undoes(todo'[k])
      PROVE  /\ k + 1 \in DOMAIN todo /\ todo'[k] = todo[k + 1]
             /\ promised' = promised /\ (iNodeTable' = iNodeTable \/ Formats)
  <2>1. k + 1 \in DOMAIN todo /\ todo'[k] = todo[k + 1]
    BY <1>1
  <2>2. ~Makes(todo[1])
    BY <1>1, <1>3, <2>1, Zenon DEF Ordered
  <2>3. todo[1].area # "promise" /\ todo[1].area # "iNodeTable"
    BY <2>2 DEF Makes
  <2> QED
    BY <2>1, <2>3, WriteCases
       DEF WritesBit, MarksBlock, WritesNode, WritesUnit, Promises, Formats, WritesElse
<1>4. ASSUME NEW k \in DOMAIN todo', todo'[k].area = "image"
      PROVE  NonePromised'
  <2>1. Undoes(todo'[k])
    BY <1>4 DEF Undoes
  <2> QED
    BY <1>3, <1>4, <2>1 DEF Clean, NonePromised
<1>5. ASSUME NEW k \in DOMAIN todo', todo'[k].area = "iNodeBitmap", todo'[k].value = FALSE,
             NEW f \in Names, iNodeTable'[todo'[k].index].name = f
      PROVE  promised'[f] = Nothing
  <2>1. Undoes(todo'[k])
    BY <1>5 DEF Undoes
  <2>2. /\ k + 1 \in DOMAIN todo /\ todo'[k] = todo[k + 1]
        /\ promised' = promised /\ (iNodeTable' = iNodeTable \/ Formats)
    BY <1>3, <2>1
  <2>3. CASE Formats
    <3>1. NonePromised
      BY <1>1, <2>3 DEF Clean, Formats
    <3> QED
      BY <2>2, <3>1 DEF NonePromised
  <2>4. CASE iNodeTable' = iNodeTable
    BY <1>5, <2>2, <2>4 DEF Clean
  <2> QED
    BY <2>2, <2>3, <2>4
<1> QED
  BY <1>2, <1>4, <1>5 DEF Clean, NonePromised
-----------------------------------------------------------------------------
(* What a promise that is to be made rests on: the file f with the         *)
(* contents s is there or about to be.                                     *)
Coming(f, s) ==
  \E n \in INodes : \E node :
    Target(n, node) /\ node.name = f /\ Sized(node, s) /\ Filling(node, s)

DueOf(f, s) == image # "absent" /\ promised[f] = Nothing /\ Coming(f, s)

(* For every promise that is to be made this holds.                        *)
LEMMA DueEach ==
  /\ Due <=> \A k \in DOMAIN todo :
               todo[k].area = "promise" => DueOf(todo[k].index, todo[k].value)
  /\ (\A k \in DOMAIN todo' : todo'[k].area = "promise" =>
        \E f, s : f = todo'[k].index /\ s = todo'[k].value /\ (DueOf(f, s))') => Due'
<1>1. Due <=> \A k \in DOMAIN todo :
                todo[k].area = "promise" => DueOf(todo[k].index, todo[k].value)
  BY DEF Due, DueOf, Coming
<1>2. ASSUME \A k \in DOMAIN todo' : todo'[k].area = "promise" =>
               \E f, s : f = todo'[k].index /\ s = todo'[k].value /\ (DueOf(f, s))'
      PROVE  Due'
  <2> SUFFICES ASSUME NEW k \in DOMAIN todo', todo'[k].area = "promise"
               PROVE  (/\ image # "absent" /\ promised[todo[k].index] = Nothing
                       /\ \E n \in INodes : \E node :
                            /\ Target(n, node)
                            /\ node.name = todo[k].index /\ Sized(node, todo[k].value)
                            /\ Filling(node, todo[k].value))'
    BY DEF Due
  <2>1. PICK f, s : f = todo'[k].index /\ s = todo'[k].value /\ (DueOf(f, s))'
    BY <1>2, Zenon
  <2>2. (/\ image # "absent" /\ promised[f] = Nothing
         /\ \E n \in INodes : \E node :
              Target(n, node) /\ node.name = f /\ Sized(node, s) /\ Filling(node, s))'
    BY <2>1 DEF DueOf, Coming
  <2> QED
    BY <2>1, <2>2
<1> QED
  BY <1>1, <1>2

(* The inode stays where it is, or arrives there.                          *)
LEMMA TargetStays ==
  ASSUME Typed, DiskTyped, NamesInv, Ordered, Ready, Apart, Marked, Fitted, Marking, Write,
         NEW k \in DOMAIN todo, todo[k].area = "promise",
         NEW n, NEW node, Target(n, node)
  PROVE  (Target(n, node))'
<1>1. Makes(todo[k])
  BY DEF Makes
<1>2. ~Undoes(todo[1]) /\ ~Formats /\ Occupied \subseteq Occupied'
  BY <1>1, Growing
<1>3. 1 \in DOMAIN todo
  BY TailWrites DEF Write
<1>4. /\ \A l \in NodeWrites' : l + 1 \in NodeWrites /\ todo'[l] = todo[l + 1] /\ l \in Nat \ {0}
      /\ \A l \in NodeWrites : l \in Nat \ {0} /\
           (1 < l => l - 1 \in NodeWrites' /\ todo'[l - 1] = todo[l])
  BY NodeWritesLeft DEF Write
<1>5. CASE WritesNode
  <2>1. /\ NodeWrites = {1} /\ NodeWrites' = {}
        /\ todo[1].index \in Occupied' /\ iNodeTable'[todo[1].index] = todo[1].value
    BY <1>5, NodeWriteSpace
  <2>2. todo[1].index = n /\ todo[1].value = node
    BY <2>1 DEF Target
  <2> QED
    BY <2>1, <2>2 DEF Target
<1>6. CASE ~WritesNode
  <2>1. 1 \notin NodeWrites /\ iNodeTable' = iNodeTable
    BY <1>2, <1>6, WriteCases
       DEF NodeWrites, WritesBit, MarksBlock, WritesUnit, Promises, WritesElse
  <2>2. CASE \E l \in NodeWrites : todo[l].index = n /\ todo[l].value = node
    <3>1. PICK l \in NodeWrites : todo[l].index = n /\ todo[l].value = node
      BY <2>2
    <3>2. 1 < l
      BY <1>4, <2>1, <3>1
    <3>3. l - 1 \in NodeWrites' /\ todo'[l - 1].index = n /\ todo'[l - 1].value = node
      BY <1>4, <3>1, <3>2
    <3> QED
      BY <3>3, Zenon DEF Target
  <2>3. CASE NodeWrites = {} /\ n \in Occupied /\ iNodeTable[n] = node
    <3>1. NodeWrites' = {} /\ n \in Occupied' /\ iNodeTable'[n] = node
      BY <1>2, <1>4, <2>1, <2>3
    <3> QED
      BY <3>1, Zenon DEF Target
  <2> QED
    BY <2>2, <2>3, Zenon DEF Target
<1> QED
  BY <1>5, <1>6

(* A unit is on the disk, or about to be.                                  *)
LEMMA FillingStays ==
  ASSUME Typed, DiskTyped, Ordered, Write,
         NEW k \in DOMAIN todo, todo[k].area = "promise",
         NEW node, NEW s, Filling(node, s)
  PROVE  (Filling(node, s))'
<1>1. ~Formats
  <2>1. Makes(todo[k])
    BY DEF Makes
  <2> QED
    BY <2>1, Growing
<1>2. /\ 1 \in DOMAIN todo
      /\ \A l \in DOMAIN todo' : l + 1 \in DOMAIN todo /\ todo'[l] = todo[l + 1]
      /\ \A l \in DOMAIN todo : l \in Nat \ {0} /\
           (1 < l => l - 1 \in DOMAIN todo' /\ todo'[l - 1] = todo[l])
  BY TailWrites DEF Write
<1>3. /\ \A l \in DOMAIN todo : todo[l].area = "data" => UnitWrite(todo[l], node, s)
      /\ \A l \in DOMAIN todo' : todo'[l].area = "data" => UnitWrite(todo'[l], node, s)
  <2>1. \A l \in DOMAIN todo : todo[l].area = "data" => todo[l].index \in Units
    BY Zenon DEF DiskTyped, GoodWrite
  <2>2. \A l \in DOMAIN todo : todo[l].area = "data" => UnitWrite(todo[l], node, s)
    BY <2>1 DEF Filling, UnitWrite
  <2> QED
    BY <1>2, <2>2, Zenon
<1>4. ASSUME NEW i \in 1..Len(s)
      PROVE  \/ data'[Place(node, i)] = s[i]
             \/ \E l \in DOMAIN todo' : todo'[l].area = "data" /\ todo'[l].index = Place(node, i)
  <2>1. PICK u : u = Place(node, i)
    OBVIOUS
  <2>2. data[u] = s[i] \/ \E l \in DOMAIN todo : todo[l].area = "data" /\ todo[l].index = u
    BY <1>4, <2>1, Zenon DEF Filling
  <2>3. CASE WritesUnit
    <3>1. todo[1].index \in Units /\ DOMAIN data = Units /\ todo[1].area = "data"
      BY <1>2, <2>3 DEF WritesUnit, DiskTyped, GoodWrite, IsTable
    <3>2. data' = [data EXCEPT ![todo[1].index] = todo[1].value]
      BY <2>3, <3>1 DEF WritesUnit, Area
    <3>3. CASE todo[1].index = u
      <4>1. todo[1].value = s[i]
        <5>1. UnitWrite(todo[1], node, s)
          BY <1>2, <1>3, <3>1
        <5> QED
          BY <1>4, <2>1, <3>3, <5>1 DEF UnitWrite
      <4> QED
        BY <2>1, <3>1, <3>2, <3>3, <4>1
    <3>4. CASE todo[1].index # u
      <4>1. data'[u] = data[u]
        BY <3>1, <3>2, <3>4
      <4>2. CASE data[u] = s[i]
        BY <2>1, <4>1, <4>2
      <4>3. ASSUME NEW l \in DOMAIN todo, todo[l].area = "data", todo[l].index = u
            PROVE  \E m \in DOMAIN todo' : todo'[m].area = "data" /\ todo'[m].index = u
        <5>1. 1 < l
          BY <1>2, <3>4, <4>3
        <5> QED
          BY <1>2, <4>3, <5>1, Zenon
      <4> QED
        BY <2>1, <2>2, <4>2, <4>3
    <3> QED
      BY <3>3, <3>4
  <2>4. CASE ~WritesUnit
    <3>1. data' = data /\ todo[1].area # "data"
      BY <1>1, <2>4, WriteCases
         DEF WritesBit, MarksBlock, WritesNode, Promises, WritesElse
    <3>2. ASSUME NEW l \in DOMAIN todo, todo[l].area = "data", todo[l].index = u
          PROVE  \E m \in DOMAIN todo' : todo'[m].area = "data" /\ todo'[m].index = u
      <4>1. 1 < l
        BY <1>2, <3>1, <3>2
      <4> QED
        BY <1>2, <3>2, <4>1, Zenon
    <3> QED
      BY <2>1, <2>2, <3>1, <3>2
  <2> QED
    BY <2>3, <2>4
<1>5. \A l \in DOMAIN todo' : todo'[l].area = "data" =>
        /\ \E b \in Region(node) : todo'[l].index \in UnitsOf(b)
        /\ \A i \in 1..Len(s) : todo'[l].index = Place(node, i) => todo'[l].value = s[i]
  <2> SUFFICES ASSUME NEW l \in DOMAIN todo', todo'[l].area = "data"
               PROVE  /\ \E b \in Region(node) : todo'[l].index \in UnitsOf(b)
                      /\ \A i \in 1..Len(s) :
                           todo'[l].index = Place(node, i) => todo'[l].value = s[i]
    OBVIOUS
  <2> QED
    BY <1>3 DEF UnitWrite
<1> QED
  BY <1>4, <1>5 DEF Filling, Place, UnitsOf, Region, Blocks

(* So the promise that is to be made comes nearer.                         *)
LEMMA WriteDue ==
  ASSUME Typed, DiskTyped, NamesInv, Ordered, Ready, Apart, Marked, Fitted, Marking, Due, Write
  PROVE  Due'
<1>1. /\ 1 \in DOMAIN todo
      /\ \A k \in DOMAIN todo' : k \in Nat \ {0} /\ k + 1 \in DOMAIN todo /\ todo'[k] = todo[k + 1]
  BY TailWrites DEF Write
<1> SUFFICES ASSUME NEW k \in DOMAIN todo', todo'[k].area = "promise"
             PROVE  \E f, s : f = todo'[k].index /\ s = todo'[k].value /\ (DueOf(f, s))'
  BY DueEach
<1>2. PICK f, s : f = todo[k + 1].index /\ s = todo[k + 1].value
  OBVIOUS
<1>3. /\ k + 1 \in DOMAIN todo /\ todo[k + 1].area = "promise"
      /\ todo'[k].index = f /\ todo'[k].value = s
  BY <1>1, <1>2
<1>4. DueOf(f, s)
  BY <1>2, <1>3, DueEach, Zenon
<1>5. PICK n, node : /\ n \in INodes /\ Target(n, node) /\ node.name = f
                    /\ Sized(node, s) /\ Filling(node, s)
  BY <1>4 DEF DueOf, Coming
<1>6. (Target(n, node))' /\ (Filling(node, s))'
  BY <1>3, <1>5, TargetStays, FillingStays
<1>7. (Coming(f, s))'
  BY <1>5, <1>6 DEF Coming, Sized
<1>8. image' = image /\ promised' = promised
  <2>1. Makes(todo[k + 1])
    BY <1>3 DEF Makes
  <2>2. ~Undoes(todo[1])
    BY <1>3, <2>1, Growing
  <2>3. todo[1].area # "promise"
    <3>1. ~ (k + 1 <= 1)
      BY <1>1
    <3> QED
      BY <1>1, <1>3, <3>1, Zenon DEF Ordered
  <2> QED
    BY <2>2, <2>3, WriteCases
       DEF Undoes, WritesBit, MarksBlock, WritesNode, WritesUnit, Promises, Formats, WritesElse
<1>9. image' # "absent" /\ promised'[f] = Nothing
  BY <1>4, <1>8 DEF DueOf
<1>10. (DueOf(f, s))'
  BY <1>7, <1>9 DEF DueOf
<1> QED
  BY <1>3, <1>10, Zenon

(* All of it together.                                                     *)
LEMMA WriteKeeps ==
  ASSUME Typed, NamesInv, DiskInv, KeptInv, Write
  PROVE  KeptInv'
<1> SUFFICES ASSUME ~misfreed', ~resurrected'
             PROVE  Clean' /\ Kept' /\ Due'
  BY DEF KeptInv
<1>1. ~misfreed /\ ~resurrected
  BY StillUnharmed
<1>2. /\ DiskTyped /\ Ordered /\ Ready /\ Apart /\ Marked /\ Fitted /\ Marking
      /\ Clean /\ Kept /\ Due
  BY <1>1 DEF DiskInv, SpaceInv, KeptInv
<1> QED
  BY <1>2, WriteClean, WriteKept, WriteDue

(* A kill takes a promise away that has not been made.                     *)
LEMMA KillKeeps ==
  ASSUME Typed, KeptInv, Kill
  PROVE  KeptInv'
<1>1. /\ todo' = <<>> /\ image' = image /\ iNodeBitmap' = iNodeBitmap
      /\ iNodeTable' = iNodeTable /\ data' = data /\ promised' = promised /\ misfreed' = misfreed
  BY DEF Kill, disk
<1>2. resurrected => resurrected'
  BY DEF Kill
<1> SUFFICES ASSUME ~misfreed', ~resurrected'
             PROVE  Clean' /\ Kept' /\ Due'
  BY DEF KeptInv
<1>3. Clean /\ Kept
  BY <1>1, <1>2 DEF KeptInv
<1>4. Live \subseteq Live' /\ Live \subseteq INodes
  BY <1>1 DEF Live, NodeWrites, Occupied
<1>5. Clean' /\ Due'
  BY <1>1, <1>3 DEF Clean, NonePromised, Due
<1>6. Kept'
  BY <1>1, <1>3, <1>4 DEF Kept, Sized, Place
<1> QED
  BY <1>5, <1>6
-----------------------------------------------------------------------------
(* A command that creates a file leaves the others as they are.            *)
LEMMA StartsKeeps ==
  ASSUME Typed, DiskTyped, KeptInv, NEW f \in Names, NEW n, NEW node, NEW s, Starts(f, n, node, s)
  PROVE  KeptInv'
<1>1. PICK p, q : Making(todo', n, node, f, s, p, q)
  BY Zenon DEF Starts
<1>2. /\ todo = <<>> /\ image = "made" /\ n \in INodes /\ n \notin Occupied
      /\ Sound(node) /\ node.name = f /\ IsSeq(s) /\ Sized(node, s) /\ ~Exists(f)
      /\ image' = image /\ iNodeBitmap' = iNodeBitmap
      /\ iNodeTable' = iNodeTable /\ data' = data /\ promised' = promised
      /\ misfreed' = misfreed /\ resurrected' = resurrected
  BY Zenon DEF Starts
<1> SUFFICES ASSUME ~misfreed, ~resurrected
             PROVE  Clean' /\ Kept' /\ Due'
  BY <1>2 DEF KeptInv
<1>3. Clean /\ Kept
  BY DEF KeptInv
<1>4. /\ Spread(todo', node, s, p, q)
      /\ DOMAIN todo' = 1 .. q /\ p \in 1 .. q /\ q \in 1 .. q
  <2>1. Spread(todo', node, s, p, q)
    BY <1>1, MakingAreas, Zenon
  <2>2. DOMAIN todo' = 1 .. q /\ 1 < p /\ p < q /\ p \in Nat /\ q \in Nat
    BY <1>1, Zenon DEF Making
  <2> QED
    BY <2>1, <2>2
<1>5. /\ todo'[p].area = "iNodeTable" /\ todo'[p].index = n /\ todo'[p].value = node
      /\ todo'[q].area = "promise" /\ todo'[q].index = f /\ todo'[q].value = s
  BY <1>1 DEF Making, WriteTo
<1>6. \A k \in DOMAIN todo' :
        /\ todo'[k].area # "image"
        /\ todo'[k].area = "iNodeBitmap" => todo'[k].value = TRUE
        /\ todo'[k].area = "iNodeTable" => k = p
        /\ todo'[k].area = "promise" => k = q
  BY <1>4 DEF Spread
<1>7. /\ NodeWrites' = {p} /\ NodeWrites = {}
  BY <1>2, <1>4, <1>5, <1>6 DEF NodeWrites
<1>8. Live = Occupied /\ Live' = Occupied
  BY <1>2, <1>5, <1>7 DEF Live, Occupied
<1>9. Clean'
  BY <1>2, <1>6 DEF Clean
<1>10. Kept'
  BY <1>2, <1>3, <1>8 DEF Kept, Sized, Place
<1>11. promised[f] = Nothing
  BY <1>2, <1>3, <1>8 DEF Kept, Exists
<1>12. (Target(n, node))'
  BY <1>5, <1>7 DEF Target
<1>13. (Filling(node, s))'
  <2>1. \A i \in 1 .. Len(s) : \E l \in DOMAIN todo' :
          todo'[l].area = "data" /\ todo'[l].index = Place(node, i)
    BY <1>1, <1>4 DEF Making
  <2>2. \A l \in DOMAIN todo' : todo'[l].area = "data" => UnitWrite(todo'[l], node, s)
    BY <1>4 DEF Spread
  <2>3. \A l \in DOMAIN todo' : todo'[l].area = "data" =>
          /\ \E b \in Region(node) : todo'[l].index \in UnitsOf(b)
          /\ \A i \in 1..Len(s) : todo'[l].index = Place(node, i) => todo'[l].value = s[i]
    <3> SUFFICES ASSUME NEW l \in DOMAIN todo', todo'[l].area = "data"
                 PROVE  /\ \E b \in Region(node) : todo'[l].index \in UnitsOf(b)
                        /\ \A i \in 1..Len(s) :
                           todo'[l].index = Place(node, i) => todo'[l].value = s[i]
      OBVIOUS
    <3> QED
      BY <2>2 DEF UnitWrite
  <2> QED
    BY <2>1, <2>3 DEF Filling, Place, UnitsOf, Region, Blocks
<1>14. (DueOf(f, s))'
  BY <1>2, <1>11, <1>12, <1>13 DEF DueOf, Coming, Sized
<1>15. Due'
  <2> SUFFICES ASSUME NEW k \in DOMAIN todo', todo'[k].area = "promise"
               PROVE  \E g, t : g = todo'[k].index /\ t = todo'[k].value /\ (DueOf(g, t))'
    BY DueEach
  <2>1. todo'[k].index = f /\ todo'[k].value = s
    BY <1>5, <1>6
  <2> QED
    BY <1>14, <2>1, Zenon
<1> QED
  BY <1>9, <1>10, <1>15

(* So does one that creates none, if what it clears belongs to no promise. *)
LEMMA PlainKeeps ==
  ASSUME Typed, KeptInv, StartsPlain, Clean /\ Kept => Clean'
  PROVE  KeptInv'
<1>1. misfreed' = misfreed /\ resurrected' = resurrected
  BY DEF StartsPlain
<1> SUFFICES ASSUME ~misfreed, ~resurrected
             PROVE  Clean' /\ Kept' /\ Due'
  BY <1>1 DEF KeptInv
<1>2. Clean /\ Kept /\ Clean'
  BY DEF KeptInv
<1>3. /\ iNodeBitmap' = iNodeBitmap /\ iNodeTable' = iNodeTable /\ data' = data
      /\ \A f \in Names : promised'[f] # Nothing => promised'[f] = promised[f]
      /\ NodeWrites = {} /\ NodeWrites' = {}
      /\ \A k \in DOMAIN todo' : todo'[k].area # "promise"
  BY DEF StartsPlain, NodeWrites, Makes
<1>4. Live' = Live /\ Live \subseteq INodes
  BY <1>3 DEF Live, Occupied
<1>5. Kept'
  BY <1>2, <1>3, <1>4 DEF Kept, Sized, Place
<1>6. Due'
  BY <1>3 DEF Due
<1> QED
  BY <1>2, <1>5, <1>6

(* The commands keep the promises.                                         *)
LEMMA KeptStep ==
  ASSUME Typed, NamesInv, DiskInv, KeptInv, [Next]_vars
  PROVE  KeptInv'
<1>0. DiskTyped
  BY DEF DiskInv
<1>1. CASE mkfs
  <2>1. Clean => NonePromised
    BY <1>1 DEF mkfs, Clean
  <2>2. Clean => Clean'
    BY <1>0, <1>1, <2>1, MkfsStarts DEF Clean, NonePromised
  <2> QED
    BY <1>0, <1>1, <2>2, MkfsStarts, PlainKeeps
<1>2. CASE rmfs
  <2>1. Clean'
    BY <1>2, RmfsStarts DEF Clean, NonePromised
  <2> QED
    BY <1>2, <2>1, RmfsStarts, PlainKeeps
<1>3. ASSUME NEW f \in Names, touch(f)
      PROVE  KeptInv'
  BY <1>0, <1>3, TouchStarts, StartsKeeps
<1>4. ASSUME NEW f \in Names, cp(f)
      PROVE  KeptInv'
  BY <1>0, <1>4, CpStarts, StartsKeeps
<1>5. ASSUME NEW f \in Names, rm(f)
      PROVE  KeptInv'
  <2>1. image = "made" /\ iNodeTable[Found(f)].name = f
    BY <1>5, FoundINode DEF rm
  <2>2. /\ StartsPlain /\ image' = image /\ promised'[f] = Nothing
        /\ \A k \in DOMAIN todo' :
             /\ todo'[k].area # "image"
             /\ todo'[k].area = "iNodeBitmap" => todo'[k].index = Found(f)
    BY <1>0, <1>5, RmStarts
  <2>3. iNodeTable' = iNodeTable
    BY <2>2 DEF StartsPlain
  <2>4. Clean'
    BY <2>1, <2>2, <2>3 DEF Clean
  <2> QED
    BY <2>2, <2>4, PlainKeeps
<1>6. ASSUME NEW f \in Names, load(f)
      PROVE  KeptInv'
  <2>1. /\ StartsPlain /\ promised' = promised /\ image' = image
        /\ \A k \in DOMAIN todo' : todo'[k].area = "host"
    BY <1>0, <1>6, LoadStarts
  <2>2. Clean => Clean'
    BY <2>1 DEF Clean, NonePromised
  <2> QED
    BY <2>1, <2>2, PlainKeeps
<1>7. CASE Write
  BY <1>7, WriteKeeps
<1>8. CASE Kill
  BY <1>8, KillKeeps
<1>9. CASE UNCHANGED vars
  <2>1. /\ image' = image /\ iNodeBitmap' = iNodeBitmap /\ iNodeTable' = iNodeTable /\ data' = data
        /\ todo' = todo /\ promised' = promised
        /\ misfreed' = misfreed /\ resurrected' = resurrected
    BY <1>9 DEF vars, disk, history
  <2>2. (Clean' <=> Clean) /\ (Kept' <=> Kept)
    BY <2>1 DEF Clean, NonePromised, Kept, Sized, Place, Live, Occupied, NodeWrites
  <2>3. Due' <=> Due
    BY <2>1 DEF Due, Target, Filling, Sized, Place, UnitsOf, Region, Blocks, Occupied, NodeWrites
  <2> QED
    BY <2>1, <2>2, <2>3 DEF KeptInv
<1> QED
  BY <1>1, <1>2, <1>3, <1>4, <1>5, <1>6, <1>7, <1>8, <1>9, Zenon DEF Next

(* No file has been promised at first.                                     *)
LEMMA KeptInit ==
  ASSUME Init
  PROVE  KeptInv
<1>1. todo = <<>> /\ \A f \in Names : promised[f] = Nothing
  BY DEF Init
<1> QED
  BY <1>1 DEF KeptInv, Clean, NonePromised, Kept, Due

(* What was promised is read back.                                         *)
LEMMA ReadBack ==
  ASSUME Typed, DiskTyped, Settled, Kept, AtRest, ~resurrected,
         NEW f \in Names, promised[f] # Nothing
  PROVE  /\ Exists(f)
         /\ IF Len(promised[f]) < CLEAN THEN Content(f) = promised[f]
            ELSE /\ Len(Content(f)) >= Len(promised[f])
                 /\ \A k \in DOMAIN promised[f] : Content(f)[k] = promised[f][k]
<1>1. NodeWrites = {} /\ Live = Occupied
  BY DEF AtRest, NodeWrites, Live
<1>2. PICK n \in Occupied :
        /\ iNodeTable[n].name = f
        /\ Sized(iNodeTable[n], promised[f])
        /\ \A i \in 1 .. Len(promised[f]) : data[Place(iNodeTable[n], i)] = promised[f][i]
  BY <1>1 DEF Kept
<1>3. Exists(f)
  BY <1>2, Zenon DEF Exists
<1>4. Found(f) = n
  BY <1>1, <1>2, <1>3, FoundINode, DiskAssumption DEF Settled
<1>5. PICK node, s : node = iNodeTable[n] /\ s = promised[f]
  OBVIOUS
<1>6. node.size \in Nat
  BY <1>2, <1>5 DEF Typed, INodeRecords, Occupied
<1>7. IsSeq(s) /\ Len(s) \in Nat /\ DOMAIN s = 1 .. Len(s) /\ s = [k \in 1 .. Len(s) |-> s[k]]
  <2>1. IsSeq(s)
    BY <1>5 DEF DiskTyped
  <2> QED
    BY <2>1 DEF IsSeq
<1>8. Content(f) = [k \in 1 .. node.size |-> data[Place(node, k)]]
  BY <1>4, <1>5, Zenon DEF Content, Place
<1>9. Len(Content(f)) = node.size /\ \A k \in 1 .. node.size : Content(f)[k] = data[Place(node, k)]
  <2>1. Content(f) = [k \in 1 .. node.size |-> Content(f)[k]]
    BY <1>8
  <2>2. Len(Content(f)) = node.size
    BY <1>6, <2>1, FunctionIsSeq
  <2> QED
    BY <1>8, <2>2
<1>10. \A i \in 1 .. Len(s) : data[Place(node, i)] = s[i]
  BY <1>2, <1>5
<1>11. Len(s) <= node.size /\ (Len(s) < CLEAN => node.size = Len(s))
  BY <1>2, <1>5 DEF Sized
<1>12. CASE Len(s) < CLEAN
  <2>1. Content(f) = [k \in 1 .. Len(s) |-> data[Place(node, k)]]
    BY <1>8, <1>11, <1>12
  <2>2. Content(f) = s
    BY <1>7, <1>10, <2>1
  <2> QED
    BY <1>3, <1>5, <1>12, <2>2
<1>13. CASE ~(Len(s) < CLEAN)
  <2>1. Len(Content(f)) >= Len(s)
    BY <1>6, <1>7, <1>9, <1>11
  <2>2. \A k \in 1 .. Len(s) : Content(f)[k] = s[k]
    BY <1>6, <1>7, <1>9, <1>10, <1>11
  <2> QED
    BY <1>3, <1>5, <1>7, <1>13, <2>1, <2>2
<1> QED
  BY <1>12, <1>13

(* What a command that ended has put on the disk is read back unchanged,   *)
(* whatever commands come after it and wherever one of them is killed,     *)
(* until an rm clears the bit of another file's block or a kill brings an  *)
(* old inode back.                                                         *)
THEOREM VsfsKeepsContents == Spec => []ContentsKeptUntilMisfreed
<1>1. Init => Typed /\ NamesInv /\ DiskInv /\ KeptInv
  BY NamesInit, DiskInit, KeptInit
<1>2. Typed /\ NamesInv /\ DiskInv /\ KeptInv /\ [Next]_vars
        => Typed' /\ NamesInv' /\ DiskInv' /\ KeptInv'
  BY NamesStep, DiskStep, KeptStep
<1>3. Typed /\ NamesInv /\ DiskInv /\ KeptInv => ContentsKeptUntilMisfreed
  <2> SUFFICES ASSUME Typed, NamesInv, DiskInv, KeptInv, ~misfreed, ~resurrected, AtRest,
                      NEW f \in Names, promised[f] # Nothing
               PROVE  /\ Exists(f)
                      /\ IF Len(promised[f]) < CLEAN THEN Content(f) = promised[f]
                         ELSE /\ Len(Content(f)) >= Len(promised[f])
                              /\ \A k \in DOMAIN promised[f] : Content(f)[k] = promised[f][k]
    BY DEF ContentsKeptUntilMisfreed, ContentsKept
  <2>1. DiskTyped /\ Settled /\ Kept
    BY DEF NamesInv, DiskInv, KeptInv
  <2> QED
    BY <2>1, ReadBack
<1> QED
  BY <1>1, <1>2, <1>3, PTL DEF Spec
-----------------------------------------------------------------------------
(* The sum of the sizes, and the space that it needs.                      *)

(* The sums of size over the subsets of S, as fsinfo adds them up: one     *)
(* element after another.                                                  *)
OneOfSet(s) == CHOOSE x \in s : TRUE

Sums(D, size, sum) ==
  sum = [s \in D |-> IF s = {} THEN 0 ELSE size[OneOfSet(s)] + sum[s \ {OneOfSet(s)}]]

(* Fewer elements are left when one has been added.                        *)
LEMMA OneTaken ==
  ASSUME NEW S, IsFiniteSet(S), NEW s, s \subseteq S, s # {}
  PROVE  /\ OneOfSet(s) \in s /\ s \ {OneOfSet(s)} \subseteq S
         /\ Cardinality(s) \in Nat \ {0} /\ Cardinality(s \ {OneOfSet(s)}) = Cardinality(s) - 1
<1>1. IsFiniteSet(s) /\ Cardinality(s) \in Nat
  BY FS_Subset, FS_CardinalityType
<1>2. OneOfSet(s) \in s
  BY DEF OneOfSet
<1>3. Cardinality(s \ {OneOfSet(s)}) = Cardinality(s) - 1
  BY <1>1, <1>2, FS_RemoveElement
<1>4. Cardinality(s) # 0
  BY <1>1, FS_EmptySet
<1> QED
  BY <1>1, <1>2, <1>3, <1>4

(* The sums are defined.                                                   *)
LEMMA SumsExist ==
  ASSUME NEW S, IsFiniteSet(S), NEW size
  PROVE  \E sum : Sums(SUBSET S, size, sum)
<1> DEFINE Small(n) == {s \in SUBSET S : Cardinality(s) <= n}
           bad == {n \in Nat : ~ \E sum : Sums(Small(n), size, sum)}
<1>1. \A s \in SUBSET S : Cardinality(s) \in Nat /\ (Cardinality(s) = 0 <=> s = {})
  BY FS_Subset, FS_CardinalityType, FS_EmptySet
<1>2. bad = {}
  <2> SUFFICES ASSUME bad # {} PROVE FALSE
    OBVIOUS
  <2>1. PICK n \in bad : \A m \in bad : n <= m
    BY MinNat
  <2>2. n # 0
    <3>1. \A s \in Small(0) : s = {}
      BY <1>1
    <3>2. Sums(Small(0), size, [s \in Small(0) |-> 0])
      BY <3>1 DEF Sums
    <3> QED
      BY <2>1, <3>2
  <2>3. n - 1 \in Nat /\ n - 1 \notin bad
    <3>1. n \in Nat
      OBVIOUS
    <3>2. n - 1 \in Nat /\ ~(n <= n - 1)
      BY <2>2, <3>1
    <3> QED
      BY <2>1, <3>2, Zenon
  <2>4. PICK g : Sums(Small(n - 1), size, g)
    BY <2>3
  <2> DEFINE h == [s \in Small(n) |->
                     IF s = {} THEN 0 ELSE size[OneOfSet(s)] + g[s \ {OneOfSet(s)}]]
  <2>5. ASSUME NEW s \in Small(n), s # {}
        PROVE  h[s \ {OneOfSet(s)}] = g[s \ {OneOfSet(s)}]
    <3>1. s \ {OneOfSet(s)} \in Small(n) /\ s \ {OneOfSet(s)} \in Small(n - 1)
      <4>1. /\ s \ {OneOfSet(s)} \subseteq S /\ Cardinality(s) \in Nat \ {0}
            /\ Cardinality(s \ {OneOfSet(s)}) = Cardinality(s) - 1
        BY <2>5, OneTaken
      <4> QED
        BY <2>1, <2>5, <4>1
    <3>2. PICK t : t = s \ {OneOfSet(s)}
      OBVIOUS
    <3>3. h[t] = IF t = {} THEN 0 ELSE size[OneOfSet(t)] + g[t \ {OneOfSet(t)}]
      BY <3>1, <3>2
    <3>4. g[t] = IF t = {} THEN 0 ELSE size[OneOfSet(t)] + g[t \ {OneOfSet(t)}]
      BY <2>4, <3>1, <3>2 DEF Sums
    <3> QED
      BY <3>2, <3>3, <3>4
  <2>6. Sums(Small(n), size, h)
    BY <2>5 DEF Sums
  <2> QED
    BY <2>1, <2>6
<1>3. Cardinality(S) \in Nat /\ Small(Cardinality(S)) = SUBSET S
  <2>1. \A s \in SUBSET S : Cardinality(s) <= Cardinality(S)
    BY FS_Subset
  <2> QED
    BY <2>1, FS_CardinalityType
<1> QED
  BY <1>2, <1>3

(* What the elements of S own, each of them enough for B times its size.   *)
Together(S, own) == UNION {own[n] : n \in S}

Enough(S, size, own, B) ==
  \A n \in S : size[n] \in Nat /\ IsFiniteSet(own[n]) /\ size[n] <= B * Cardinality(own[n])

Separate(S, own) == \A m, n \in S : m # n => own[m] \cap own[n] = {}

Covered(s, own, sum, B) ==
  /\ IsFiniteSet(Together(s, own)) /\ sum[s] \in Nat
  /\ sum[s] <= B * Cardinality(Together(s, own))

(* It is enough for all of them if no two own the same.                    *)
LEMMA SumCovered ==
  ASSUME NEW S, IsFiniteSet(S), NEW size, NEW own, NEW B \in Nat,
         Enough(S, size, own, B), Separate(S, own), NEW sum, Sums(SUBSET S, size, sum)
  PROVE  Covered(S, own, sum, B)
<1> DEFINE bad ==
      {n \in Nat : \E s \in SUBSET S : Cardinality(s) = n /\ ~Covered(s, own, sum, B)}
<1>1. bad = {}
  <2> SUFFICES ASSUME bad # {} PROVE FALSE
    OBVIOUS
  <2>1. PICK n \in bad : \A m \in bad : n <= m
    BY MinNat
  <2>2. PICK s \in SUBSET S : Cardinality(s) = n /\ ~Covered(s, own, sum, B)
    BY <2>1
  <2>3. CASE s = {}
    <3>1. Together(s, own) = {}
      BY <2>3 DEF Together
    <3>2. sum[s] = 0
      BY <2>3 DEF Sums
    <3>3. IsFiniteSet({}) /\ Cardinality({}) = 0
      BY FS_EmptySet
    <3>4. B * 0 = 0 /\ 0 \in Nat /\ 0 <= 0
      OBVIOUS
    <3>5. Covered(s, own, sum, B)
      BY <3>1, <3>2, <3>3, <3>4, Zenon DEF Covered
    <3> QED
      BY <2>2, <3>5
  <2>4. CASE s # {}
    <3>1. PICK x, t : x = OneOfSet(s) /\ t = s \ {x}
      OBVIOUS
    <3>2. x \in S /\ t \in SUBSET S /\ s = t \cup {x} /\ x \notin t /\ Cardinality(t) = n - 1
          /\ n - 1 \in Nat
      <4>1. /\ OneOfSet(s) \in s /\ s \ {OneOfSet(s)} \subseteq S
            /\ Cardinality(s) \in Nat \ {0}
            /\ Cardinality(s \ {OneOfSet(s)}) = Cardinality(s) - 1
        BY <2>4, OneTaken
      <4> QED
        BY <2>2, <3>1, <4>1
    <3>3. Covered(t, own, sum, B)
      <4>1. n - 1 \notin bad
        <5>1. n \in Nat
          OBVIOUS
        <5>2. ~(n <= n - 1)
          BY <5>1
        <5> QED
          BY <2>1, <5>2, Zenon
      <4> QED
        BY <3>2, <4>1
    <3>4. sum[s] = size[x] + sum[t]
      BY <2>4, <3>1 DEF Sums
    <3>5. PICK a, b : a = Together(t, own) /\ b = own[x]
      OBVIOUS
    <3>6. Together(s, own) = a \cup b /\ a \cap b = {}
      BY <3>2, <3>5 DEF Together, Separate
    <3>7. IsFiniteSet(a) /\ IsFiniteSet(b)
      BY <3>2, <3>3, <3>5 DEF Covered, Enough
    <3>8. /\ IsFiniteSet(a \cup b) /\ Cardinality(a \cup b) = Cardinality(a) + Cardinality(b)
          /\ Cardinality(a) \in Nat /\ Cardinality(b) \in Nat
      <4>1. /\ IsFiniteSet(a \cup b)
            /\ Cardinality(a \cup b) = Cardinality(a) + Cardinality(b) - Cardinality(a \cap b)
        BY <3>7, FS_Union
      <4>2. Cardinality(a \cap b) = 0
        BY <3>6, FS_EmptySet
      <4>3. Cardinality(a) \in Nat /\ Cardinality(b) \in Nat
        BY <3>7, FS_CardinalityType
      <4> QED
        BY <4>1, <4>2, <4>3
    <3>9. PICK i \in Nat, j \in Nat : i = Cardinality(a) /\ j = Cardinality(b)
      BY <3>8
    <3>10. size[x] \in Nat /\ sum[t] \in Nat /\ size[x] <= B * j /\ sum[t] <= B * i
      BY <3>2, <3>3, <3>5, <3>9 DEF Covered, Enough
    <3>11. B * (i + j) = B * i + B * j
      OBVIOUS
    <3>12. size[x] + sum[t] \in Nat /\ size[x] + sum[t] <= B * (i + j)
      BY <3>10, <3>11
    <3>13. Covered(s, own, sum, B)
      BY <3>4, <3>6, <3>8, <3>9, <3>12 DEF Covered
    <3> QED
      BY <2>2, <3>13
  <2> QED
    BY <2>3, <2>4
<1>2. Cardinality(S) \in Nat /\ S \in SUBSET S
  BY FS_CardinalityType
<1>3. Covered(S, own, sum, B)
  BY <1>1, <1>2
<1> QED
  BY <1>3

(* A file needs no more than its blocks.                                   *)
LEMMA SizeCovered ==
  ASSUME NEW node, Sound(node)
  PROVE  /\ node.size \in Nat /\ IsFiniteSet(Region(node))
         /\ node.size <= BLOCK * Cardinality(Region(node))
<1>1. node.size \in Nat
  BY DiskAssumption DEF Sound
<1>2. CASE node.size = 0
  <2>1. Region(node) = {} /\ IsFiniteSet({}) /\ Cardinality({}) = 0
    BY <1>2, FS_EmptySet DEF Region
  <2>2. BLOCK * 0 = 0
    BY DiskAssumption
  <2> QED
    BY <1>1, <1>2, <2>1, <2>2
<1>3. CASE node.size # 0
  <2>1. PICK j \in Nat : j = node.startingBlock - dataBlockOffset
    BY <1>3, RegionBlocks, DiskAssumption DEF DataBlocks
  <2>2. PICK d \in Nat \ {0} : d = BLOCK
    BY DiskAssumption
  <2>3. PICK q \in Nat : q = node.size \div d /\ node.size \in q * d .. q * d + d - 1
    BY <1>1, Quotient
  <2>4. Region(node) = j .. j + q
    BY <1>3, <2>1, <2>2, <2>3, RegionBlocks DEF Blocks
  <2>5. IsFiniteSet(j .. j + q) /\ Cardinality(j .. j + q) = q + 1
    <3>1. PICK k \in Nat : k = j + q
      BY <2>1, <2>3
    <3>2. j \in Int /\ k \in Int
      OBVIOUS
    <3>3. IsFiniteSet(j .. k) /\ Cardinality(j .. k) = IF j > k THEN 0 ELSE k - j + 1
      BY <3>2, FS_Interval, Zenon
    <3>4. ~(j > k) /\ k - j + 1 = q + 1
      BY <3>1
    <3> QED
      BY <3>1, <3>3, <3>4
  <2>6. d * (q + 1) = q * d + d /\ q * d \in Nat
    OBVIOUS
  <2>7. node.size <= d * (q + 1)
    BY <1>1, <2>3, <2>6
  <2> QED
    BY <1>1, <2>2, <2>4, <2>5, <2>7, Zenon
<1> QED
  BY <1>2, <1>3

(* The space that fsinfo reports is such a sum.                            *)
LEMMA SpaceUsage ==
  ASSUME NEW size, \A n \in Occupied : size[n] = iNodeTable[n].size
  PROVE  \E sum : Sums(SUBSET Occupied, size, sum) /\ fsinfo.realSpaceUsage = sum[Occupied]
<1> DEFINE Adds(sum) ==
             sum = [s \in SUBSET Occupied |->
                      IF s = {} THEN 0
                      ELSE iNodeTable[CHOOSE x \in s : TRUE].size
                           + sum[s \ {CHOOSE x \in s : TRUE}]]
<1>1. IsFiniteSet(Occupied)
  <2>1. IsFiniteSet(INodes)
    BY DiskAssumption, FS_Interval DEF INodes
  <2>2. Occupied \in SUBSET INodes
    BY DEF Occupied
  <2> QED
    BY <2>1, <2>2, FS_Subset
<1>2. ASSUME NEW sum
      PROVE  Adds(sum) <=> Sums(SUBSET Occupied, size, sum)
  <2>1. \A s \in SUBSET Occupied :
          s # {} => size[OneOfSet(s)] = iNodeTable[CHOOSE x \in s : TRUE].size
    BY DEF OneOfSet
  <2> QED
    BY <2>1 DEF Sums, OneOfSet
<1>3. \E sum : Adds(sum)
  <2>1. PICK sum : Sums(SUBSET Occupied, size, sum)
    BY <1>1, SumsExist, Zenon
  <2>2. Adds(sum)
    BY <1>2, <2>1, Zenon
  <2> QED
    BY <2>2, Zenon
<1>4. PICK sum : sum = CHOOSE it : Adds(it)
  OBVIOUS
<1>5. Adds(sum)
  BY <1>3, <1>4, Zenon
<1>6. fsinfo.realSpaceUsage = sum[Occupied]
  <2>1. fsinfo.realSpaceUsage = MapThenSumSet(LAMBDA n : iNodeTable[n].size, Occupied)
    BY DEF fsinfo
  <2>2. MapThenSumSet(LAMBDA n : iNodeTable[n].size, Occupied) = sum[Occupied]
    BY <1>4 DEF MapThenSumSet, MapThenFoldSet
  <2> QED
    BY <2>1, <2>2
<1> QED
  BY <1>2, <1>5, <1>6

(* The blocks that the files have are those that fsinfo counts and those   *)
(* past the end of the bitmap.                                             *)
LEMMA UsageCovered ==
  ASSUME Typed, DiskTyped, Apart, Marked, Live = Occupied
  PROVE  LET past == (UNION {OwnBlocks(n) : n \in Occupied}) \ DataBlocks
         IN  fsinfo.realSpaceUsage <= BLOCK * (fsinfo.dataBlockCounter + Cardinality(past))
<1>1. PICK size, own : /\ size = [n \in INodes |-> iNodeTable[n].size]
                       /\ own = [n \in INodes |-> OwnBlocks(n)]
  OBVIOUS
<1>2. Occupied \subseteq INodes /\ BLOCK \in Nat
  BY DiskAssumption DEF Occupied
<1>3. PICK sum : Sums(SUBSET Occupied, size, sum) /\ fsinfo.realSpaceUsage = sum[Occupied]
  <2>1. \A n \in Occupied : size[n] = iNodeTable[n].size
    BY <1>1, <1>2
  <2> QED
    BY <2>1, SpaceUsage, Zenon
<1>4. Enough(Occupied, size, own, BLOCK)
  <2> SUFFICES ASSUME NEW n \in Occupied
               PROVE  /\ size[n] \in Nat /\ IsFiniteSet(own[n])
                      /\ size[n] <= BLOCK * Cardinality(own[n])
    BY DEF Enough
  <2>1. size[n] = iNodeTable[n].size /\ own[n] = Region(iNodeTable[n])
    BY <1>1, <1>2, OwnRegions
  <2>2. Sound(iNodeTable[n])
    BY <1>2 DEF DiskTyped
  <2> QED
    BY <2>1, <2>2, SizeCovered, Zenon
<1>5. Separate(Occupied, own)
  BY <1>1, <1>2, OwnRegions DEF Apart, Separate
<1>6. PICK all : all = Together(Occupied, own)
  OBVIOUS
<1>7. IsFiniteSet(all) /\ sum[Occupied] \in Nat /\ sum[Occupied] <= BLOCK * Cardinality(all)
  <2>1. IsFiniteSet(Occupied)
    <3>1. IsFiniteSet(INodes)
      BY DiskAssumption, FS_Interval DEF INodes
    <3> QED
      BY <1>2, <3>1, FS_Subset
  <2>2. Covered(Occupied, own, sum, BLOCK)
    BY <1>2, <1>3, <1>4, <1>5, <2>1, SumCovered, Zenon
  <2> QED
    BY <1>6, <2>2, Zenon DEF Covered
<1>8. all = UNION {OwnBlocks(n) : n \in Occupied}
  BY <1>1, <1>2, <1>6 DEF Together
<1>9. PICK marked, past : /\ marked = {b \in DataBlocks : dataBitmap[b]}
                          /\ past = all \ DataBlocks
  OBVIOUS
<1>10. all \subseteq marked \cup past
  <2> SUFFICES ASSUME NEW n \in Occupied, NEW b \in OwnBlocks(n), b \in DataBlocks
               PROVE  dataBitmap[b]
    BY <1>8, <1>9
  <2> QED
    BY OwnRegions DEF Marked
<1>11. IsFiniteSet(marked) /\ IsFiniteSet(past)
  <2>1. IsFiniteSet(DataBlocks)
    BY DiskAssumption, FS_Interval DEF DataBlocks
  <2>2. marked \in SUBSET DataBlocks /\ past \in SUBSET all
    BY <1>9
  <2> QED
    BY <1>7, <2>1, <2>2, FS_Subset
<1>12. /\ Cardinality(all) \in Nat /\ Cardinality(marked) \in Nat /\ Cardinality(past) \in Nat
       /\ Cardinality(all) <= Cardinality(marked) + Cardinality(past)
  <2>1. /\ IsFiniteSet(marked \cup past)
        /\ Cardinality(marked \cup past) =
             Cardinality(marked) + Cardinality(past) - Cardinality(marked \cap past)
    BY <1>11, FS_Union
  <2>2. marked \cap past = {} /\ Cardinality({}) = 0
    BY <1>9, FS_EmptySet
  <2>3. Cardinality(all) <= Cardinality(marked \cup past)
    <3>1. all \in SUBSET (marked \cup past)
      BY <1>10
    <3> QED
      BY <2>1, <3>1, FS_Subset, Zenon
  <2>4. Cardinality(all) \in Nat /\ Cardinality(marked) \in Nat /\ Cardinality(past) \in Nat
    BY <1>7, <1>11, FS_CardinalityType
  <2>5. Cardinality(marked \cap past) = 0
    BY <2>2
  <2>6. PICK i \in Nat, j \in Nat : i = Cardinality(marked) /\ j = Cardinality(past)
    BY <2>4
  <2>7. Cardinality(marked \cup past) = i + j
    BY <2>1, <2>5, <2>6
  <2> QED
    BY <2>3, <2>4, <2>6, <2>7
<1>13. fsinfo.dataBlockCounter = Cardinality(marked)
  BY <1>9 DEF fsinfo
<1>14. PICK B \in Nat, a \in Nat, m \in Nat, p \in Nat :
         B = BLOCK /\ a = Cardinality(all) /\ m = Cardinality(marked) /\ p = Cardinality(past)
  BY <1>2, <1>12
<1>15. B * a <= B * (m + p) /\ B * a \in Nat /\ B * (m + p) \in Nat
  <2>1. PICK r \in Nat : m + p = a + r
    <3>1. m + p - a \in Nat /\ m + p = a + (m + p - a)
      BY <1>12, <1>14
    <3> QED
      BY <3>1
  <2>2. B * (a + r) = B * a + B * r /\ B * a \in Nat /\ B * r \in Nat
    OBVIOUS
  <2> QED
    BY <2>1, <2>2
<1>16. sum[Occupied] <= B * (m + p)
  BY <1>7, <1>14, <1>15
<1> QED
  BY <1>3, <1>8, <1>9, <1>13, <1>14, <1>16, Zenon

(* Up to the same two cases no block belongs to two files, every block of  *)
(* a file has its bit set, and fsinfo never reports more use than space,   *)
(* whatever rm freed and wherever a command was killed.                    *)
THEOREM VsfsReportsSpace == Spec => []SpaceReported
<1>1. Init => Typed /\ NamesInv /\ DiskInv
  BY NamesInit, DiskInit
<1>2. Typed /\ NamesInv /\ DiskInv /\ [Next]_vars => Typed' /\ NamesInv' /\ DiskInv'
  BY NamesStep, DiskStep
<1>3. Typed /\ DiskInv => SpaceReported
  <2> SUFFICES ASSUME Typed, DiskInv, todo = <<>>, ~misfreed, ~resurrected
               PROVE  /\ \A k, l \in Occupied : k # l => OwnBlocks(k) \intersect OwnBlocks(l) = {}
                      /\ \A n \in Occupied :
                           \A b \in OwnBlocks(n) \intersect DataBlocks : dataBitmap[b]
                      /\ LET past == (UNION {OwnBlocks(n) : n \in Occupied}) \ DataBlocks
                         IN  fsinfo.realSpaceUsage
                               <= BLOCK * (fsinfo.dataBlockCounter + Cardinality(past))
    BY DEF SpaceReported, AtRest
  <2>1. DiskTyped /\ Apart /\ Marked
    BY DEF DiskInv, SpaceInv
  <2>2. Live = Occupied
    BY DEF Live, NodeWrites
  <2>3. \A k, l \in Occupied : k # l => OwnBlocks(k) \intersect OwnBlocks(l) = {}
    BY <2>1, <2>2, OwnRegions DEF Apart
  <2>4. \A n \in Occupied : \A b \in OwnBlocks(n) \intersect DataBlocks : dataBitmap[b]
    BY <2>1, <2>2, OwnRegions DEF Marked
  <2> QED
    BY <2>1, <2>2, <2>3, <2>4, UsageCovered
<1> QED
  BY <1>1, <1>2, <1>3, PTL DEF Spec
=============================================================================
