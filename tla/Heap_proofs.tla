----------------------------- MODULE Heap_proofs -----------------------------
(***************************************************************************)
(* The heap's blocks tile it and its pages are first read in order, for    *)
(* every size of heap, header and page and every size and alignment that   *)
(* is asked for.                                                           *)
(***************************************************************************)
EXTENDS Heap, ListLemmas

Part == [addr: Nat, size: Nat]
Block == [addr: Nat, size: Nat, need: Request, align: Align, ret: Nat]

Shape ==
  /\ free \in Seq(Part) /\ blocks \subseteq Block
  /\ history \in [refused: BOOLEAN, restarted: BOOLEAN] /\ dmmFlag \in BOOLEAN
  /\ touched \subseteq Int

(* The tiling in numbers.                                                  *)
HeapEnd == HeapStart + HeapSize
Inside(x) == HeapStart <= x.addr /\ x.addr + x.size <= HeapEnd /\ Header <= x.size
Apart(x, y) == x.addr + x.size <= y.addr \/ y.addr + y.size <= x.addr
Within(a, x) == x.addr <= a /\ a < x.addr + x.size

Tiles(list, blks) ==
  /\ \A i \in 1 .. Len(list) : Inside(list[i])
  /\ \A b \in blks : Inside(b)
  /\ \A i, j \in 1 .. Len(list) : i # j => Apart(list[i], list[j])
  /\ \A b, c \in blks : b # c => Apart(b, c)
  /\ \A i \in 1 .. Len(list), b \in blks : Apart(list[i], b)
  /\ \A a \in HeapStart .. HeapEnd - 1 :
       (\E i \in 1 .. Len(list) : Within(a, list[i])) \/ \E b \in blks : Within(a, b)

(* Pages are there from the first one on; those of blocks and of the       *)
(* headers of free blocks are.                                             *)
First == HeapStart \div PageSize
InOrder(pages) == \A q \in pages : \A r \in First .. q : r \in pages
Present(list, blks, pages) ==
  /\ InOrder(pages)
  /\ \A b \in blks : PagesOf(b.addr, b.size) \subseteq pages
  /\ \A i \in 1 .. Len(list) : PagesOf(list[i].addr, Header) \subseteq pages

NeverUsed == free = <<>> /\ blocks = {}
IInv ==
  /\ Shape /\ DataFits /\ FlagMeansRefused
  /\ ~history.restarted =>
       /\ InOrder(touched)
       /\ NeverUsed \/ (Tiles(free, blocks) /\ Present(free, blocks, touched))

-----------------------------------------------------------------------------
(* Pages.                                                                  *)

LEMMA PageOf ==
  ASSUME HeapAssumption, NEW a \in Nat, NEW b \in Nat, a <= b
  PROVE  /\ a \div PageSize \in Nat /\ b \div PageSize \in Nat /\ a \div PageSize <= b \div PageSize
         /\ (b + 1) \div PageSize <= b \div PageSize + 1
BY DEF HeapAssumption

LEMMA Multiples ==
  ASSUME NEW n \in Nat \ {0}, NEW d \in Nat, NEW k \in Nat
  PROVE  k * n \in Nat /\ (k * n) % n = 0 /\ (d + k * n) \div n = d \div n + k
<1>1. k * n \in Nat
  OBVIOUS
<1>2. (k * n) % n = 0
  OBVIOUS
<1>3. (d + k * n) \div n = d \div n + k
  OBVIOUS
<1> QED
  BY <1>1, <1>2, <1>3

LEMMA RoundUp ==
  ASSUME NEW n \in Nat \ {0}, NEW d \in Nat
  PROVE  n - (d % n) \in Nat /\ (d + (n - (d % n))) % n = 0
<1>0. PICK q, r : q = d \div n /\ r = d % n
  OBVIOUS
<1>1. q \in Nat /\ r \in Nat /\ r < n
  BY <1>0
<1>2. d = n * q + r
  BY <1>0
<1>3. (q + 1) * n = n * q + n /\ n * q \in Nat
  BY <1>1
<1>4. d + (n - r) = (q + 1) * n
  BY <1>1, <1>2, <1>3
<1>5. ((q + 1) * n) % n = 0
  <2>1. q + 1 \in Nat
    BY <1>1
  <2> QED
    BY <2>1, Multiples
<1> QED
  BY <1>0, <1>1, <1>4, <1>5

\* A run of pages that begins where pages are, or just behind, leaves no hole.
LEMMA RunKeepsOrder ==
  ASSUME NEW pages \in SUBSET Int, InOrder(pages), First \in Int, NEW lo \in Int, NEW hi \in Int,
         lo <= First \/ lo \in pages \/ lo - 1 \in pages
  PROVE  InOrder(pages \cup (lo .. hi))
<1> SUFFICES ASSUME NEW q \in pages \cup (lo .. hi), NEW r \in First .. q
             PROVE  r \in pages \cup (lo .. hi)
  BY DEF InOrder
<1>1. CASE q \in pages
  BY <1>1 DEF InOrder
<1>2. CASE q \in lo .. hi /\ r >= lo
  BY <1>2
<1>3. CASE q \in lo .. hi /\ r < lo
  <2>1. lo \in pages \/ lo - 1 \in pages
    BY <1>3
  <2>2. lo \in pages => r \in First .. lo
    BY <1>3
  <2>3. lo - 1 \in pages => r \in First .. lo - 1
    BY <1>3
  <2> QED
    BY <2>1, <2>2, <2>3 DEF InOrder
<1> QED
  BY <1>1, <1>2, <1>3

\* One read a page from behind the header on misses no page of the block.
LEMMA ReadsAll ==
  ASSUME HeapAssumption, NEW addr \in Nat, NEW size \in Nat, size > Header
  PROVE  PagesOf(addr, Header) \cup Reads(addr, size) = PagesOf(addr, size)
<1>0. PICK d, first, mid, last :
        /\ d = addr + Header /\ first = addr \div PageSize /\ mid = (addr + Header - 1) \div PageSize
        /\ last = (addr + size - 1) \div PageSize
  OBVIOUS
<1>1. Header \in Nat \ {0} /\ PageSize \in Nat \ {0} /\ d \in Nat /\ addr + size - 1 \in Nat
  BY <1>0 DEF HeapAssumption
<1>2. first \in Nat /\ mid \in Nat /\ last \in Nat /\ first <= mid /\ mid <= last
  <2>1. addr \in Nat /\ d - 1 \in Nat /\ addr <= d - 1 /\ d - 1 <= addr + size - 1
    BY <1>0, <1>1
  <2> QED
    BY <1>0, <1>1, <2>1, PageOf
<1>5. PagesOf(addr, Header) = first .. mid /\ PagesOf(addr, size) = first .. last
  BY <1>0 DEF PagesOf
<1>6. last \in Reads(addr, size)
  BY <1>0 DEF Reads
<1>3. ASSUME NEW q \in PagesOf(addr, size) PROVE q \in PagesOf(addr, Header) \cup Reads(addr, size)
  <2>1. q \in Nat /\ first <= q /\ q <= last
    BY <1>2, <1>3, <1>5
  <2>2. CASE q <= mid
    BY <1>2, <1>5, <2>1, <2>2
  <2>3. CASE q = last
    BY <1>6, <2>3
  <2>4. CASE mid < q /\ q < last
    <3>0. PICK k, m, a : k = q - d \div PageSize /\ m = k * PageSize /\ a = d + m
      OBVIOUS
    <3>1. d \div PageSize \in Nat /\ d \div PageSize <= q
      <4>1. (d - 1 + 1) \div PageSize <= (d - 1) \div PageSize + 1
        BY <1>1, PageOf
      <4>2. d - 1 + 1 = d
        BY <1>1
      <4> QED
        BY <1>0, <1>1, <1>2, <2>1, <2>4, <4>1, <4>2, PageOf
    <3>2. k \in Nat /\ k + d \div PageSize = q
      BY <2>1, <3>0, <3>1
    <3>3. m \in Nat
      BY <1>1, <3>0, <3>2, Multiples
    <3>4. (d + m) \div PageSize = d \div PageSize + k
      BY <1>1, <3>0, <3>2, Multiples
    <3>5. a \in Nat /\ a \div PageSize = q /\ d <= a
      BY <1>1, <3>0, <3>2, <3>3, <3>4
    <3>6. a <= addr + size - 1
      <4>1. CASE addr + size - 1 < a
        <5>1. last <= a \div PageSize
          BY <1>0, <1>1, <3>5, <4>1, PageOf
        <5> QED
          BY <1>2, <2>1, <2>4, <3>5, <5>1
      <4> QED
        BY <1>1, <3>5, <4>1
    <3>7. (a - d) % PageSize = 0
      <4>1. a - d = m
        BY <1>1, <3>0, <3>3
      <4>2. m % PageSize = 0
        BY <1>1, <3>0, <3>2, Multiples
      <4> QED
        BY <4>1, <4>2
    <3>8. a - d = a - addr - Header
      BY <1>0, <1>1, <3>5
    <3>9. a \in {b \in addr + Header .. addr + size - 1 : (b - addr - Header) % PageSize = 0}
      BY <1>0, <1>1, <3>5, <3>6, <3>7, <3>8
    <3> QED
      BY <3>5, <3>9 DEF Reads
  <2> QED
    BY <1>2, <2>1, <2>2, <2>3, <2>4
<1>4. ASSUME NEW q \in PagesOf(addr, Header) \cup Reads(addr, size) PROVE q \in PagesOf(addr, size)
  <2>1. CASE q \in PagesOf(addr, Header)
    BY <1>2, <1>5, <2>1
  <2>2. CASE q = last
    BY <1>2, <1>5, <2>2
  <2>3. ASSUME NEW b \in addr + Header .. addr + size - 1, q = b \div PageSize
        PROVE  q \in PagesOf(addr, size)
    <3>1. b \in Nat /\ addr <= b /\ b <= addr + size - 1
      BY <1>1, <2>3
    <3>2. first <= q /\ q <= last /\ q \in Nat
      BY <1>0, <1>1, <2>3, <3>1, PageOf
    <3> QED
      BY <1>2, <1>5, <3>2
  <2> QED
    BY <1>0, <1>4, <2>1, <2>2, <2>3 DEF Reads
<1> QED
  BY <1>3, <1>4

-----------------------------------------------------------------------------
(* The list of free blocks.                                                *)

LEMMA NeededBounds ==
  ASSUME HeapAssumption, NEW block \in Part, NEW n \in Request, NEW align \in Align
  PROVE  LET need == Needed(block, n, align)
             ret  == block.addr + need - n
         IN /\ n \in Nat \ {0} /\ need \in Nat /\ n + Header <= need
            /\ block.addr + Header <= ret /\ (align # 0 => ret % align = 0)
<1>0. PICK d, stuff, need, ret :
        /\ d = block.addr + Header /\ stuff = ByteStuffForAlign(d, align)
        /\ need = Needed(block, n, align) /\ ret = block.addr + need - n
  OBVIOUS
<1>1. block.addr \in Nat /\ Header \in Nat /\ n \in Nat \ {0} /\ align \in Nat /\ d \in Nat
  BY <1>0 DEF HeapAssumption, Part
<1>2. stuff \in Nat /\ (align # 0 => (d + stuff) % align = 0)
  <2>1. CASE align = 0
    BY <1>0, <2>1 DEF ByteStuffForAlign
  <2>2. CASE align # 0 /\ d % align = 0
    BY <1>0, <1>1, <2>2 DEF ByteStuffForAlign
  <2>3. CASE align # 0 /\ d % align # 0
    <3>1. stuff = align - (d % align)
      BY <1>0, <2>3 DEF ByteStuffForAlign
    <3>2. align \in Nat \ {0}
      BY <1>1, <2>3
    <3>3. align - (d % align) \in Nat /\ (d + (align - (d % align))) % align = 0
      BY <1>1, <3>2, RoundUp
    <3> QED
      BY <3>1, <3>3
  <2> QED
    BY <2>1, <2>2, <2>3
<1>3. need = n + Header + stuff
  BY <1>0 DEF Needed
<1>4. ret = d + stuff
  BY <1>0, <1>1, <1>2, <1>3
<1>5. /\ need \in Nat /\ n + Header <= need /\ block.addr + Header <= ret
      /\ (align # 0 => ret % align = 0)
  BY <1>0, <1>1, <1>2, <1>3, <1>4
<1> QED
  BY <1>0, <1>1, <1>5

\* What is left of a block stays in its place when it can hold a header and
\* more than a byte; otherwise the block leaves the list.
LEMMA CutKeeps ==
  ASSUME HeapAssumption, NEW list \in Seq(Part), NEW i \in 1 .. Len(list), NEW need \in Nat, need <= list[i].size,
         list[i].size - need > Header + 1
  PROVE  /\ Cut(list, i, need) \in Seq(Part) /\ Len(Cut(list, i, need)) = Len(list)
         /\ \A j \in 1 .. Len(list) : Cut(list, i, need)[j] =
              IF j = i THEN [addr |-> list[i].addr + need, size |-> list[i].size - need] ELSE list[j]
<1> DEFINE rest == [addr |-> list[i].addr + need, size |-> list[i].size - need]
<1>1. list[i].addr \in Nat /\ list[i].size \in Nat
  <2>1. list[i] \in Part
    OBVIOUS
  <2> QED
    BY <2>1 DEF Part
<1>2. rest \in Part
  BY SMTT(30), <1>1 DEF Part
<1>3. Cut(list, i, need) = [list EXCEPT ![i] = rest]
  BY DEF Cut, ReplaceAt
<1> HIDE DEF rest
<1> QED
  BY <1>2, <1>3 DEF rest

LEMMA CutRemoves ==
  ASSUME NEW list \in Seq(Part), NEW i \in 1 .. Len(list), NEW need,
         ~ (list[i].size - need > Header + 1)
  PROVE  /\ Cut(list, i, need) \in Seq(Part) /\ Len(Cut(list, i, need)) = Len(list) - 1
         /\ \A j \in 1 .. Len(list) - 1 : Cut(list, i, need)[j] = IF j < i THEN list[j] ELSE list[j + 1]
<1>1. Cut(list, i, need) = RemoveAt(list, i)
  BY DEF Cut
<1> QED
  BY <1>1, RemoveAtProperties

LEMMA ApartShrinks ==
  ASSUME NEW x, NEW y, NEW z, x.addr \in Nat, x.size \in Nat, y.addr \in Nat, y.size \in Nat,
         z.addr \in Nat, z.size \in Nat, Apart(x, y), x.addr <= z.addr, z.addr + z.size <= x.addr + x.size
  PROVE  Apart(z, y) /\ Apart(y, z)
BY DEF Apart

LEMMA TilesCut ==
  ASSUME HeapAssumption, NEW list \in Seq(Part), NEW blks \in SUBSET Block, Tiles(list, blks),
         NEW i \in 1 .. Len(list), NEW need \in Nat, Header < need, need <= list[i].size,
         NEW b \in Block, b.addr = list[i].addr,
         b.size = IF list[i].size - need > Header + 1 THEN need ELSE list[i].size
  PROVE  Tiles(Cut(list, i, need), blks \cup {b})
<1> DEFINE new == Cut(list, i, need)
<1>1. /\ Header \in Nat \ {0} /\ HeapStart \in Nat /\ HeapEnd \in Nat
      /\ \A j \in 1 .. Len(list) : list[j].addr \in Nat /\ list[j].size \in Nat
      /\ \A c \in blks \cup {b} : c.addr \in Nat /\ c.size \in Nat
  <2>1. \A j \in 1 .. Len(list) : list[j] \in Part
    OBVIOUS
  <2>2. \A x \in Part : x.addr \in Nat /\ x.size \in Nat
    BY DEF Part
  <2>3. \A c \in blks \cup {b} : c.addr \in Nat /\ c.size \in Nat
    BY DEF Block
  <2>4. Header \in Nat \ {0} /\ HeapStart \in Nat /\ HeapEnd \in Nat
    BY DEF HeapAssumption, HeapEnd
  <2> QED
    BY <2>1, <2>2, <2>3, <2>4
<1>2. /\ \A j \in 1 .. Len(list) : Inside(list[j])
      /\ \A c \in blks : Inside(c) /\ Apart(list[i], c)
  BY DEF Tiles
<1>3. Inside(b) /\ b.size <= list[i].size /\ Header < b.size
  BY SMTT(30), <1>1, <1>2 DEF Inside
<1>4. \A c \in blks : Apart(b, c) /\ Apart(c, b)
  <2>1. list[i].addr <= b.addr /\ b.addr + b.size <= list[i].addr + list[i].size
    BY <1>1, <1>3
  <2> QED
    BY <1>1, <1>2, <2>1, ApartShrinks
<1>5. CASE list[i].size - need > Header + 1
  <2> DEFINE rest == [addr |-> list[i].addr + need, size |-> list[i].size - need]
  <2>1. Len(new) = Len(list) /\ \A j \in 1 .. Len(list) : new[j] = IF j = i THEN rest ELSE list[j]
    BY <1>5, CutKeeps
  <2>2. b.size = need /\ rest.addr = list[i].addr + need /\ rest.size = list[i].size - need
    BY <1>5
  <2> HIDE DEF rest, new
  <2>3. Inside(rest)
    BY SMTT(30), <1>1, <1>2, <1>5, <2>2 DEF Inside
  <2>4. \A j \in 1 .. Len(list) : j # i => Apart(rest, list[j]) /\ Apart(list[j], rest) /\ Apart(list[j], b)
    <3>1. \A j \in 1 .. Len(list) : j # i => Apart(list[i], list[j])
      BY DEF Tiles
    <3>2. /\ rest.addr \in Nat /\ rest.size \in Nat /\ list[i].addr <= rest.addr
          /\ rest.addr + rest.size <= list[i].addr + list[i].size
          /\ list[i].addr <= b.addr /\ b.addr + b.size <= list[i].addr + list[i].size
      BY <1>1, <1>5, <2>2
    <3> QED
      BY <1>1, <3>1, <3>2, ApartShrinks
  <2>5. Apart(rest, b) /\ \A c \in blks : Apart(rest, c)
    <3>1. Apart(rest, b)
      BY <1>1, <2>2 DEF Apart
    <3>2. /\ rest.addr \in Nat /\ rest.size \in Nat /\ list[i].addr <= rest.addr
          /\ rest.addr + rest.size <= list[i].addr + list[i].size
      BY SMTT(30), <1>1, <1>5, <2>2
    <3>3. \A c \in blks : Apart(rest, c)
      BY <1>1, <1>2, <3>2, ApartShrinks
    <3> QED
      BY <3>1, <3>3
  <2>6. \A a \in Int : Within(a, list[i]) => Within(a, rest) \/ Within(a, b)
    BY <1>1, <1>5, <2>2 DEF Within
  <2>7. \A j \in 1 .. Len(new) : Inside(new[j])
    BY <1>2, <2>1, <2>3
  <2>8. \A j, k \in 1 .. Len(new) : j # k => Apart(new[j], new[k])
    BY <2>1, <2>4 DEF Tiles
  <2>9. \A j \in 1 .. Len(new), c \in blks \cup {b} : Apart(new[j], c)
    BY <2>1, <2>4, <2>5 DEF Tiles
  <2>10. \A a \in HeapStart .. HeapEnd - 1 :
           (\E j \in 1 .. Len(new) : Within(a, new[j])) \/ \E c \in blks \cup {b} : Within(a, c)
    <3> TAKE a \in HeapStart .. HeapEnd - 1
    <3>1. CASE \E c \in blks : Within(a, c)
      BY <3>1
    <3>2. ASSUME NEW j \in 1 .. Len(list), Within(a, list[j])
          PROVE  (\E k \in 1 .. Len(new) : Within(a, new[k])) \/ Within(a, b)
      <4>1. j # i => new[j] = list[j]
        BY <2>1
      <4>2. j = i => Within(a, new[j]) \/ Within(a, b)
        BY <1>1, <2>1, <2>6, <3>2
      <4> QED
        BY <2>1, <3>2, <4>1, <4>2
    <3> QED
      BY <3>1, <3>2 DEF Tiles
  <2> QED
    BY <1>2, <1>3, <1>4, <2>7, <2>8, <2>9, <2>10 DEF Tiles, new
<1>6. CASE ~ (list[i].size - need > Header + 1)
  <2>1. Len(new) = Len(list) - 1 /\ \A j \in 1 .. Len(list) - 1 : new[j] = IF j < i THEN list[j] ELSE list[j + 1]
    BY <1>6, CutRemoves
  <2>2. b.size = list[i].size
    BY <1>6
  <2> HIDE DEF new
  <2> DEFINE old(j) == IF j < i THEN j ELSE j + 1
  <2>3. Len(list) \in Nat /\ \A j \in 1 .. Len(new) : old(j) \in 1 .. Len(list) /\ old(j) # i /\ new[j] = list[old(j)]
    BY <2>1
  <2>4. \A j, k \in 1 .. Len(new) : j # k => old(j) # old(k)
    BY <2>1
  <2>5. \A k \in 1 .. Len(list) : k # i => \E j \in 1 .. Len(new) : new[j] = list[k]
    <3> TAKE k \in 1 .. Len(list)
    <3> HAVE k # i
    <3>1. CASE k < i
      BY <2>1, <3>1
    <3>2. CASE i < k
      <4>1. k - 1 \in 1 .. Len(new) /\ ~ (k - 1 < i) /\ k - 1 + 1 = k
        BY <2>1, <3>2
      <4> QED
        BY <2>1, <4>1
    <3> QED
      BY <3>1, <3>2
  <2> HIDE DEF old
  <2>6. \A a \in Int : Within(a, list[i]) => Within(a, b)
    BY <1>1, <2>2 DEF Within
  <2>7. \A j \in 1 .. Len(list) : j # i => Apart(list[j], b)
    <3>1. \A j \in 1 .. Len(list) : j # i => Apart(list[j], list[i])
      BY DEF Tiles
    <3> QED
      BY <2>2, <3>1 DEF Apart
  <2>8. \A j \in 1 .. Len(new) : Inside(new[j])
    BY <1>2, <2>3
  <2>9. \A j, k \in 1 .. Len(new) : j # k => Apart(new[j], new[k])
    BY <2>3, <2>4 DEF Tiles
  <2>10. \A j \in 1 .. Len(new), c \in blks \cup {b} : Apart(new[j], c)
    BY <2>3, <2>7 DEF Tiles
  <2>11. \A a \in HeapStart .. HeapEnd - 1 :
           (\E j \in 1 .. Len(new) : Within(a, new[j])) \/ \E c \in blks \cup {b} : Within(a, c)
    <3> TAKE a \in HeapStart .. HeapEnd - 1
    <3>1. CASE \E c \in blks : Within(a, c)
      BY <3>1
    <3>2. ASSUME NEW j \in 1 .. Len(list), Within(a, list[j])
          PROVE  (\E k \in 1 .. Len(new) : Within(a, new[k])) \/ Within(a, b)
      <4>1. CASE j = i
        BY <1>1, <2>6, <3>2, <4>1
      <4>2. CASE j # i
        BY <2>5, <3>2, <4>2
      <4> QED
        BY <4>1, <4>2
    <3> QED
      BY <3>1, <3>2 DEF Tiles
  <2> QED
    BY <1>2, <1>3, <1>4, <2>8, <2>9, <2>10, <2>11 DEF Tiles, new
<1> QED
  BY <1>5, <1>6

LEMMA TilesReturn ==
  ASSUME NEW list \in Seq(Part), NEW blks \in SUBSET Block, Tiles(list, blks), NEW b \in blks
  PROVE  LET new == <<[addr |-> b.addr, size |-> b.size]>> \o list
         IN new \in Seq(Part) /\ Tiles(new, blks \ {b}) /\ Len(new) = Len(list) + 1
            /\ new[1] = [addr |-> b.addr, size |-> b.size] /\ \A j \in 1 .. Len(list) : new[j + 1] = list[j]
<1> DEFINE x == [addr |-> b.addr, size |-> b.size]
           new == <<x>> \o list
<1>1. x \in Part /\ x.addr = b.addr /\ x.size = b.size
  BY DEF Part, Block
<1> HIDE DEF x
<1>2. /\ new \in Seq(Part) /\ Len(new) = Len(list) + 1 /\ Len(list) \in Nat
      /\ \A j \in 1 .. Len(new) : new[j] = IF j = 1 THEN x ELSE list[j - 1]
  BY <1>1
<1>3. \A j \in 1 .. Len(list) : j + 1 \in 1 .. Len(new) /\ new[j + 1] = list[j]
  BY <1>2
<1>4. new[1] = x /\ 1 \in 1 .. Len(new)
  BY <1>2
<1> HIDE DEF new
<1>5. \A j \in 1 .. Len(new) : j # 1 => j - 1 \in 1 .. Len(list) /\ new[j] = list[j - 1]
  BY <1>2
<1>6. Inside(x) /\ \A c \in blks : c # b => Apart(x, c)
  BY <1>1 DEF Tiles, Inside, Apart
<1>7. \A j \in 1 .. Len(list) : Apart(list[j], x) /\ Apart(x, list[j])
  BY <1>1 DEF Tiles, Apart
<1>8. \A a : Within(a, b) => Within(a, x)
  BY <1>1 DEF Within
<1>9. \A j \in 1 .. Len(new) : Inside(new[j])
  BY <1>4, <1>5, <1>6 DEF Tiles
<1>10. \A j, k \in 1 .. Len(new) : j # k => Apart(new[j], new[k])
  <2> TAKE j, k \in 1 .. Len(new)
  <2> HAVE j # k
  <2>1. CASE j = 1
    BY <1>4, <1>5, <1>7, <2>1
  <2>2. CASE k = 1
    BY <1>4, <1>5, <1>7, <2>2
  <2>3. CASE j # 1 /\ k # 1
    <3>1. j - 1 # k - 1
      BY <1>2
    <3> QED
      BY <1>5, <2>3, <3>1 DEF Tiles
  <2> QED
    BY <2>1, <2>2, <2>3
<1>11. \A j \in 1 .. Len(new), c \in blks \ {b} : Apart(new[j], c)
  BY <1>4, <1>5, <1>6 DEF Tiles
<1>12. \A a \in HeapStart .. HeapEnd - 1 :
         (\E j \in 1 .. Len(new) : Within(a, new[j])) \/ \E c \in blks \ {b} : Within(a, c)
  <2> TAKE a \in HeapStart .. HeapEnd - 1
  <2>1. (\E j \in 1 .. Len(list) : Within(a, list[j])) \/ \E c \in blks : Within(a, c)
    BY DEF Tiles
  <2> QED
    BY <1>3, <1>4, <1>8, <2>1
<1>13. Tiles(new, blks \ {b})
  BY <1>9, <1>10, <1>11, <1>12 DEF Tiles
<1> QED
  BY <1>2, <1>3, <1>4, <1>13 DEF new, x

\* The first call makes one block of the heap and reads its header.
LEMMA ListTiles ==
  ASSUME HeapAssumption, IInv, ~history.restarted, ~(free = <<>> /\ blocks # {}),
         NEW pages, pages = touched \cup PagesOf(HeapStart, Header)
  PROVE  Tiles(List, blocks) /\ Present(List, blocks, pages)
<1>1. HeapStart \in Nat /\ Header \in Nat \ {0} /\ HeapSize \in Nat /\ Header < HeapSize /\ PageSize \in Nat \ {0}
  BY DEF HeapAssumption
<1>2. InOrder(pages)
  <2>1. InOrder(touched) /\ touched \subseteq Int
    BY DEF IInv, Shape
  <2>2. PICK hi \in Int : PagesOf(HeapStart, Header) = First .. hi
    BY <1>1 DEF PagesOf, First
  <2>3. First \in Int
    BY <1>1 DEF First
  <2> QED
    BY <2>1, <2>2, <2>3, RunKeepsOrder
<1>3. CASE NeverUsed
  <2> DEFINE whole == [addr |-> HeapStart, size |-> HeapSize]
  <2>1. List = <<whole>> /\ blocks = {}
    BY <1>3 DEF List, NeverUsed
  <2>2. Len(List) = 1 /\ List[1] = whole /\ whole.addr = HeapStart /\ whole.size = HeapSize
    BY <2>1
  <2> HIDE DEF whole
  <2>3. Inside(whole) /\ \A a \in HeapStart .. HeapEnd - 1 : Within(a, whole)
    BY <1>1, <2>2 DEF Inside, Within, HeapEnd
  <2>4. Tiles(List, blocks)
    BY <2>1, <2>2, <2>3 DEF Tiles
  <2>5. Present(List, blocks, pages)
    BY <1>2, <2>1, <2>2 DEF Present
  <2> QED
    BY <2>4, <2>5
<1>4. CASE ~NeverUsed
  <2>1. List = free
    BY <1>4 DEF List, NeverUsed
  <2>2. Tiles(free, blocks) /\ Present(free, blocks, touched)
    BY <1>4 DEF IInv
  <2>3. Present(free, blocks, pages)
    BY <1>2, <2>2 DEF Present
  <2> QED
    BY <2>1, <2>2, <2>3
<1> QED
  BY <1>3, <1>4

LEMMA ListType ==
  ASSUME HeapAssumption, Shape
  PROVE  List \in Seq(Part)
<1>1. [addr |-> HeapStart, size |-> HeapSize] \in Part
  BY DEF HeapAssumption, Part
<1> QED
  BY <1>1 DEF List, Shape

\* The page behind a block is its last page or the next one.
LEMMA JustBehind ==
  ASSUME HeapAssumption, NEW a \in Nat, NEW s \in Nat \ {0}
  PROVE  /\ (a + s) \div PageSize \in Nat /\ (a + s + Header - 1) \div PageSize \in Int
         /\ (a + s - 1) \div PageSize <= (a + s) \div PageSize
         /\ (a + s) \div PageSize <= (a + s - 1) \div PageSize + 1
<1>1. PageSize \in Nat \ {0} /\ Header \in Nat
  BY DEF HeapAssumption
<1>2. PICK e \in Nat : e = a + s - 1 /\ e + 1 = a + s
  OBVIOUS
<1>3. e \div PageSize <= (e + 1) \div PageSize /\ (e + 1) \div PageSize <= e \div PageSize + 1
  BY <1>2, PageOf
<1> QED
  BY <1>1, <1>2, <1>3

\* The pages of a new block, and of the header of what is left, follow pages
\* that are there.
LEMMA PresentCut ==
  ASSUME HeapAssumption, NEW list \in Seq(Part), NEW blks \in SUBSET Block,
         NEW pages \in SUBSET Int, Present(list, blks, pages),
         NEW i \in 1 .. Len(list), NEW need \in Nat, Header < need, need <= list[i].size,
         NEW b \in Block, b.addr = list[i].addr,
         b.size = IF list[i].size - need > Header + 1 THEN need ELSE list[i].size,
         NEW next, next = IF list[i].size - need > Header + 1 THEN PagesOf(b.addr + need, Header) ELSE {},
         HeapStart <= b.addr
  PROVE  Present(Cut(list, i, need), blks \cup {b}, pages \cup PagesOf(b.addr, b.size) \cup next)
<1> DEFINE new == Cut(list, i, need)
<1>1. /\ Header \in Nat \ {0} /\ PageSize \in Nat \ {0} /\ HeapStart \in Nat
      /\ b.addr \in Nat /\ b.size \in Nat /\ Header < b.size /\ list[i].size \in Nat
  <2>1. list[i] \in Part
    OBVIOUS
  <2>2. list[i].size \in Nat
    BY <2>1 DEF Part
  <2>3. Header \in Nat \ {0} /\ PageSize \in Nat \ {0} /\ HeapStart \in Nat /\ b.addr \in Nat /\ b.size \in Nat
    BY DEF HeapAssumption, Block
  <2> QED
    BY <2>2, <2>3
<1>2. PICK lo, mid, hi : /\ lo = b.addr \div PageSize /\ mid = (b.addr + Header - 1) \div PageSize
                         /\ hi = (b.addr + b.size - 1) \div PageSize
  OBVIOUS
<1>3. lo \in Nat /\ mid \in Nat /\ hi \in Nat /\ lo <= mid /\ lo <= hi /\ First \in Nat
  <2>1. b.addr + Header - 1 \in Nat /\ b.addr + b.size - 1 \in Nat /\ b.addr <= b.addr + Header - 1
        /\ b.addr <= b.addr + b.size - 1
    BY SMTT(30), <1>1
  <2> QED
    BY <1>1, <1>2, <2>1, PageOf DEF First
<1>4. PagesOf(b.addr, b.size) = lo .. hi /\ PagesOf(b.addr, Header) = lo .. mid
  BY <1>2 DEF PagesOf
<1>5. lo \in pages
  <2>1. PagesOf(b.addr, Header) \subseteq pages
    BY DEF Present
  <2> QED
    BY <1>3, <1>4, <2>1
<1>6. InOrder(pages \cup (lo .. hi))
  BY <1>3, <1>5, RunKeepsOrder DEF Present
<1>7. CASE list[i].size - need > Header + 1
  <2> DEFINE all == pages \cup PagesOf(b.addr, b.size) \cup next
  <2>0. b.size = need /\ next = PagesOf(b.addr + need, Header)
    BY <1>7
  <2>1. PICK lo2, hi2 : lo2 = (b.addr + need) \div PageSize /\ hi2 = (b.addr + need + Header - 1) \div PageSize
    OBVIOUS
  <2>2. next = lo2 .. hi2
    BY <2>0, <2>1 DEF PagesOf
  <2>3. lo2 \in Nat /\ hi2 \in Int /\ hi <= lo2 /\ lo2 <= hi + 1
    <3>1. b.addr \in Nat /\ need \in Nat \ {0}
      BY <1>1, <2>0
    <3>2. hi = (b.addr + need - 1) \div PageSize
      BY <1>2, <2>0
    <3> QED
      BY <2>1, <3>1, <3>2, JustBehind
  <2>4. lo2 \in pages \cup (lo .. hi) \/ lo2 - 1 \in pages \cup (lo .. hi)
    BY <1>3, <2>3
  <2>5. InOrder(all)
    <3>0. pages \cup (lo .. hi) \in SUBSET Int
      <4>1. lo .. hi \subseteq Int
        OBVIOUS
      <4> QED
        BY <4>1, Zenon
    <3>1. PICK so \in SUBSET Int : so = pages \cup (lo .. hi)
      BY <3>0, Zenon
    <3>2. First \in Int
      BY <1>3
    <3>3. InOrder(so \cup (lo2 .. hi2))
      <4>1. InOrder(so) /\ (lo2 \in so \/ lo2 - 1 \in so) /\ lo2 \in Int /\ hi2 \in Int
        BY <1>6, <2>3, <2>4, <3>1
      <4> QED
        BY <3>2, <4>1, RunKeepsOrder
    <3>4. all = so \cup (lo2 .. hi2)
      BY <1>4, <2>2, <3>1
    <3> QED
      BY <3>3, <3>4
  <2>6. Len(new) = Len(list) /\ \A j \in 1 .. Len(list) :
          new[j] = IF j = i THEN [addr |-> list[i].addr + need, size |-> list[i].size - need] ELSE list[j]
    BY <1>7, CutKeeps
  <2> HIDE DEF new
  <2>7. ASSUME NEW j \in 1 .. Len(new) PROVE PagesOf(new[j].addr, Header) \subseteq all
    <3>1. CASE j = i
      BY <2>0, <2>6, <3>1
    <3>2. CASE j # i
      BY <2>6, <3>2 DEF Present
    <3> QED
      BY <3>1, <3>2
  <2> QED
    BY <2>5, <2>7 DEF Present, new
<1>8. CASE ~ (list[i].size - need > Header + 1)
  <2> DEFINE all == pages \cup PagesOf(b.addr, b.size) \cup next
  <2>1. next = {}
    BY <1>8
  <2>2. InOrder(all)
    <3>1. all = pages \cup (lo .. hi)
      BY <1>4, <2>1
    <3> QED
      BY <1>6, <3>1
  <2>3. Len(new) = Len(list) - 1 /\ \A j \in 1 .. Len(list) - 1 : new[j] = IF j < i THEN list[j] ELSE list[j + 1]
    BY <1>8, CutRemoves
  <2> HIDE DEF new
  <2>4. ASSUME NEW j \in 1 .. Len(new) PROVE PagesOf(new[j].addr, Header) \subseteq all
    <3>1. PICK k \in 1 .. Len(list) : new[j] = list[k]
      BY <2>3
    <3> QED
      BY <3>1 DEF Present
  <2> QED
    BY <2>2, <2>4 DEF Present, new
<1> QED
  BY <1>7, <1>8

-----------------------------------------------------------------------------
(* The steps.                                                              *)

LEMMA InitHolds ==
  ASSUME HeapAssumption, Init
  PROVE  IInv
<1>1. Shape
  <2>1. free \in Seq(Part)
    BY DEF Init
  <2>2. history \in [refused: BOOLEAN, restarted: BOOLEAN]
    BY DEF Init
  <2> QED
    BY <2>1, <2>2 DEF Init, Shape
<1>2. InOrder(touched)
  BY DEF Init, InOrder
<1> QED
  BY <1>1, <1>2 DEF Init, IInv, DataFits, FlagMeansRefused, NeverUsed

LEMMA AllocateHolds ==
  ASSUME HeapAssumption, IInv, ~history.restarted, NEW n \in Request, NEW align \in Align, Allocate(n, align)
  PROVE  IInv'
<1>1. List \in Seq(Part) /\ blocks \in SUBSET Block /\ touched \in SUBSET Int
  BY ListType DEF IInv, Shape
<1>2. PICK list, i : list = List /\ i \in DOMAIN List /\
        LET block == List[i]
            need  == Needed(block, n, align)
            rest  == Cut(List, i, need)
            size  == IF Len(rest) = Len(List) THEN need ELSE block.size
        IN /\ need <= block.size
           /\ free' = rest
           /\ blocks' = blocks \cup {[addr |-> block.addr, size |-> size, need |-> n, align |-> align,
                                      ret |-> block.addr + need - n]}
           /\ touched' = touched \cup PagesOf(HeapStart, Header) \cup PagesOf(block.addr, Header) \cup Reads(block.addr, size)
                \cup (IF size = need /\ size # block.size THEN PagesOf(block.addr + need, Header) ELSE {})
  BY DEF Allocate
<1>3. list \in Seq(Part) /\ i \in 1 .. Len(list)
  BY <1>1, <1>2
<1>4. PICK need : need = Needed(list[i], n, align)
  OBVIOUS
<1>5. list[i] \in Part
  BY <1>3
<1>6. list[i].addr \in Nat /\ list[i].size \in Nat
  BY <1>5 DEF Part
<1>7. /\ n \in Nat \ {0} /\ need \in Nat /\ n + Header <= need /\ Header < need /\ need <= list[i].size
      /\ list[i].addr + Header <= list[i].addr + need - n
      /\ (align # 0 => (list[i].addr + need - n) % align = 0)
  <2>1. /\ n \in Nat \ {0} /\ need \in Nat /\ n + Header <= need
        /\ list[i].addr + Header <= list[i].addr + need - n
        /\ (align # 0 => (list[i].addr + need - n) % align = 0)
    BY <1>4, <1>5, NeededBounds
  <2>2. Header \in Nat
    BY DEF HeapAssumption
  <2> QED
    BY <1>2, <1>4, <2>1, <2>2
<1>8. PICK size : size = IF list[i].size - need > Header + 1 THEN need ELSE list[i].size
  OBVIOUS
<1>9. (IF Len(Cut(list, i, need)) = Len(list) THEN need ELSE list[i].size) = size
  <2>1. CASE list[i].size - need > Header + 1
    BY <1>3, <1>7, <1>8, <2>1, CutKeeps
  <2>2. CASE ~ (list[i].size - need > Header + 1)
    <3>1. Len(Cut(list, i, need)) = Len(list) - 1
      BY <1>3, <1>7, <2>2, CutRemoves
    <3>2. Len(list) \in Nat
      BY <1>3
    <3> QED
      BY <1>8, <2>2, <3>1, <3>2
  <2> QED
    BY <2>1, <2>2
<1>10. PICK b : b = [addr |-> list[i].addr, size |-> size, need |-> n, align |-> align,
                     ret |-> list[i].addr + need - n]
  OBVIOUS
<1>11. size \in Nat /\ need <= size /\ Header < size /\ size <= list[i].size
  BY <1>6, <1>7, <1>8 DEF HeapAssumption
<1>12. b \in Block /\ b.addr = list[i].addr /\ b.size = size /\ b.need = n /\ b.align = align
       /\ b.ret = list[i].addr + need - n
  <2>1. list[i].addr + need - n \in Nat
    BY <1>6, <1>7 DEF HeapAssumption
  <2> QED
    BY <1>6, <1>10, <1>11, <2>1 DEF Block
<1>13. PICK next : next = IF list[i].size - need > Header + 1 THEN PagesOf(b.addr + need, Header) ELSE {}
  OBVIOUS
<1>14. PICK pages : pages = touched \cup PagesOf(HeapStart, Header)
  OBVIOUS
<1>15. free' = Cut(list, i, need) /\ blocks' = blocks \cup {b}
  BY <1>2, <1>4, <1>9, <1>10
<1>16. touched' = pages \cup PagesOf(b.addr, b.size) \cup next
  <2>1. (size = need /\ size # list[i].size) <=> list[i].size - need > Header + 1
    <3>1. Header \in Nat
      BY DEF HeapAssumption
    <3> QED
      BY <1>6, <1>7, <1>8, <3>1
  <2>2. touched' = touched \cup PagesOf(HeapStart, Header) \cup PagesOf(b.addr, Header) \cup Reads(b.addr, size)
                     \cup (IF size = need /\ size # list[i].size THEN PagesOf(b.addr + need, Header) ELSE {})
    BY <1>2, <1>4, <1>9, <1>12
  <2>3. PagesOf(b.addr, Header) \cup Reads(b.addr, size) = PagesOf(b.addr, b.size)
    BY <1>6, <1>11, <1>12, ReadsAll
  <2>4. (IF size = need /\ size # list[i].size THEN PagesOf(b.addr + need, Header) ELSE {}) = next
    BY <1>13, <2>1
  <2> QED
    BY <1>14, <2>2, <2>3, <2>4
<1>17. history' = [history EXCEPT !.restarted = @ \/ (free = <<>> /\ blocks # {})] /\ dmmFlag' = FALSE
  BY DEF Allocate
<1>18. history \in [refused: BOOLEAN, restarted: BOOLEAN]
  BY DEF IInv, Shape
<1>19. /\ history' \in [refused: BOOLEAN, restarted: BOOLEAN]
       /\ history'.restarted <=> (free = <<>> /\ blocks # {})
  BY <1>17, <1>18
<1>20. Shape'
  <2>1. Cut(list, i, need) \in Seq(Part)
    BY <1>3, <1>7, CutKeeps, CutRemoves
  <2>2. PagesOf(HeapStart, Header) \subseteq Int /\ PagesOf(b.addr, b.size) \subseteq Int /\ next \subseteq Int
    BY <1>13 DEF PagesOf
  <2>3. touched' \subseteq Int
    BY <1>1, <1>14, <1>16, <2>2
  <2>4. free' \in Seq(Part) /\ blocks' \subseteq Block
    BY <1>1, <1>12, <1>15, <2>1
  <2> QED
    BY <1>17, <1>19, <2>3, <2>4 DEF Shape
<1>21. DataFits'
  <2>1. /\ b.addr + Header <= b.ret /\ b.ret + b.need <= b.addr + b.size
        /\ b.align # 0 => b.ret % b.align = 0
    BY <1>6, <1>7, <1>11, <1>12
  <2> QED
    BY <1>15, <2>1 DEF IInv, DataFits
<1>22. FlagMeansRefused'
  BY <1>17 DEF FlagMeansRefused
<1>23. ASSUME ~history'.restarted
       PROVE  InOrder(touched)' /\ Tiles(free, blocks)' /\ Present(free, blocks, touched)'
  <2>1. Tiles(list, blocks) /\ Present(list, blocks, pages)
    BY <1>2, <1>14, <1>19, <1>23, ListTiles
  <2>2. Tiles(Cut(list, i, need), blocks \cup {b})
    BY <1>1, <1>3, <1>7, <1>8, <1>12, <2>1, TilesCut
  <2>3. pages \in SUBSET Int
    <3>1. PagesOf(HeapStart, Header) \subseteq Int
      BY DEF PagesOf
    <3> QED
      BY <1>1, <1>14, <3>1
  <2>4. HeapStart <= b.addr
    BY <1>3, <1>12, <2>1 DEF Tiles, Inside
  <2>5. Present(Cut(list, i, need), blocks \cup {b}, pages \cup PagesOf(b.addr, b.size) \cup next)
    BY <1>1, <1>3, <1>7, <1>8, <1>12, <1>13, <2>1, <2>3, <2>4, PresentCut
  <2> QED
    BY <1>15, <1>16, <2>2, <2>5 DEF Present
<1> QED
  BY <1>20, <1>21, <1>22, <1>23 DEF IInv

LEMMA OutOfMemoryHolds ==
  ASSUME HeapAssumption, IInv, ~history.restarted, NEW n \in Request, NEW align \in Align, OutOfMemory(n, align)
  PROVE  IInv'
<1>1. /\ free' = List /\ touched' = touched \cup PagesOf(HeapStart, Header) /\ blocks' = blocks
      /\ history' = [refused |-> TRUE, restarted |-> history.restarted \/ (free = <<>> /\ blocks # {})]
      /\ dmmFlag' = TRUE
  BY DEF OutOfMemory
<1>2. Shape'
  <2>1. List \in Seq(Part) /\ blocks \subseteq Block /\ touched \subseteq Int /\ history.restarted \in BOOLEAN
    BY ListType DEF IInv, Shape
  <2>2. touched' \subseteq Int
    <3>1. PagesOf(HeapStart, Header) \subseteq Int
      BY DEF PagesOf
    <3> QED
      BY <1>1, <2>1, <3>1
  <2>3. history' \in [refused: BOOLEAN, restarted: BOOLEAN]
    BY <1>1, <2>1
  <2> QED
    BY <1>1, <2>1, <2>2, <2>3 DEF Shape
<1>3. DataFits' /\ FlagMeansRefused'
  BY <1>1 DEF IInv, DataFits, FlagMeansRefused
<1>4. ASSUME ~history'.restarted
      PROVE  InOrder(touched)' /\ Tiles(free, blocks)' /\ Present(free, blocks, touched)'
  <2>1. ~(free = <<>> /\ blocks # {})
    BY <1>1, <1>4
  <2>2. PICK pages : pages = touched \cup PagesOf(HeapStart, Header)
    OBVIOUS
  <2>3. Tiles(List, blocks) /\ Present(List, blocks, pages)
    BY <2>1, <2>2, ListTiles
  <2> QED
    BY <1>1, <2>2, <2>3 DEF Present
<1> QED
  BY <1>2, <1>3, <1>4 DEF IInv

LEMMA HeaderPages ==
  ASSUME HeapAssumption, NEW a \in Nat, NEW s \in Nat, Header <= s
  PROVE  PagesOf(a, Header) \subseteq PagesOf(a, s)
<1>1. Header \in Nat \ {0} /\ PageSize \in Nat \ {0}
  BY DEF HeapAssumption
<1>2. PICK x \in Nat, y \in Nat : x = a + Header - 1 /\ y = a + s - 1
  BY <1>1
<1>3. x \div PageSize <= y \div PageSize /\ x \div PageSize \in Nat /\ y \div PageSize \in Nat
  BY <1>1, <1>2, PageOf
<1> QED
  BY <1>1, <1>2, <1>3 DEF PagesOf

LEMMA DeAllocateHolds ==
  ASSUME HeapAssumption, IInv, ~history.restarted, NEW b \in blocks, DeAllocate(b)
  PROVE  IInv'
<1>1. /\ free' = <<[addr |-> b.addr, size |-> b.size]>> \o free /\ blocks' = blocks \ {b}
      /\ touched' = touched /\ dmmFlag' = dmmFlag /\ history' = history
  BY DEF DeAllocate
<1>2. free \in Seq(Part) /\ blocks \in SUBSET Block
  BY DEF IInv, Shape
<1>3. InOrder(touched) /\ Tiles(free, blocks) /\ Present(free, blocks, touched)
  BY DEF IInv, NeverUsed
<1>4. /\ free' \in Seq(Part) /\ Tiles(free', blocks') /\ Len(free') = Len(free) + 1
      /\ free'[1] = [addr |-> b.addr, size |-> b.size] /\ \A j \in 1 .. Len(free) : free'[j + 1] = free[j]
  BY <1>1, <1>2, <1>3, TilesReturn
<1>5. Shape'
  BY <1>1, <1>4 DEF IInv, Shape
<1>6. DataFits' /\ FlagMeansRefused'
  BY <1>1 DEF IInv, DataFits, FlagMeansRefused
<1>7. Present(free, blocks, touched)'
  <2>1. PagesOf(b.addr, Header) \subseteq touched
    <3>1. PagesOf(b.addr, b.size) \subseteq touched
      BY <1>3 DEF Present
    <3>2. b.addr \in Nat /\ b.size \in Nat /\ Header \in Nat \ {0} /\ Header <= b.size
      BY <1>2, <1>3 DEF Block, Tiles, Inside, HeapAssumption
    <3>3. PagesOf(b.addr, Header) \subseteq PagesOf(b.addr, b.size)
      BY <3>2, HeaderPages
    <3> QED
      BY <3>1, <3>3
  <2>2. ASSUME NEW j \in 1 .. Len(free') PROVE PagesOf(free'[j].addr, Header) \subseteq touched
    <3>1. CASE j = 1
      BY <1>4, <2>1, <3>1
    <3>2. CASE j # 1
      <4>1. PICK k \in 1 .. Len(free) : j = k + 1
        <5>1. j - 1 \in 1 .. Len(free) /\ j = j - 1 + 1
          BY <1>2, <1>4, <3>2
        <5> QED
          BY <5>1
      <4>2. free'[j] = free[k]
        BY <1>4, <4>1
      <4> QED
        BY <1>3, <4>2 DEF Present
    <3> QED
      BY <3>1, <3>2
  <2> QED
    BY <1>1, <1>3, <2>2 DEF Present
<1> QED
  BY <1>1, <1>3, <1>4, <1>5, <1>6, <1>7 DEF IInv

LEMMA StepHolds ==
  ASSUME HeapAssumption, IInv, [Next]_vars
  PROVE  IInv'
<1>1. ASSUME ~history.restarted, NEW n \in Request, NEW align \in Align, Allocate(n, align) PROVE IInv'
  BY <1>1, AllocateHolds
<1>2. ASSUME ~history.restarted, NEW n \in Request, NEW align \in Align, OutOfMemory(n, align) PROVE IInv'
  BY <1>2, OutOfMemoryHolds
<1>3. ASSUME ~history.restarted, NEW b \in blocks, DeAllocate(b) PROVE IInv'
  BY <1>3, DeAllocateHolds
<1>4. CASE UNCHANGED vars
  BY <1>4 DEF vars, IInv, Shape, DataFits, FlagMeansRefused, NeverUsed
<1> QED
  BY <1>1, <1>2, <1>3, <1>4 DEF Next

LEMMA InvHolds == ASSUME HeapAssumption PROVE Spec => []IInv
<1>1. Init => IInv
  BY InitHolds
<1>2. IInv /\ [Next]_vars => IInv'
  BY StepHolds
<1> QED
  BY <1>1, <1>2, PTL DEF Spec

-----------------------------------------------------------------------------
(* What a reader of the heap relies on.                                    *)

\* Bytes apart have no byte in common.
LEMMA ApartIsDisjoint ==
  ASSUME NEW a \in Nat, NEW s \in Nat, NEW c \in Nat, NEW z \in Nat, a + s <= c \/ c + z <= a
  PROVE  Bytes(a, s) \cap Bytes(c, z) = {}
BY DEF Bytes

LEMMA TilesIsTiling ==
  ASSUME HeapAssumption, IInv, ~history.restarted, ~NeverUsed
  PROVE  /\ \A i \in DOMAIN free : free[i].size >= Header
         /\ \A i, j \in DOMAIN free : i # j => FreePart(i) \cap FreePart(j) = {}
         /\ \A b, c \in blocks : b # c => Bytes(b.addr, b.size) \cap Bytes(c.addr, c.size) = {}
         /\ \A i \in DOMAIN free, b \in blocks : FreePart(i) \cap Bytes(b.addr, b.size) = {}
         /\ UNION ({FreePart(i) : i \in DOMAIN free} \cup {Bytes(b.addr, b.size) : b \in blocks})
              = Bytes(HeapStart, HeapSize)
<1>1. free \in Seq(Part) /\ blocks \in SUBSET Block /\ Tiles(free, blocks) /\ DOMAIN free = 1 .. Len(free)
  BY DEF IInv, Shape
<1>2. HeapStart \in Nat /\ HeapSize \in Nat /\ Header \in Nat
  BY DEF HeapAssumption
<1>3. \A i \in DOMAIN free : free[i].addr \in Nat /\ free[i].size \in Nat /\ Inside(free[i])
  <2> TAKE i \in DOMAIN free
  <2>1. free[i] \in Part
    BY <1>1
  <2> QED
    BY <1>1, <2>1 DEF Part, Tiles
<1>4. \A b \in blocks : b.addr \in Nat /\ b.size \in Nat /\ Inside(b)
  BY <1>1 DEF Block, Tiles
<1>5. \A i \in DOMAIN free : free[i].size >= Header
  BY <1>2, <1>3 DEF Inside
<1>6. ASSUME NEW i \in DOMAIN free, NEW j \in DOMAIN free, i # j PROVE FreePart(i) \cap FreePart(j) = {}
  <2>1. Apart(free[i], free[j])
    BY <1>1, <1>6 DEF Tiles
  <2> QED
    BY <1>3, <2>1, ApartIsDisjoint DEF Apart, FreePart
<1>7. ASSUME NEW b \in blocks, NEW c \in blocks, b # c PROVE Bytes(b.addr, b.size) \cap Bytes(c.addr, c.size) = {}
  <2>1. Apart(b, c)
    BY <1>1, <1>7 DEF Tiles
  <2> QED
    BY <1>4, <2>1, ApartIsDisjoint DEF Apart
<1>8. ASSUME NEW i \in DOMAIN free, NEW b \in blocks PROVE FreePart(i) \cap Bytes(b.addr, b.size) = {}
  <2>1. Apart(free[i], b)
    BY <1>1, <1>8 DEF Tiles
  <2> QED
    BY <1>3, <1>4, <2>1, ApartIsDisjoint DEF Apart, FreePart
<1>9. \A i \in DOMAIN free : \A a : a \in FreePart(i) <=> a \in Int /\ Within(a, free[i])
  BY <1>3 DEF FreePart, Bytes, Within
<1>10. \A b \in blocks : \A a : a \in Bytes(b.addr, b.size) <=> a \in Int /\ Within(a, b)
  BY <1>4 DEF Bytes, Within
<1>11. \A a : a \in Bytes(HeapStart, HeapSize) <=> a \in Int /\ HeapStart <= a /\ a < HeapEnd
  BY <1>2 DEF Bytes, HeapEnd
<1>12. ASSUME NEW a \in Bytes(HeapStart, HeapSize)
       PROVE  a \in UNION ({FreePart(i) : i \in DOMAIN free} \cup {Bytes(b.addr, b.size) : b \in blocks})
  <2>1. a \in HeapStart .. HeapEnd - 1 /\ a \in Int
    BY <1>2, <1>11 DEF HeapEnd
  <2>2. (\E i \in 1 .. Len(free) : Within(a, free[i])) \/ \E b \in blocks : Within(a, b)
    BY <1>1, <2>1 DEF Tiles
  <2> QED
    BY <1>1, <1>9, <1>10, <2>1, <2>2
<1>13. ASSUME NEW i \in DOMAIN free, NEW a \in FreePart(i) PROVE a \in Bytes(HeapStart, HeapSize)
  BY <1>2, <1>3, <1>9, <1>11 DEF Inside, Within, HeapEnd
<1>14. ASSUME NEW b \in blocks, NEW a \in Bytes(b.addr, b.size) PROVE a \in Bytes(HeapStart, HeapSize)
  BY <1>2, <1>4, <1>10, <1>11 DEF Inside, Within, HeapEnd
<1>15. UNION ({FreePart(i) : i \in DOMAIN free} \cup {Bytes(b.addr, b.size) : b \in blocks}) = Bytes(HeapStart, HeapSize)
  BY <1>12, <1>13, <1>14
<1> QED
  BY <1>5, <1>6, <1>7, <1>8, <1>15

\* DMM_Allocate and DMM_DeAllocate (memory/DMM.cpp) keep addresses and sizes
\* in range, and every block handed out is as large as some request.
THEOREM HeapTypeCorrect == ASSUME HeapAssumption PROVE Spec => []TypeOK
<1>1. IInv => TypeOK
  <2> SUFFICES ASSUME IInv PROVE TypeOK
    OBVIOUS
  <2>1. free \in Seq(Part) /\ blocks \subseteq Block /\ dmmFlag \in BOOLEAN
    BY DEF IInv, Shape
  <2>2. \A i \in DOMAIN free : free[i].addr \in Nat /\ free[i].size \in Nat
    <3> TAKE i \in DOMAIN free
    <3>1. free[i] \in Part
      BY <2>1
    <3> QED
      BY <3>1 DEF Part
  <2>3. \A b \in blocks : b.ret \in Nat /\ b.need \in Request
    BY <2>1 DEF Block
  <2> QED
    BY <2>1, <2>2, <2>3 DEF TypeOK
<1> QED
  BY <1>1, InvHolds, PTL

\* First fit, the splitting of a block and its return (DMM_Allocate,
\* DMM_DeAllocate) never hand a byte to two callers and never lose one: as
\* long as the list was not started again while blocks were out, free blocks
\* and blocks handed out cover the heap without overlapping.
THEOREM HeapIsTiled == ASSUME HeapAssumption PROVE Spec => []BlocksTile
<1>1. IInv => BlocksTile
  <2> SUFFICES ASSUME IInv, ~history.restarted
               PROVE  /\ \A i \in DOMAIN free : free[i].size >= Header
                      /\ \A i, j \in DOMAIN free : i # j => FreePart(i) \cap FreePart(j) = {}
                      /\ \A b, c \in blocks : b # c => Bytes(b.addr, b.size) \cap Bytes(c.addr, c.size) = {}
                      /\ \A i \in DOMAIN free, b \in blocks : FreePart(i) \cap Bytes(b.addr, b.size) = {}
                      /\ free # <<>> \/ blocks # {} =>
                           UNION ({FreePart(i) : i \in DOMAIN free} \cup {Bytes(b.addr, b.size) : b \in blocks})
                             = Bytes(HeapStart, HeapSize)
    BY DEF BlocksTile
  <2>1. CASE NeverUsed
    <3>1. free = <<>> /\ blocks = {} /\ DOMAIN free = {}
      BY <2>1 DEF NeverUsed
    <3> QED
      BY <3>1
  <2>2. CASE ~NeverUsed
    BY <2>2, TilesIsTiling
  <2> QED
    BY <2>1, <2>2
<1> QED
  BY <1>1, InvHolds, PTL

\* What DMM_Allocate returns is aligned as asked and lies, with the header
\* in front of it, inside the block it was cut from.
THEOREM HeapDataFits == ASSUME HeapAssumption PROVE Spec => []DataFits
<1>1. IInv => DataFits
  BY DEF IInv
<1> QED
  BY <1>1, InvHolds, PTL

\* The reads of DMM_Allocate bring the pages of every block, and no page of
\* the heap is brought before all pages below it: the release of a process's
\* heap, which stops at the first page that is missing, misses none.
THEOREM HeapPagesInOrder == ASSUME HeapAssumption PROVE Spec => []TouchedInOrder
<1>1. IInv => TouchedInOrder
  <2> SUFFICES ASSUME IInv, ~history.restarted
               PROVE  /\ \A q \in touched : \A r \in First .. q : r \in touched
                      /\ \A b \in blocks : PagesOf(b.addr, b.size) \subseteq touched
    BY DEF TouchedInOrder, First
  <2>1. \A q \in touched : \A r \in First .. q : r \in touched
    BY DEF IInv, InOrder
  <2>2. \A b \in blocks : PagesOf(b.addr, b.size) \subseteq touched
    BY DEF IInv, NeverUsed, Present
  <2> QED
    BY <2>1, <2>2
<1> QED
  BY <1>1, InvHolds, PTL

\* SetDMMFlag: outside a call the page fault handler refuses the heap, unless
\* a call left by its exception.
THEOREM HeapFlagIsDown == ASSUME HeapAssumption PROVE Spec => []FlagMeansRefused
<1>1. IInv => FlagMeansRefused
  BY DEF IInv
<1> QED
  BY <1>1, InvHolds, PTL

=============================================================================
