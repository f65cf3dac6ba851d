----------------------------- MODULE HeapProofs -----------------------------
(***************************************************************************)
(* Proofs about the kernel heap, for any heap, any callers and any         *)
(* requests that satisfy NoWrap.                                           *)
(***************************************************************************)
EXTENDS Heap, TLAPS

\* Every block lies between the start of the heap and the bump pointer.
Carved ==
  \A i \in DOMAIN blocks :
    HeapStart <= blocks[i].addr /\ Payload(blocks[i]) + blocks[i].size <= current

\* The inductive invariant.
Inv ==
  /\ TypeOK
  /\ Carved
  /\ Tiling
  /\ AlignedBlocks
  /\ Disjoint
  /\ OneOwner

-----------------------------------------------------------------------------
\* Rounding a request up to 8 bytes yields a multiple of 8 that is not smaller,
\* and by less than 8 bytes, when the word does not wrap.
LEMMA AlignedBounds ==
  ASSUME NEW n \in Nat, n + 7 < WordSize
  PROVE  /\ Aligned(n) \in Nat
         /\ n <= Aligned(n) /\ Aligned(n) <= n + 7
         /\ Aligned(n) % 8 = 0
<1>1. Word(n + 7) = n + 7
  BY HeapAssumption DEF Word
<1>2. QED
  BY <1>1 DEF Aligned

\* A request that does not wrap leaves the end of a new block a plain sum.
LEMMA NewEndIsSum ==
  ASSUME NoWrap, NEW n \in Requests, current \in HeapStart .. HeapEnd
  PROVE  /\ n \in Nat
         /\ Aligned(n) \in Nat /\ n <= Aligned(n) /\ Aligned(n) % 8 = 0
         /\ NewEnd(Aligned(n)) = current + Header + Aligned(n)
<1>1. n \in Nat /\ n + 7 < WordSize
  BY HeapAssumption DEF NoWrap, Header, HeapEnd
<1>2. /\ Aligned(n) \in Nat /\ n <= Aligned(n) /\ Aligned(n) <= n + 7
      /\ Aligned(n) % 8 = 0
  BY <1>1, AlignedBounds
<1>3. NewEnd(Aligned(n)) = current + Header + Aligned(n)
  BY <1>1, <1>2, HeapAssumption DEF NoWrap, NewEnd, Word, Header, HeapEnd
<1>4. QED
  BY <1>1, <1>2, <1>3

\* Setting a used flag keeps every address and size, and every other flag.
LEMMA SetUsedFacts ==
  ASSUME blocks \in Seq(Block), NEW i \in DOMAIN blocks, NEW flag \in BOOLEAN
  PROVE  /\ SetUsed(i, flag) \in Seq(Block)
         /\ Len(SetUsed(i, flag)) = Len(blocks)
         /\ DOMAIN SetUsed(i, flag) = DOMAIN blocks
         /\ \A j \in DOMAIN blocks :
              /\ SetUsed(i, flag)[j].addr = blocks[j].addr
              /\ SetUsed(i, flag)[j].size = blocks[j].size
              /\ SetUsed(i, flag)[j].used = IF j = i THEN flag ELSE blocks[j].used
<1>1. \A j \in DOMAIN blocks : blocks[j] \in Block
  OBVIOUS
<1>2. SetUsed(i, flag) = [blocks EXCEPT ![i] = [blocks[i] EXCEPT !.used = flag]]
  BY DEF SetUsed
<1>3. [blocks[i] EXCEPT !.used = flag] \in Block
  BY <1>1 DEF Block
<1>4. SetUsed(i, flag) \in Seq(Block) /\ Len(SetUsed(i, flag)) = Len(blocks)
  BY <1>2, <1>3
<1>5. DOMAIN SetUsed(i, flag) = DOMAIN blocks
  BY <1>2
<1>6. QED
  BY <1>1, <1>2, <1>4, <1>5 DEF Block

-----------------------------------------------------------------------------
\* In an invariant state an address is the header of at most one block.
LEMMA OneBlockPerAddress ==
  ASSUME Inv, NEW i \in DOMAIN blocks, NEW j \in DOMAIN blocks,
         blocks[i].addr = blocks[j].addr
  PROVE  i = j
<1>1. i \in 1 .. Len(blocks) /\ j \in 1 .. Len(blocks)
  BY DEF Inv, TypeOK
<1>2. blocks[i] \in Block /\ blocks[j] \in Block
  BY DEF Inv, TypeOK
<1>3. QED
  BY <1>1, <1>2 DEF Inv, Disjoint, Payload, Header, Block

\* Setting a flag keeps every part of the invariant that is about addresses.
LEMMA SetUsedKeepsShape ==
  ASSUME Inv, NEW i \in DOMAIN blocks, NEW flag \in BOOLEAN,
         blocks' = SetUsed(i, flag), UNCHANGED current
  PROVE  /\ blocks' \in Seq(Block) /\ current' \in HeapStart .. HeapEnd
         /\ Carved' /\ Tiling' /\ AlignedBlocks' /\ Disjoint'
<1>1. blocks \in Seq(Block)
  BY DEF Inv, TypeOK
<1>2. /\ blocks' \in Seq(Block) /\ Len(blocks') = Len(blocks)
      /\ DOMAIN blocks' = DOMAIN blocks
      /\ \A j \in DOMAIN blocks : /\ blocks'[j].addr = blocks[j].addr
                                  /\ blocks'[j].size = blocks[j].size
  BY <1>1, SetUsedFacts
<1>3. current' \in HeapStart .. HeapEnd
  BY DEF Inv, TypeOK
<1>4. Carved' /\ AlignedBlocks' /\ Disjoint'
  BY <1>2 DEF Inv, Carved, AlignedBlocks, Disjoint, Payload
<1>5. Tiling'
  <2>1. DOMAIN blocks = 1 .. Len(blocks) /\ Len(blocks) \in Nat
    BY <1>1
  <2>2. \A j \in 1 .. Len(blocks) - 1 : j \in DOMAIN blocks /\ j + 1 \in DOMAIN blocks
    BY <2>1
  <2>3. Len(blocks) > 0 => 1 \in DOMAIN blocks /\ Len(blocks) \in DOMAIN blocks
    BY <2>1
  <2>4. Len(blocks') > 0 => /\ blocks'[1].addr = HeapStart
                            /\ Payload(blocks'[Len(blocks')]) + blocks'[Len(blocks')].size = current'
    BY <1>2, <2>3 DEF Inv, Tiling, Payload
  <2>5. \A j \in 1 .. Len(blocks') - 1 :
          blocks'[j + 1].addr = Payload(blocks'[j]) + blocks'[j].size
    BY <1>2, <2>2 DEF Inv, Tiling, Payload
  <2>6. Len(blocks') = 0 => current' = HeapStart
    BY <1>2 DEF Inv, Tiling
  <2>7. QED
    BY <2>4, <2>5, <2>6 DEF Tiling, Payload
<1>6. QED
  BY <1>2, <1>3, <1>4, <1>5

-----------------------------------------------------------------------------
\* malloc of an existing block keeps the invariant.
LEMMA ReuseInv ==
  ASSUME Inv, NEW c \in Clients, NEW n \in Requests, MallocReuse(c, n)
  PROVE  Inv'
<1>1. PICK i \in DOMAIN blocks :
        /\ ~blocks[i].used
        /\ blocks' = SetUsed(i, TRUE)
        /\ held' = [held EXCEPT ![c] = @ \cup {Payload(blocks[i])}]
        /\ UNCHANGED current
  BY DEF MallocReuse, FirstFit, Fits
<1>2. /\ blocks' \in Seq(Block) /\ current' \in HeapStart .. HeapEnd
      /\ Carved' /\ Tiling' /\ AlignedBlocks' /\ Disjoint'
  BY <1>1, SetUsedKeepsShape
<1>3. /\ DOMAIN blocks' = DOMAIN blocks
      /\ \A j \in DOMAIN blocks :
           /\ blocks'[j].addr = blocks[j].addr
           /\ blocks'[j].used = IF j = i THEN TRUE ELSE blocks[j].used
  BY <1>1, SetUsedFacts DEF Inv, TypeOK
<1>4. held \in [Clients -> SUBSET Nat] /\ Payload(blocks[i]) \in Nat
  <2>1. blocks[i] \in Block /\ held \in [Clients -> SUBSET Nat]
    BY DEF Inv, TypeOK
  <2>2. QED
    BY <2>1 DEF Payload, Header, Block
<1>5. TypeOK'
  <2>1. asked' \in Nat
    BY HeapAssumption DEF MallocReuse
  <2>2. QED
    BY <1>1, <1>2, <1>4, <2>1 DEF TypeOK
<1>6. \A d \in Clients : Payload(blocks[i]) \notin held[d]
  <2>1. SUFFICES ASSUME NEW d \in Clients, Payload(blocks[i]) \in held[d]
                 PROVE  FALSE
    OBVIOUS
  <2>2. PICK j \in DOMAIN blocks : Payload(blocks[j]) = Payload(blocks[i]) /\ blocks[j].used
    BY <2>1 DEF Inv, OneOwner
  <2>3. blocks[j] \in Block /\ blocks[i] \in Block
    BY DEF Inv, TypeOK
  <2>4. i = j
    BY <2>2, <2>3, OneBlockPerAddress DEF Payload, Header, Block
  <2>5. QED
    BY <1>1, <2>2, <2>4
<1>7. OneOwner'
  <2>1. ASSUME NEW d \in Clients, NEW p \in held'[d]
        PROVE  \E j \in DOMAIN blocks' : Payload(blocks'[j]) = p /\ blocks'[j].used
    <3>1. p \in held[d] \/ p = Payload(blocks[i])
      BY <1>1, <1>4
    <3>2. PICK j \in DOMAIN blocks : Payload(blocks[j]) = p /\ (blocks[j].used \/ j = i)
      BY <3>1 DEF Inv, OneOwner
    <3>3. QED
      BY <1>3, <3>2 DEF Payload
  <2>2. \A j \in DOMAIN blocks' : blocks'[j].used =>
          \E d \in Clients : Payload(blocks'[j]) \in held'[d]
    BY <1>1, <1>3, <1>4 DEF Inv, OneOwner, Payload
  <2>3. \A d, e \in Clients : d # e => held'[d] \cap held'[e] = {}
    BY <1>1, <1>4, <1>6 DEF Inv, OneOwner
  <2>4. QED
    BY <2>1, <2>2, <2>3 DEF OneOwner, Payload
<1>8. QED
  BY <1>2, <1>5, <1>7 DEF Inv

\* malloc of a new block keeps the invariant.
LEMMA ExtendInv ==
  ASSUME NoWrap, Inv, NEW c \in Clients, NEW n \in Requests, MallocExtend(c, n)
  PROVE  Inv'
<1> DEFINE size == Aligned(n)
           b == [addr |-> current, size |-> size, used |-> TRUE]
           k == Len(blocks) + 1
<1>1. /\ size \in Nat /\ size % 8 = 0
      /\ NewEnd(size) = current + Header + size
  BY NewEndIsSum DEF Inv, TypeOK
<1>2. /\ blocks' = Append(blocks, b)
      /\ current' = current + Header + size /\ current' <= HeapEnd
      /\ held' = [held EXCEPT ![c] = @ \cup {current + Header}]
  BY <1>1 DEF MallocExtend
<1>3. /\ current \in Nat /\ current >= HeapStart /\ current % 8 = 0
      /\ HeapStart \in Nat /\ HeapEnd \in Nat
  BY HeapAssumption DEF Inv, TypeOK, AlignedBlocks, HeapEnd
<1> HIDE DEF size
<1>4. b \in Block
  BY <1>1, <1>3 DEF Block
<1>5. blocks \in Seq(Block) /\ held \in [Clients -> SUBSET Nat]
  BY DEF Inv, TypeOK
<1>6. /\ blocks' \in Seq(Block) /\ Len(blocks') = k /\ k \in Nat
      /\ DOMAIN blocks' = 1 .. k /\ DOMAIN blocks = 1 .. Len(blocks)
      /\ Len(blocks) \in Nat
      /\ \A j \in DOMAIN blocks : blocks'[j] = blocks[j]
      /\ blocks'[k] = b
  BY <1>2, <1>4, <1>5
<1>7. \A j \in DOMAIN blocks : blocks[j] \in Block
  BY <1>5
<1>8. TypeOK'
  <2>1. current' \in HeapStart .. HeapEnd
    BY <1>1, <1>2, <1>3 DEF Header
  <2>2. held' \in [Clients -> SUBSET Nat]
    BY <1>2, <1>3, <1>5 DEF Header
  <2>3. asked' \in Nat
    BY HeapAssumption DEF MallocExtend
  <2>4. QED
    BY <1>6, <2>1, <2>2, <2>3 DEF TypeOK
<1>9. Carved'
  <2>1. ASSUME NEW j \in DOMAIN blocks'
        PROVE  HeapStart <= blocks'[j].addr /\ Payload(blocks'[j]) + blocks'[j].size <= current'
    <3>1. CASE j = k
      BY <1>1, <1>2, <1>3, <1>6, <3>1 DEF Payload, Header
    <3>2. CASE j # k
      <4>1. j \in DOMAIN blocks /\ blocks'[j] = blocks[j] /\ blocks[j] \in Block
        BY <1>6, <1>7, <3>2
      <4>2. QED
        BY <1>1, <1>2, <1>3, <4>1 DEF Inv, Carved, Payload, Header, Block
    <3>3. QED
      BY <3>1, <3>2
  <2>2. QED
    BY <2>1 DEF Carved, Payload
<1>10. Tiling'
  <2>1. Len(blocks') > 0 /\ blocks'[1].addr = HeapStart
    <3>1. CASE Len(blocks) = 0
      BY <1>6, <3>1 DEF Inv, Tiling
    <3>2. CASE Len(blocks) > 0
      BY <1>6, <3>2 DEF Inv, Tiling
    <3>3. QED
      BY <1>6, <3>1, <3>2
  <2>2. Payload(blocks'[Len(blocks')]) + blocks'[Len(blocks')].size = current'
    BY <1>1, <1>2, <1>3, <1>6 DEF Payload, Header
  <2>3. ASSUME NEW j \in 1 .. Len(blocks') - 1
        PROVE  blocks'[j + 1].addr = Payload(blocks'[j]) + blocks'[j].size
    <3>1. CASE j = Len(blocks)
      BY <1>5, <1>6, <3>1 DEF Inv, Tiling, Payload
    <3>2. CASE j # Len(blocks)
      BY <1>6, <3>2 DEF Inv, Tiling, Payload
    <3>3. QED
      BY <3>1, <3>2
  <2>4. QED
    BY <2>1, <2>2, <2>3 DEF Tiling, Payload
<1>11. AlignedBlocks'
  <2>1. current' % 8 = 0
    BY <1>1, <1>2, <1>3 DEF Header
  <2>2. QED
    BY <1>1, <1>3, <1>6, <2>1 DEF Inv, AlignedBlocks
<1>12. Disjoint'
  <2>1. ASSUME NEW i \in DOMAIN blocks', NEW j \in DOMAIN blocks', i < j
        PROVE  Payload(blocks'[i]) + blocks'[i].size <= blocks'[j].addr
    <3>1. i \in DOMAIN blocks /\ blocks'[i] = blocks[i] /\ blocks[i] \in Block
      BY <1>6, <1>7, <2>1
    <3>2. CASE j = k
      BY <1>6, <3>1, <3>2 DEF Inv, Carved
    <3>3. CASE j # k
      BY <1>6, <2>1, <3>1, <3>3 DEF Inv, Disjoint
    <3>4. QED
      BY <3>2, <3>3
  <2>2. QED
    BY <2>1 DEF Disjoint, Payload
<1>13. \A d \in Clients : current + Header \notin held[d]
  <2>1. \A j \in DOMAIN blocks : Payload(blocks[j]) # current + Header
    BY <1>3, <1>7 DEF Inv, Carved, Payload, Header, Block
  <2>2. QED
    BY <2>1 DEF Inv, OneOwner
<1>14. OneOwner'
  <2>1. \A d \in Clients : \A p \in held'[d] :
          \E j \in DOMAIN blocks' : Payload(blocks'[j]) = p /\ blocks'[j].used
    BY <1>2, <1>5, <1>6 DEF Inv, OneOwner, Payload
  <2>2. \A j \in DOMAIN blocks' : blocks'[j].used =>
          \E d \in Clients : Payload(blocks'[j]) \in held'[d]
    BY <1>2, <1>5, <1>6 DEF Inv, OneOwner, Payload
  <2>3. \A d, e \in Clients : d # e => held'[d] \cap held'[e] = {}
    BY <1>2, <1>5, <1>13 DEF Inv, OneOwner
  <2>4. QED
    BY <2>1, <2>2, <2>3 DEF OneOwner, Payload
<1>15. QED
  BY <1>8, <1>9, <1>10, <1>11, <1>12, <1>14 DEF Inv

\* free keeps the invariant.
LEMMA FreeInv ==
  ASSUME Inv, NEW c \in Clients, NEW p \in held[c], Free(c, p)
  PROVE  Inv'
<1>1. PICK i \in DOMAIN blocks :
        /\ blocks[i].addr = p - Header
        /\ blocks' = SetUsed(i, FALSE)
  BY DEF Free, Release
<1>2. held' = [held EXCEPT ![c] = @ \ {p}] /\ UNCHANGED current
  BY DEF Free
<1>3. /\ blocks' \in Seq(Block) /\ current' \in HeapStart .. HeapEnd
      /\ Carved' /\ Tiling' /\ AlignedBlocks' /\ Disjoint'
  BY <1>1, <1>2, SetUsedKeepsShape
<1>4. /\ DOMAIN blocks' = DOMAIN blocks
      /\ \A j \in DOMAIN blocks :
           /\ blocks'[j].addr = blocks[j].addr
           /\ blocks'[j].used = IF j = i THEN FALSE ELSE blocks[j].used
  BY <1>1, SetUsedFacts DEF Inv, TypeOK
<1>5. /\ held \in [Clients -> SUBSET Nat] /\ asked' \in Nat
      /\ \A j \in DOMAIN blocks : blocks[j] \in Block
  BY DEF Inv, TypeOK, Free
<1>6. TypeOK'
  BY <1>2, <1>3, <1>5 DEF TypeOK
<1>7. \A j \in DOMAIN blocks : Payload(blocks[j]) = p <=> j = i
  <2>1. p \in Nat
    BY <1>5
  <2>2. QED
    BY <1>1, <1>5, <2>1, OneBlockPerAddress DEF Payload, Header, Block
<1>8. OneOwner'
  <2>1. \A d \in Clients : d # c => p \notin held[d]
    BY DEF Inv, OneOwner
  <2>2. ASSUME NEW d \in Clients, NEW q \in held'[d]
        PROVE  \E j \in DOMAIN blocks' : Payload(blocks'[j]) = q /\ blocks'[j].used
    <3>1. q \in held[d] /\ q # p
      BY <1>2, <1>5, <2>1
    <3>2. PICK j \in DOMAIN blocks : Payload(blocks[j]) = q /\ blocks[j].used
      BY <3>1 DEF Inv, OneOwner
    <3>3. j # i
      BY <1>7, <3>1, <3>2
    <3>4. QED
      BY <1>4, <3>2, <3>3 DEF Payload
  <2>3. ASSUME NEW j \in DOMAIN blocks', blocks'[j].used
        PROVE  \E d \in Clients : Payload(blocks'[j]) \in held'[d]
    <3>1. j \in DOMAIN blocks /\ j # i /\ blocks[j].used
      BY <1>4, <2>3
    <3>2. PICK d \in Clients : Payload(blocks[j]) \in held[d]
      BY <3>1 DEF Inv, OneOwner
    <3>3. Payload(blocks[j]) # p
      BY <1>7, <3>1
    <3>4. QED
      BY <1>2, <1>4, <1>5, <3>1, <3>2, <3>3 DEF Payload
  <2>4. \A d, e \in Clients : d # e => held'[d] \cap held'[e] = {}
    BY <1>2, <1>5 DEF Inv, OneOwner
  <2>5. QED
    BY <2>2, <2>3, <2>4 DEF OneOwner, Payload
<1>9. QED
  BY <1>3, <1>6, <1>8 DEF Inv

-----------------------------------------------------------------------------
\* The initial heap is empty and satisfies the invariant.
LEMMA InitInv == Init => Inv
<1>1. SUFFICES ASSUME Init PROVE Inv
  OBVIOUS
<1>2. blocks = <<>> /\ blocks \in Seq(Block) /\ DOMAIN blocks = {}
  BY <1>1 DEF Init
<1>3. Len(blocks) = 0
  BY <1>2
<1>4. TypeOK
  BY <1>1, <1>2, HeapAssumption DEF Init, TypeOK, HeapEnd
<1>5. Carved /\ Disjoint /\ OneOwner
  BY <1>1, <1>2 DEF Init, Carved, Disjoint, OneOwner
<1>6. Tiling
  BY <1>1, <1>2, <1>3 DEF Init, Tiling
<1>7. AlignedBlocks
  BY <1>1, <1>2, HeapAssumption DEF Init, AlignedBlocks
<1>8. QED
  BY <1>4, <1>5, <1>6, <1>7 DEF Inv

\* Every call of malloc or free keeps the invariant.
LEMMA NextInv ==
  ASSUME NoWrap, Inv, [Next]_vars
  PROVE  Inv'
<1>1. CASE UNCHANGED vars
  BY <1>1 DEF vars, Inv, TypeOK, Carved, Tiling, AlignedBlocks, Disjoint, OneOwner, Payload
<1>2. ASSUME NEW c \in Clients, NEW n \in Requests, MallocReuse(c, n)
      PROVE  Inv'
  BY <1>2, ReuseInv
<1>3. ASSUME NEW c \in Clients, NEW n \in Requests, MallocExtend(c, n)
      PROVE  Inv'
  BY <1>3, ExtendInv
<1>4. ASSUME NEW n \in Requests, MallocFull(n)
      PROVE  Inv'
  <2>1. asked' \in Nat /\ UNCHANGED <<blocks, current, held>>
    BY <1>4, HeapAssumption DEF MallocFull
  <2>2. QED
    BY <2>1 DEF Inv, TypeOK, Carved, Tiling, AlignedBlocks, Disjoint, OneOwner, Payload
<1>5. ASSUME NEW c \in Clients, NEW p \in held[c], Free(c, p)
      PROVE  Inv'
  BY <1>5, FreeInv
<1>6. QED
  BY <1>1, <1>2, <1>3, <1>4, <1>5 DEF Next

\* The invariant holds in every state of the heap.
THEOREM HeapInvariant == ASSUME NoWrap PROVE Spec => []Inv
<1>1. Inv /\ [Next]_vars => Inv'
  BY NextInv
<1>2. QED
  BY <1>1, InitInv, PTL DEF Spec

\* Type correctness: the block list, the bump pointer and the ledger always have
\* the shape the code gives them; in particular the bump pointer never leaves
\* the heap.
THEOREM HeapTypeOK == ASSUME NoWrap PROVE Spec => []TypeOK
BY HeapInvariant, PTL DEF Inv

\* The blocks always tile the carved part of the heap.
THEOREM HeapTiling == ASSUME NoWrap PROVE Spec => []Tiling
BY HeapInvariant, PTL DEF Inv

\* Headers and payloads are always aligned on 8 bytes.
THEOREM HeapAligned == ASSUME NoWrap PROVE Spec => []AlignedBlocks
BY HeapInvariant, PTL DEF Inv

\* No two blocks ever overlap.
THEOREM HeapDisjoint == ASSUME NoWrap PROVE Spec => []Disjoint
BY HeapInvariant, PTL DEF Inv

\* A block is in use exactly while one caller holds it.
THEOREM HeapOneOwner == ASSUME NoWrap PROVE Spec => []OneOwner
BY HeapInvariant, PTL DEF Inv

\* Every block that malloc carves ends inside the heap.
THEOREM HeapInside == ASSUME NoWrap PROVE Spec => []InsideHeap
<1>1. Inv => InsideHeap
  <2>1. SUFFICES ASSUME Inv, NEW i \in DOMAIN blocks
                 PROVE  /\ HeapStart <= blocks[i].addr
                        /\ Payload(blocks[i]) + blocks[i].size <= HeapEnd
    BY DEF InsideHeap
  <2>2. blocks[i] \in Block /\ current \in Int /\ current <= HeapEnd /\ HeapEnd \in Int
    BY <2>1, HeapAssumption DEF Inv, TypeOK, HeapEnd
  <2>3. QED
    BY <2>1, <2>2 DEF Inv, Carved, Payload, Header, Block
<1>2. QED
  BY <1>1, HeapInvariant, PTL

\* The blocks tile the heap, aligned, disjoint, inside it and each with its owner.
THEOREM HeapSound == ASSUME NoWrap PROVE Spec => []Sound
BY HeapTypeOK, HeapTiling, HeapAligned, HeapDisjoint, HeapInside, HeapOneOwner, PTL DEF Sound

-----------------------------------------------------------------------------
(***************************************************************************)
(* A step never moves or resizes a block, and the bump pointer never goes  *)
(* back.                                                                   *)
(***************************************************************************)
SameBlocks ==
  /\ current' >= current
  /\ Len(blocks') >= Len(blocks)
  /\ \A i \in DOMAIN blocks : /\ blocks'[i].addr = blocks[i].addr
                              /\ blocks'[i].size = blocks[i].size

\* Setting a flag keeps the blocks where they are.
LEMMA SetUsedSameBlocks ==
  ASSUME Inv, NEW i \in DOMAIN blocks, NEW flag \in BOOLEAN,
         blocks' = SetUsed(i, flag), UNCHANGED current
  PROVE  SameBlocks /\ DOMAIN blocks' = DOMAIN blocks
<1>1. blocks \in Seq(Block) /\ current \in Int /\ Len(blocks) \in Int
  BY HeapAssumption DEF Inv, TypeOK, HeapEnd
<1>2. QED
  BY <1>1, SetUsedFacts DEF SameBlocks

\* malloc of a new block, once the word sum is known not to wrap.
LEMMA ExtendFacts ==
  ASSUME NoWrap, Inv, NEW c \in Clients, NEW n \in Requests, MallocExtend(c, n)
  PROVE  /\ SameBlocks
         /\ DOMAIN blocks \subseteq DOMAIN blocks'
         /\ Len(blocks) + 1 \in DOMAIN blocks'
         /\ blocks'[Len(blocks) + 1] =
              [addr |-> current, size |-> Aligned(n), used |-> TRUE]
         /\ n \in Nat /\ Aligned(n) \in Nat /\ n <= Aligned(n)
         /\ current' = current + Header + Aligned(n)
         /\ current \in Nat
<1>1. /\ n \in Nat /\ Aligned(n) \in Nat /\ n <= Aligned(n)
      /\ NewEnd(Aligned(n)) = current + Header + Aligned(n)
  BY NewEndIsSum DEF Inv, TypeOK
<1>2. /\ blocks' = Append(blocks, [addr |-> current, size |-> Aligned(n), used |-> TRUE])
      /\ current' = current + Header + Aligned(n)
  BY <1>1 DEF MallocExtend
<1>3. blocks \in Seq(Block) /\ current \in Nat
  BY HeapAssumption DEF Inv, TypeOK, HeapEnd
<1>4. SameBlocks
  BY <1>1, <1>2, <1>3 DEF SameBlocks, Header
<1>5. QED
  BY <1>1, <1>2, <1>3, <1>4

\* Every step keeps the blocks where they are.
LEMMA StepSameBlocks ==
  ASSUME NoWrap, Inv, Next
  PROVE  SameBlocks
<1>1. ASSUME NEW c \in Clients, NEW n \in Requests, MallocReuse(c, n)
      PROVE  SameBlocks
  BY <1>1, SetUsedSameBlocks DEF MallocReuse, FirstFit
<1>2. ASSUME NEW c \in Clients, NEW n \in Requests, MallocExtend(c, n)
      PROVE  SameBlocks
  BY <1>2, ExtendFacts
<1>3. ASSUME NEW n \in Requests, MallocFull(n)
      PROVE  SameBlocks
  <2>1. blocks \in Seq(Block) /\ current \in Int
    BY HeapAssumption DEF Inv, TypeOK, HeapEnd
  <2>2. QED
    BY <1>3, <2>1 DEF MallocFull, vars, SameBlocks
<1>4. ASSUME NEW c \in Clients, NEW p \in held[c], Free(c, p)
      PROVE  SameBlocks
  BY <1>4, SetUsedSameBlocks DEF Free, Release
<1>5. QED
  BY <1>1, <1>2, <1>3, <1>4 DEF Next

\* Pointers stay valid: no call moves, resizes or drops a block.
THEOREM HeapStable == ASSUME NoWrap PROVE Spec => Stable
<1>1. Inv /\ [Next]_vars => [SameBlocks]_vars
  BY StepSameBlocks
<1>2. QED
  BY <1>1, HeapInvariant, PTL DEF Spec, Stable, SameBlocks

-----------------------------------------------------------------------------
(***************************************************************************)
(* Refinement: the heap implements the abstract allocator.                 *)
(***************************************************************************)
HeaderIn(bs, p) == CHOOSE i \in DOMAIN bs : Payload(bs[i]) = p

ExtentIn(bs, p) == <<p, p + bs[HeaderIn(bs, p)].size>>

\* The refinement mapping, in those terms.
LEMMA LiveIs ==
  /\ live = [d \in Clients |-> {ExtentIn(blocks, p) : p \in held[d]}]
  /\ live' = [d \in Clients |-> {ExtentIn(blocks', p) : p \in held'[d]}]
BY DEF live, ExtentIn, HeaderIn, BlockAt

\* The header of a held pointer is found, and is unique.
LEMMA HeaderInFacts ==
  ASSUME Inv, NEW i \in DOMAIN blocks
  PROVE  HeaderIn(blocks, Payload(blocks[i])) = i
<1>1. \A j \in DOMAIN blocks : Payload(blocks[j]) = Payload(blocks[i]) => j = i
  <2>1. \A j \in DOMAIN blocks : blocks[j] \in Block
    BY DEF Inv, TypeOK
  <2>2. QED
    BY <2>1, OneBlockPerAddress DEF Payload, Header, Block
<1>2. QED
  BY <1>1 DEF HeaderIn

\* A held pointer is the payload of a block in use.
LEMMA HeldBlock ==
  ASSUME Inv, NEW c \in Clients, NEW p \in held[c]
  PROVE  /\ HeaderIn(blocks, p) \in DOMAIN blocks
         /\ Payload(blocks[HeaderIn(blocks, p)]) = p
         /\ blocks[HeaderIn(blocks, p)].used
<1>1. PICK i \in DOMAIN blocks : Payload(blocks[i]) = p /\ blocks[i].used
  BY DEF Inv, OneOwner
<1>2. QED
  BY <1>1, HeaderInFacts

\* A step that keeps the blocks keeps the extent of every pointer held.
LEMMA ExtentKept ==
  ASSUME Inv, Inv', SameBlocks, DOMAIN blocks \subseteq DOMAIN blocks',
         NEW i \in DOMAIN blocks
  PROVE  /\ ExtentIn(blocks', Payload(blocks[i])) = ExtentIn(blocks, Payload(blocks[i]))
         /\ ExtentIn(blocks, Payload(blocks[i])) =
              <<Payload(blocks[i]), Payload(blocks[i]) + blocks[i].size>>
<1>1. Payload(blocks'[i]) = Payload(blocks[i]) /\ blocks'[i].size = blocks[i].size
  BY DEF SameBlocks, Payload
<1>2. HeaderIn(blocks, Payload(blocks[i])) = i
  BY HeaderInFacts
<1>3. HeaderIn(blocks', Payload(blocks[i])) = i
  <2>1. \A j \in DOMAIN blocks' : Payload(blocks'[j]) = Payload(blocks'[i]) => j = i
    <3>1. SUFFICES ASSUME NEW j \in DOMAIN blocks', Payload(blocks'[j]) = Payload(blocks'[i])
                   PROVE  j = i
      OBVIOUS
    <3>2. /\ blocks'[i] \in Block /\ blocks'[j] \in Block
          /\ i \in DOMAIN blocks' /\ i \in Int /\ j \in Int
      BY DEF Inv, TypeOK
    <3>3. blocks'[i].addr = blocks'[j].addr
      BY <3>1, <3>2 DEF Payload, Header, Block
    <3>4. ~(i < j) /\ ~(j < i)
      BY <3>2, <3>3 DEF Inv, Disjoint, Payload, Header, Block
    <3>5. QED
      BY <3>2, <3>4
  <2>2. QED
    BY <1>1, <2>1 DEF HeaderIn, Payload
<1>4. QED
  BY <1>1, <1>2, <1>3 DEF ExtentIn

\* Hence the extents of the pointers held do not change in a step.
LEMMA HeldExtentsKept ==
  ASSUME Inv, Inv', SameBlocks, DOMAIN blocks \subseteq DOMAIN blocks',
         NEW c \in Clients, NEW p \in held[c]
  PROVE  ExtentIn(blocks', p) = ExtentIn(blocks, p)
BY HeldBlock, ExtentKept

\* The live extent of a held pointer lies inside the heap, and apart from the
\* extent of every other block.
LEMMA HeldApart ==
  ASSUME Inv, NEW c \in Clients, NEW p \in held[c],
         NEW i \in DOMAIN blocks, Payload(blocks[i]) # p
  PROVE  Promise!Apart(<<Payload(blocks[i]), Payload(blocks[i]) + blocks[i].size>>,
                       ExtentIn(blocks, p))
<1> DEFINE j == HeaderIn(blocks, p)
<1>1. j \in DOMAIN blocks /\ Payload(blocks[j]) = p /\ i # j
  BY HeldBlock
<1> HIDE DEF j
<1>2. blocks[i] \in Block /\ blocks[j] \in Block /\ i \in Int /\ j \in Int
  BY <1>1 DEF Inv, TypeOK
<1>3. ExtentIn(blocks, p) = <<p, p + blocks[j].size>>
  BY DEF ExtentIn, j
<1>4. i < j \/ j < i
  BY <1>1, <1>2
<1>5. \/ Payload(blocks[i]) + blocks[i].size < p
      \/ p + blocks[j].size < Payload(blocks[i])
  BY <1>1, <1>2, <1>4 DEF Inv, Disjoint, Payload, Header, Block
<1>6. QED
  BY <1>3, <1>5 DEF Promise!Apart

\* A step that gives caller c the payload of block i, which nobody held, and
\* keeps everything else held, allocates an extent.
LEMMA GiveBlock ==
  ASSUME Inv, Inv', SameBlocks, DOMAIN blocks \subseteq DOMAIN blocks',
         NEW c \in Clients, NEW n \in Requests, NEW i \in DOMAIN blocks',
         n \in Nat, blocks'[i].size >= n,
         \A d \in Clients : Payload(blocks'[i]) \notin held[d],
         held' = [held EXCEPT ![c] = @ \cup {Payload(blocks'[i])}],
         asked' = n
  PROVE  Promise!Allocate(c, n)
<1> DEFINE q == Payload(blocks'[i])
           x == <<q, q + blocks'[i].size>>
<1>1. held \in [Clients -> SUBSET Nat]
  BY DEF Inv, TypeOK
<1>2. q \in held'[c]
  BY <1>1
<1>3. ExtentIn(blocks', q) = x
  <2>1. \A j \in DOMAIN blocks' : Payload(blocks'[j]) = q => j = i
    <3>1. SUFFICES ASSUME NEW j \in DOMAIN blocks', Payload(blocks'[j]) = q
                   PROVE  j = i
      OBVIOUS
    <3>2. blocks'[i] \in Block /\ blocks'[j] \in Block /\ i \in Int /\ j \in Int
      BY DEF Inv, TypeOK
    <3>3. blocks'[i].addr = blocks'[j].addr
      BY <3>1, <3>2 DEF Payload, Header, Block
    <3>4. ~(i < j) /\ ~(j < i)
      BY <3>2, <3>3 DEF Inv, Disjoint, Payload, Header, Block
    <3>5. QED
      BY <3>2, <3>4
  <2>2. HeaderIn(blocks', q) = i
    BY <2>1 DEF HeaderIn, Payload
  <2>3. QED
    BY <2>2 DEF ExtentIn
<1>4. \A d \in Clients : \A p \in held[d] :
        p # q /\ ExtentIn(blocks', p) = ExtentIn(blocks, p) /\ Promise!Apart(x, ExtentIn(blocks, p))
  <2>1. SUFFICES ASSUME NEW d \in Clients, NEW p \in held[d]
                 PROVE  p # q /\ ExtentIn(blocks', p) = ExtentIn(blocks, p) /\ Promise!Apart(x, ExtentIn(blocks, p))
    OBVIOUS
  <2>2. p # q /\ p \in held'[d]
    BY <1>1
  <2>3. ExtentIn(blocks', p) = ExtentIn(blocks, p)
    BY HeldExtentsKept
  <2> DEFINE j == HeaderIn(blocks', p)
  <2>4. /\ j \in DOMAIN blocks' /\ Payload(blocks'[j]) = p
        /\ ExtentIn(blocks', p) = <<p, p + blocks'[j].size>>
    <3>1. PICK h \in DOMAIN blocks' : Payload(blocks'[h]) = p
      BY <2>2 DEF Inv, OneOwner, Payload
    <3>2. QED
      BY <3>1 DEF HeaderIn, ExtentIn, Payload
  <2> HIDE DEF j
  <2>5. blocks'[i] \in Block /\ blocks'[j] \in Block /\ i \in Int /\ j \in Int /\ i # j
    BY <2>2, <2>4 DEF Inv, TypeOK
  <2>6. i < j \/ j < i
    BY <2>5
  <2>7. q + blocks'[i].size < p \/ p + blocks'[j].size < q
    BY <2>4, <2>5, <2>6 DEF Inv, Disjoint, Payload, Header, Block
  <2>8. QED
    BY <2>2, <2>3, <2>4, <2>7 DEF Promise!Apart
<1>5. Promise!InHeap(x) /\ x[2] - x[1] >= n /\ x[1] % 8 = 0
  <2>1. /\ blocks'[i] \in Block /\ current' \in Int /\ current' <= HeapEnd
        /\ HeapStart \in Nat /\ HeapEnd \in Nat /\ HeapEnd = HeapStart + HeapSize
    BY HeapAssumption DEF Inv, TypeOK, HeapEnd
  <2>2. /\ HeapStart <= blocks'[i].addr /\ q + blocks'[i].size <= current'
        /\ blocks'[i].addr % 8 = 0
    BY DEF Inv, Carved, AlignedBlocks, Payload
  <2>3. QED
    BY <2>1, <2>2 DEF Promise!InHeap, Payload, Header, Block
<1>6. live' = [live EXCEPT ![c] = @ \cup {x}]
  <2>1. live' = [d \in Clients |-> {ExtentIn(blocks', p) : p \in held'[d]}]
    BY LiveIs
  <2>2. live = [d \in Clients |-> {ExtentIn(blocks, p) : p \in held[d]}]
    BY LiveIs
  <2>3. held'[c] = held[c] \cup {q} /\ \A d \in Clients : d # c => held'[d] = held[d]
    BY <1>1
  <2> HIDE DEF q, x
  <2>4. {ExtentIn(blocks', p) : p \in held'[c]} = {ExtentIn(blocks, p) : p \in held[c]} \cup {x}
    BY <1>3, <1>4, <2>3
  <2>5. \A d \in Clients : d # c =>
          {ExtentIn(blocks', p) : p \in held'[d]} = {ExtentIn(blocks, p) : p \in held[d]}
    BY <1>4, <2>3
  <2>6. QED
    BY <2>1, <2>2, <2>4, <2>5
<1>7. x \in live'[c]
  BY <1>2, <1>3, LiveIs
<1>8. \A d \in Clients : \A y \in live[d] : Promise!Apart(x, y)
  BY <1>4, LiveIs
<1>9. QED
  BY <1>5, <1>6, <1>7, <1>8 DEF Promise!Allocate

\* free gives back the caller's extent, and only that.
LEMMA FreeRefines ==
  ASSUME Inv, Inv', NEW c \in Clients, NEW p \in held[c], Free(c, p)
  PROVE  Promise!GiveBack(c)
<1>1. SameBlocks /\ DOMAIN blocks' = DOMAIN blocks
  BY SetUsedSameBlocks DEF Free, Release
<1>2. held' = [held EXCEPT ![c] = @ \ {p}] /\ held \in [Clients -> SUBSET Nat]
  BY DEF Free, Inv, TypeOK
<1>3. \A d \in Clients : \A q \in held[d] : ExtentIn(blocks', q) = ExtentIn(blocks, q)
  BY <1>1, HeldExtentsKept
<1>4. \A q : ExtentIn(blocks, q)[1] = q
  BY DEF ExtentIn
<1>5. live = [d \in Clients |-> {ExtentIn(blocks, q) : q \in held[d]}]
  BY LiveIs
<1>6. live' = [d \in Clients |-> {ExtentIn(blocks', q) : q \in held'[d]}]
  BY LiveIs
<1>7. live' = [live EXCEPT ![c] = @ \ {ExtentIn(blocks, p)}]
  <2>1. held'[c] = held[c] \ {p} /\ \A d \in Clients : d # c => held'[d] = held[d]
    BY <1>2
  <2>2. \A q \in held[c] : ExtentIn(blocks, q) = ExtentIn(blocks, p) <=> q = p
    BY <1>4
  <2>3. {ExtentIn(blocks', q) : q \in held'[c]} = {ExtentIn(blocks, q) : q \in held[c]} \ {ExtentIn(blocks, p)}
    BY <1>3, <2>1, <2>2
  <2>4. \A d \in Clients : d # c =>
          {ExtentIn(blocks', q) : q \in held'[d]} = {ExtentIn(blocks, q) : q \in held[d]}
    BY <1>3, <2>1
  <2>5. QED
    BY <1>5, <1>6, <2>3, <2>4
<1>8. ExtentIn(blocks, p) \in live[c]
  BY <1>5
<1>9. QED
  BY <1>7, <1>8 DEF Promise!GiveBack, Free

\* Every step of the heap is a step of the abstract allocator or changes nothing
\* it can see.
LEMMA StepRefines ==
  ASSUME NoWrap, Inv, Inv', [Next]_vars
  PROVE  [Promise!ANext]_<<live, asked>>
<1>1. CASE UNCHANGED vars
  BY <1>1 DEF vars, live, BlockAt, Payload
<1>2. ASSUME NEW c \in Clients, NEW n \in Requests, MallocReuse(c, n)
      PROVE  Promise!ANext
  <2>1. PICK i \in DOMAIN blocks :
          /\ ~blocks[i].used /\ blocks[i].size >= Aligned(n)
          /\ blocks' = SetUsed(i, TRUE)
          /\ held' = [held EXCEPT ![c] = @ \cup {Payload(blocks[i])}]
          /\ asked' = n /\ UNCHANGED current
    BY <1>2 DEF MallocReuse, FirstFit, Fits
  <2>2. SameBlocks /\ DOMAIN blocks' = DOMAIN blocks
    BY <2>1, SetUsedSameBlocks
  <2>3. Payload(blocks'[i]) = Payload(blocks[i]) /\ blocks'[i].size = blocks[i].size
    BY <2>2 DEF SameBlocks, Payload
  <2>4. n \in Nat /\ blocks'[i].size >= n
    <3>1. n \in Nat /\ Aligned(n) \in Nat /\ n <= Aligned(n)
      BY NewEndIsSum DEF Inv, TypeOK
    <3>2. blocks[i].size \in Nat
      <4>1. blocks[i] \in Block
        BY DEF Inv, TypeOK
      <4>2. QED
        BY <4>1 DEF Block
    <3>3. blocks[i].size >= Aligned(n) /\ blocks'[i].size = blocks[i].size
      BY <2>1, <2>3
    <3>4. QED
      BY <3>1, <3>2, <3>3
  <2>5. \A d \in Clients : Payload(blocks[i]) \notin held[d]
    BY <2>1, HeldBlock, HeaderInFacts
  <2>6. Promise!Allocate(c, n)
    BY <2>1, <2>2, <2>3, <2>4, <2>5, GiveBlock
  <2>7. QED
    BY <2>6 DEF Promise!ANext
<1>3. ASSUME NEW c \in Clients, NEW n \in Requests, MallocExtend(c, n)
      PROVE  Promise!ANext
  <2> DEFINE k == Len(blocks) + 1
  <2>1. /\ SameBlocks /\ DOMAIN blocks \subseteq DOMAIN blocks' /\ k \in DOMAIN blocks'
        /\ blocks'[k] = [addr |-> current, size |-> Aligned(n), used |-> TRUE]
        /\ n \in Nat /\ Aligned(n) \in Nat /\ n <= Aligned(n) /\ current \in Nat
    BY <1>3, ExtendFacts
  <2>2. held' = [held EXCEPT ![c] = @ \cup {current + Header}] /\ asked' = n
    BY <1>3 DEF MallocExtend
  <2>3. Payload(blocks'[k]) = current + Header /\ blocks'[k].size >= n
    BY <2>1 DEF Payload
  <2>4. \A d \in Clients : current + Header \notin held[d]
    <3>1. \A j \in DOMAIN blocks : blocks[j] \in Block
      BY DEF Inv, TypeOK
    <3>2. \A j \in DOMAIN blocks : Payload(blocks[j]) # current + Header
      BY <2>1, <3>1 DEF Inv, Carved, Payload, Header, Block
    <3>3. QED
      BY <3>2 DEF Inv, OneOwner
  <2>5. Promise!Allocate(c, n)
    BY <2>1, <2>2, <2>3, <2>4, GiveBlock
  <2>6. QED
    BY <2>5 DEF Promise!ANext
<1>4. ASSUME NEW n \in Requests, MallocFull(n)
      PROVE  Promise!RefuseRequest(n)
  BY <1>4 DEF MallocFull, live, BlockAt, Payload, Promise!RefuseRequest
<1>5. ASSUME NEW c \in Clients, NEW p \in held[c], Free(c, p)
      PROVE  Promise!ANext
  BY <1>5, FreeRefines DEF Promise!ANext
<1>6. ASSUME NEW c \in Clients, NEW n \in Requests, MallocFull(n)
      PROVE  Promise!ANext
  BY <1>4, <1>6 DEF Promise!ANext
<1>7. QED
  BY <1>1, <1>2, <1>3, <1>5, <1>6 DEF Next

\* The heap implements the abstract allocator: every malloc that succeeds gives
\* its caller an aligned extent, large enough, inside the heap and apart from all
\* live extents; every free gives back exactly one.
THEOREM HeapRefines == ASSUME NoWrap PROVE Spec => ImplementsPromise
<1>1. Init => Promise!AInit
  BY DEF Init, Promise!AInit, live
<1>2. Inv /\ Inv' /\ [Next]_vars => [Promise!ANext]_<<live, asked>>
  BY StepRefines
<1>3. QED
  BY <1>1, <1>2, HeapInvariant, PTL DEF Spec, ImplementsPromise, Promise!Spec
=============================================================================
