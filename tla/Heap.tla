-------------------------------- MODULE Heap --------------------------------
(***************************************************************************)
(* The kernel heap: class HeapAllocator of kernel/memory.h.                *)
(*                                                                         *)
(* The allocator keeps a bump pointer (current) and a list of the blocks   *)
(* it has carved so far.  A block is a header (struct Block) followed by   *)
(* its payload; headers are linked newest first.  malloc takes the first   *)
(* free block of the list that is large enough, whole, and only when there *)
(* is none carves a new block at current.  Blocks are never split, merged  *)
(* or given back.  free only clears the used flag.                         *)
(*                                                                         *)
(* The list is the sequence blocks, OLDEST first: head is the last element *)
(* and b->next of blocks[i] is blocks[i-1].  The addresses of the headers  *)
(* are explicit, so that overlap is a statement about addresses and not an *)
(* effect of the representation.  Addresses are unsigned machine words.    *)
(*                                                                         *)
(* The callers (shell commands, system calls, drivers) are Clients; held   *)
(* is the set of pointers a client obtained and has not freed.             *)
(***************************************************************************)
EXTENDS Integers, Sequences

CONSTANTS
  Clients,     \* who calls malloc and free
  Requests,    \* sizes asked for
  HeapStart,   \* first address of the heap (kernel_end rounded to a page)
  HeapSize,    \* bytes of the heap (4 MiB in the kernel)
  WordSize     \* number of values of an unsigned long long

Header == 24   \* sizeof(Block): size, used and its padding, next
Null   == 0

HeapEnd == HeapStart + HeapSize

(***************************************************************************)
(* The heap lies inside the address space and does not start at the null   *)
(* address.  It starts on a page, hence on a multiple of 8.  A request is  *)
(* any word.                                                               *)
(***************************************************************************)
ASSUME HeapAssumption ==
  /\ HeapStart \in Nat \ {0} /\ HeapStart % 8 = 0
  /\ HeapSize \in Nat
  /\ WordSize \in Nat /\ WordSize % 8 = 0
  /\ HeapEnd + Header < WordSize
  /\ Requests \subseteq 0 .. WordSize - 1

(***************************************************************************)
(* Requests for which the address of the end of a new block cannot wrap.   *)
(* The kernel's own requests are such: a file size (32 bits) or a constant *)
(* of the loaders.  malloc does not check it, and the sizes programs give  *)
(* to SYS_MALLOC need not satisfy it.                                      *)
(***************************************************************************)
NoWrap == \A n \in Requests : HeapEnd + Header + n + 7 < WordSize

VARIABLES
  blocks,    \* the block list, oldest first
  current,   \* the bump pointer
  held,      \* client -> pointers it may use
  asked      \* history: the size the last call of malloc asked for

vars == <<blocks, current, held, asked>>

(***************************************************************************)
(* Words wrap.                                                             *)
(***************************************************************************)
Word(n) == IF n < WordSize THEN n ELSE n - WordSize

\* Mutant of Aligned: it rounds down.
AlignedDown(size) == (size \div 8) * 8

Aligned(size) == (Word(size + 7) \div 8) * 8

Payload(b) == b.addr + Header

SetUsed(i, flag) == [blocks EXCEPT ![i].used = flag]

(***************************************************************************)
(* The walk of the list stops at the newest free block of at least size    *)
(* bytes: the free block of highest index.                                 *)
(***************************************************************************)

Fits(i, size) == ~blocks[i].used /\ blocks[i].size >= size

FirstFit(i, size) ==
  /\ Fits(i, size)
  /\ \A j \in DOMAIN blocks : Fits(j, size) => j <= i

NoFit(size) == \A i \in DOMAIN blocks : ~Fits(i, size)

NewEndNoHeader(size) == Word(current + size)            \* mutant of NewEnd

NewEnd(size) == Word(current + Header + size)

Init ==
  /\ blocks = <<>>
  /\ current = HeapStart
  /\ held = [c \in Clients |-> {}]
  /\ asked = 0

\* Mutant of MallocReuse: the block is trimmed to the request.
MallocReuseTrim(c, n) ==
  \E i \in DOMAIN blocks :
    /\ FirstFit(i, Aligned(n))
    /\ blocks' = [blocks EXCEPT ![i].used = TRUE, ![i].size = Aligned(n)]
    /\ held' = [held EXCEPT ![c] = @ \cup {Payload(blocks[i])}]
    /\ asked' = n /\ UNCHANGED current

(***************************************************************************)
(* malloc returns a block of the list.                                     *)
(***************************************************************************)
MallocReuse(c, n) ==
  \E i \in DOMAIN blocks :
    /\ FirstFit(i, Aligned(n))
    /\ blocks' = SetUsed(i, TRUE)
    /\ held' = [held EXCEPT ![c] = @ \cup {Payload(blocks[i])}]
    /\ asked' = n /\ UNCHANGED current

(***************************************************************************)
(* malloc carves a block at current.                                       *)
(***************************************************************************)
MallocExtend(c, n) ==
  LET size == Aligned(n) IN
    /\ NoFit(size)
    /\ NewEnd(size) <= HeapEnd
    /\ blocks' = Append(blocks, [addr |-> current, size |-> size, used |-> TRUE])
    /\ current' = NewEnd(size)
    /\ held' = [held EXCEPT ![c] = @ \cup {current + Header}]
    /\ asked' = n

(***************************************************************************)
(* malloc returns nullptr.                                                 *)
(***************************************************************************)
MallocFull(n) ==
  LET size == Aligned(n) IN
    /\ NoFit(size)
    /\ NewEnd(size) > HeapEnd
    /\ asked' = n /\ UNCHANGED <<blocks, current, held>>

(***************************************************************************)
(* free(p): the header is found by subtracting its size, and only its used *)
(* flag is written.  A client frees what it holds, once.                   *)
(***************************************************************************)
Release(p) ==
  \E i \in DOMAIN blocks :
    /\ blocks[i].addr = p - Header
    /\ blocks' = SetUsed(i, FALSE)

Free(c, p) ==
  /\ p \in held[c]
  /\ Release(p)
  /\ held' = [held EXCEPT ![c] = @ \ {p}]
  /\ UNCHANGED <<current, asked>>

Next ==
  \E c \in Clients :
    \/ \E n \in Requests : MallocReuse(c, n)
    \/ \E n \in Requests : MallocExtend(c, n)
    \/ \E n \in Requests : MallocFull(n)
    \/ \E p \in held[c] : Free(c, p)

Spec == Init /\ [][Next]_vars

-----------------------------------------------------------------------------
(***************************************************************************)
(* Properties.                                                             *)
(***************************************************************************)
Block == [addr : Nat, size : Nat, used : BOOLEAN]

\* Type invariant of the block list, the bump pointer and the ledger of the
\* callers.
TypeOK ==
  /\ blocks \in Seq(Block)
  /\ current \in HeapStart .. HeapEnd
  /\ held \in [Clients -> SUBSET Nat]
  /\ asked \in Nat

\* The blocks tile the carved part of the heap: the first header is at the
\* start of the heap, each block ends where the next one begins, and the last
\* one ends at the bump pointer.  This is what lets free find a header by
\* subtraction and malloc walk the list without reading foreign memory.
Tiling ==
  /\ Len(blocks) = 0 => current = HeapStart
  /\ Len(blocks) > 0 => /\ blocks[1].addr = HeapStart
                        /\ Payload(blocks[Len(blocks)]) + blocks[Len(blocks)].size = current
  /\ \A i \in 1 .. Len(blocks) - 1 :
       blocks[i + 1].addr = Payload(blocks[i]) + blocks[i].size

\* Headers stay aligned on 8 bytes, and so do the pointers malloc returns,
\* whatever sizes were asked for (the comment "Aligner sur 8 octets" of malloc).
AlignedBlocks ==
  /\ current % 8 = 0
  /\ \A i \in DOMAIN blocks : blocks[i].addr % 8 = 0 /\ blocks[i].size % 8 = 0

\* Any two blocks are disjoint, headers included: writing a payload up to its
\* size damages neither another payload nor the block list.
Disjoint ==
  \A i, j \in DOMAIN blocks :
    i < j => Payload(blocks[i]) + blocks[i].size <= blocks[j].addr

\* The carved blocks lie inside the heap.  malloc refuses a request that does not
\* fit (memory.h:241, "Heap pleine"); this needs NoWrap.
InsideHeap ==
  \A i \in DOMAIN blocks :
    HeapStart <= blocks[i].addr /\ Payload(blocks[i]) + blocks[i].size <= HeapEnd

\* A block is in use exactly while one caller, and only one, holds its payload.
\* Violated if malloc hands out a block that is in use, if free clears the flag
\* of another block, or if a free block is forgotten.
OneOwner ==
  /\ \A c \in Clients : \A p \in held[c] :
       \E i \in DOMAIN blocks : Payload(blocks[i]) = p /\ blocks[i].used
  /\ \A i \in DOMAIN blocks : blocks[i].used =>
       \E c \in Clients : Payload(blocks[i]) \in held[c]
  /\ \A c, d \in Clients : c # d => held[c] \cap held[d] = {}

\* The heap is sound: the blocks tile it, aligned, disjoint and inside it, and each has
\* the owner the ledger says (memory.h:225-257).
Sound == TypeOK /\ Tiling /\ AlignedBlocks /\ Disjoint /\ InsideHeap /\ OneOwner

\* Pointers stay valid: no call moves, resizes or drops a block, and the bump
\* pointer never goes back.
Stable ==
  [][/\ current' >= current
     /\ Len(blocks') >= Len(blocks)
     /\ \A i \in DOMAIN blocks : /\ blocks'[i].addr = blocks[i].addr
                                 /\ blocks'[i].size = blocks[i].size]_vars

-----------------------------------------------------------------------------
(***************************************************************************)
(* The heap implements the allocator its callers rely on.                  *)
(***************************************************************************)
BlockAt(p) == CHOOSE i \in DOMAIN blocks : Payload(blocks[i]) = p

live == [c \in Clients |-> {<<p, p + blocks[BlockAt(p)].size>> : p \in held[c]}]

Promise == INSTANCE AbstractHeap

\* Every call of malloc and free is a step of the abstract allocator: malloc
\* returns an extent of at least the size asked for, inside the heap and apart
\* from every live extent, or nothing; free gives back exactly the caller's
\* extent.
ImplementsPromise == Promise!Spec
=============================================================================
