------------------------------- MODULE Paging -------------------------------
(***************************************************************************)
(* Physical frames, page tables and address spaces: init_paging,           *)
(* alloc_frame, get_page and switch_page_directory (kernel/paging.c), the  *)
(* placement of what they allocate (kernel/heap.c), and clone_directory    *)
(* (kernel/task.c), by which fork makes an address space.                  *)
(*                                                                         *)
(* Addresses are page numbers.  A table or directory is named by the page  *)
(* it begins in; a directory spans three, with tables in the first,        *)
(* tablesPhysical in the second and physicalAddr in the third.  0 is the   *)
(* null pointer.  The page flags other than present are left out, as the   *)
(* kernel runs everything where they do not bind.                          *)
(***************************************************************************)
EXTENDS Integers, FiniteSets

CONSTANTS
  nframes,       \* frames of physical memory that the bitmap is to cover
  PER_TABLE,     \* entries of a page table
  HEAP_END,      \* KHEAP_END: the pages below it are mapped at boot
  HEAP_TABLE,    \* the index of the table for KHEAP_START
  START,         \* the page the boot loader's modules and the bitmap end in
  UserPages,     \* pages that callers map in their own address space
  Values,        \* what a page may hold
  StaleBits,     \* what may lie in memory where the bitmap is not cleared
  Leftovers,     \* what first_frame may leave in the result register
  BRK_MAX        \* bound: the heap is observed up to this page

ASSUME PagingAssumption ==
  /\ {nframes, PER_TABLE, HEAP_END, START} \subseteq Nat \ {0}
  /\ HEAP_TABLE \in Nat /\ BRK_MAX \in 0..HEAP_END
  /\ UserPages \subseteq Nat /\ IsFiniteSet(UserPages)
  /\ \A p \in UserPages : p >= HEAP_END /\ p \div PER_TABLE # HEAP_TABLE

(* What first_frame leaves is the number of a frame: nframes / 32 in the   *)
(* build, which has no optimisation.                                       *)
ASSUME LeftoverAssumption == Leftovers \subseteq 0..nframes-1

(* The pages placed at boot, two more for every table, are all below       *)
(* KHEAP_END.                                                              *)
ASSUME BootFits == START + 3 + 2 * ((HEAP_END-1) \div PER_TABLE + 2) < HEAP_END

VARIABLES
  frames,             \* the frames whose bit is set
  stale, leftover,    \* the choices from StaleBits and Leftovers
  placement_pointer,  \* the page it points into
  heap_end,           \* 0 until init_heap
  pages,              \* pages[t][s]: the frame of t's entry s, or Absent
  directory,          \* directory[d]: page_directory_t
  current_directory,
  memory,             \* memory[f]: what the frame holds
  pc, i               \* where init_paging is, and its loop variable

vars == <<frames, stale, leftover, placement_pointer, heap_end, pages, directory,
          current_directory, memory, pc, i>>
choices == <<stale, leftover>>

-----------------------------------------------------------------------------
Frames == 0..nframes-1
Absent == -1

(* As many bytes are allocated and cleared as the bitmap has words, so    *)
(* a quarter of the bits are known to be clear; the rest lie between it and *)
(* the next page, where the directory is placed.                           *)
Cleared == 0..(nframes \div 4)-1

kernel_directory == START + 1

Indexes == 0..(HEAP_END-1) \div PER_TABLE
           \cup {HEAP_TABLE} \cup {p \div PER_TABLE : p \in UserPages}
Slots == 0..PER_TABLE-1
EmptyTable == [s \in Slots |-> Absent]
EmptyDirectory == [tables |-> [x \in Indexes |-> 0],
                   tablesPhysical |-> [x \in Indexes |-> 0], physicalAddr |-> 0]

(* The function f with value v at x, which it need not be defined for yet. *)
With(f, x, v) == [y \in DOMAIN f \cup {x} |-> IF y = x THEN v ELSE f[y]]

(* get_page with make = 0, followed to the frame.                          *)
Entry(d, p) ==
  LET t == directory[d].tables[p \div PER_TABLE]
  IN IF t = 0 THEN Absent ELSE pages[t][p % PER_TABLE]

(* Mutant: alloc_frame replaces the frame a page has.                      *)
HasFrame_Never(entry) == FALSE
(* page->frame != 0.  Page 0 is mapped to frame 0 and fails the test.      *)
HasFrame(entry) == entry > 0

Free == Frames \ frames

(* What the n-th of several calls of first_frame returns.  When every bit  *)
(* is set it runs off its end without a return: what it leaves is          *)
(* arbitrary but, as the loop always ends alike, always the same.          *)
NthFree(n) ==
  IF Cardinality(Free) < n THEN leftover
  ELSE CHOOSE f \in Free : Cardinality({g \in Free : g < f}) = n - 1

(* Mutant: it is given a frame number where it takes an address.           *)
set_frame_Number(fs) == frames \cup {f \div 4096 : f \in fs}
set_frame(fs) == frames \cup fs

-----------------------------------------------------------------------------
(* init_paging.  The bitmap and the kernel's directory are placed first.   *)

Init ==
  /\ stale \in StaleBits /\ stale \cap Cleared = {} /\ stale \subseteq Frames
  /\ leftover \in Leftovers
  /\ frames = stale
  /\ placement_pointer = kernel_directory + 2
  /\ heap_end = 0
  /\ pages = [t \in {} |-> EmptyTable]
  /\ directory = [d \in {kernel_directory} |-> EmptyDirectory]
  /\ current_directory = 0
  /\ memory \in {[f \in Frames |-> v] : v \in Values}
  /\ pc = "heap_table" /\ i = 0

(* kmalloc_aligned before there is a heap: the page after the one that     *)
(* placement_pointer points into, even if it points to that one's start.   *)
Placed == placement_pointer + 1

(* get_page(p, 1, kernel_directory) where the table is missing.            *)
MakeTable(x) ==
  /\ directory' = [directory EXCEPT ![kernel_directory].tables[x] = Placed,
                                    ![kernel_directory].tablesPhysical[x] = Placed]
  /\ placement_pointer' = Placed + 1

HeapTable ==
  /\ pc = "heap_table"
  /\ MakeTable(HEAP_TABLE)
  /\ pages' = With(pages, Placed, EmptyTable)
  /\ pc' = "identity"
  /\ UNCHANGED <<frames, choices, heap_end, current_directory, memory, i>>

(* alloc_frame(get_page(p, 1, kernel_directory), 1, 0).                    *)
BootPage(p) ==
  LET x == p \div PER_TABLE
      t == directory[kernel_directory].tables[x]
      f == NthFree(1)
  IN IF t = 0
     THEN /\ MakeTable(x)
          /\ pages' = With(pages, Placed, [EmptyTable EXCEPT ![p % PER_TABLE] = f])
          /\ frames' = set_frame({f})
     ELSE /\ IF HasFrame(pages[t][p % PER_TABLE])
             THEN UNCHANGED <<pages, frames>>
             ELSE /\ pages' = [pages EXCEPT ![t][p % PER_TABLE] = f]
                  /\ frames' = set_frame({f})
          /\ UNCHANGED <<directory, placement_pointer>>

BootIdentity ==
  /\ pc = "identity" /\ i < placement_pointer + 1
  /\ BootPage(i)
  /\ i' = i + 1
  /\ UNCHANGED <<choices, heap_end, current_directory, memory, pc>>

(* Mutant: the second loop begins one page too far.                        *)
BootNextLoop_Late ==
  /\ pc = "identity" /\ i >= placement_pointer + 1
  /\ directory' = [directory EXCEPT ![kernel_directory].physicalAddr = kernel_directory + 1]
  /\ pc' = "rest" /\ i' = placement_pointer + 2
  /\ UNCHANGED <<frames, choices, placement_pointer, heap_end, pages, current_directory, memory>>

BootNextLoop ==
  /\ pc = "identity" /\ i >= placement_pointer + 1
  /\ directory' = [directory EXCEPT ![kernel_directory].physicalAddr = kernel_directory + 1]
  /\ pc' = "rest" /\ i' = placement_pointer
  /\ UNCHANGED <<frames, choices, placement_pointer, heap_end, pages, current_directory, memory>>

BootRest ==
  /\ pc = "rest" /\ i < HEAP_END
  /\ BootPage(i)
  /\ i' = i + 1
  /\ UNCHANGED <<choices, heap_end, current_directory, memory, pc>>

EnablePaging ==
  /\ pc = "rest" /\ i >= HEAP_END
  /\ current_directory' = kernel_directory
  /\ pc' = "enabled"
  /\ UNCHANGED <<frames, choices, placement_pointer, heap_end, pages, directory, memory, i>>

-----------------------------------------------------------------------------
(* clone_directory.                                                        *)

Shared(src, x) == directory[src].tables[x] = directory[kernel_directory].tables[x]

(* Mutant: every table is shared, not only the kernel's.                   *)
Owned_None(src) == {}
(* The tables that clone_directory hands to clone_table.                   *)
Owned(src) == {x \in Indexes : directory[src].tables[x] # 0 /\ ~Shared(src, x)}

(* Mutant: physicalAddr is where the directory begins.                     *)
DirectoryAt_NoOffset(phys) == phys
(* dir->physicalAddr, for a directory that begins in this frame.           *)
DirectoryAt(phys) == phys + 1

(* The pages clone_table copies, in the order in which it meets them.      *)
Copied(src) == {x * PER_TABLE + s : x \in Owned(src), s \in Slots}
CopiedPages(src) == {p \in Copied(src) : HasFrame(Entry(src, p))}
NewFrame(src, p) == NthFree(1 + Cardinality({q \in CopiedPages(src) : q < p}))

(* The contents of the frames once each page is copied to its new frame.   *)
copy_page_physical(src) ==
  [f \in Frames |->
     LET from == {p \in CopiedPages(src) : NewFrame(src, p) = f}
     IN IF from = {} THEN memory[f] ELSE memory[Entry(src, CHOOSE p \in from : TRUE)]]

(* A directory at page dir in frame phys, with its own tables at table[x]. *)
clone_directory(src, dir, phys, table) ==
  LET own == Owned(src)
      copy == CopiedPages(src)
  IN /\ directory' = With(directory, dir,
          [tables |-> [x \in Indexes |->
             IF x \in own THEN table[x] ELSE directory[src].tables[x]],
           tablesPhysical |-> [x \in Indexes |->
             IF x \in own THEN Entry(kernel_directory, table[x])
                          ELSE directory[src].tablesPhysical[x]],
           physicalAddr |-> DirectoryAt(phys)])
     /\ pages' = [t \in DOMAIN pages \cup {table[x] : x \in own} |->
          IF t \in DOMAIN pages THEN pages[t]
          ELSE LET x == CHOOSE y \in own : table[y] = t
               IN [s \in Slots |->
                    IF x * PER_TABLE + s \in copy THEN NewFrame(src, x * PER_TABLE + s)
                                                  ELSE Absent]]
     /\ frames' = set_frame({NewFrame(src, p) : p \in copy})
     /\ memory' = copy_page_physical(src)

(* Mutant: the boot goes on in the kernel's own directory.                 *)
CloneKernel_Stays ==
  /\ pc = "enabled"
  /\ clone_directory(kernel_directory, Placed, Placed, <<>>)
  /\ placement_pointer' = Placed + 2
  /\ pc' = "init_heap"
  /\ UNCHANGED <<choices, heap_end, current_directory, i>>

(* The end of init_paging; the clone is placed, at its physical address.   *)
CloneKernel ==
  /\ pc = "enabled"
  /\ clone_directory(kernel_directory, Placed, Placed, <<>>)
  /\ current_directory' = Placed
  /\ placement_pointer' = Placed + 2
  /\ pc' = "init_heap"
  /\ UNCHANGED <<choices, heap_end, i>>

InitHeap ==
  /\ pc = "init_heap"
  /\ heap_end' = placement_pointer + 1
  /\ pc' = "run"
  /\ UNCHANGED <<frames, choices, placement_pointer, pages, directory, current_directory, memory, i>>

-----------------------------------------------------------------------------
(* After boot, tables and directories come from valloc.  None is freed, so *)
(* each is in a new block at heap_end, of which the first page is the      *)
(* header's: three pages for a table, four for a directory.                *)
TABLE_BLOCK == 3
DIRECTORY_BLOCK == 4

(* Any other caller of the heap.                                           *)
HeapGrows ==
  /\ pc = "run" /\ heap_end < BRK_MAX
  /\ heap_end' = heap_end + 1
  /\ UNCHANGED <<frames, choices, placement_pointer, pages, directory, current_directory,
                 memory, pc, i>>

(* fork's call of clone_directory.  Bound: here and in MapPage a frame is  *)
(* left for every page; what happens otherwise the boot shows.             *)
CloneDirectory ==
  LET src == current_directory
      own == Owned(src)
      dir == heap_end + 1
      brk == heap_end + DIRECTORY_BLOCK + TABLE_BLOCK * Cardinality(own)
      table == [x \in own |-> heap_end + DIRECTORY_BLOCK + 1
                              + TABLE_BLOCK * Cardinality({y \in own : y < x})]
  IN /\ pc = "run" /\ brk <= BRK_MAX
     /\ Cardinality(CopiedPages(src)) <= Cardinality(Free)
     /\ clone_directory(src, dir, Entry(kernel_directory, dir), table)
     /\ heap_end' = brk
     /\ UNCHANGED <<choices, placement_pointer, current_directory, pc, i>>

(* switch_task, to the directory of any process.                           *)
SwitchDirectory ==
  /\ pc = "run"
  /\ current_directory' \in DOMAIN directory \ {kernel_directory}
  /\ UNCHANGED <<frames, choices, placement_pointer, heap_end, pages, directory, memory, pc, i>>

(* alloc_frame(get_page(p, 1, current_directory), ...), the interface for  *)
(* memory of a process's own; for a page that has a frame it does nothing. *)
MapPage(p) ==
  LET d == current_directory
      x == p \div PER_TABLE
      t == heap_end + 1
      f == NthFree(1)
  IN /\ pc = "run" /\ Free # {}
     /\ ~HasFrame(Entry(d, p))
     /\ frames' = set_frame({f})
     /\ IF directory[d].tables[x] = 0
        THEN /\ heap_end + TABLE_BLOCK <= BRK_MAX
             /\ directory' = [directory EXCEPT
                  ![d].tables[x] = t,
                  ![d].tablesPhysical[x] = Entry(kernel_directory, t)]
             /\ pages' = With(pages, t, [EmptyTable EXCEPT ![p % PER_TABLE] = f])
             /\ heap_end' = heap_end + TABLE_BLOCK
        ELSE /\ pages' = [pages EXCEPT ![directory[d].tables[x]][p % PER_TABLE] = f]
             /\ UNCHANGED <<directory, heap_end>>
     /\ UNCHANGED <<choices, placement_pointer, current_directory, memory, pc, i>>

(* A process writes to a page of its own.                                  *)
Write(p, v) ==
  /\ pc = "run" /\ Entry(current_directory, p) # Absent
  /\ memory' = [memory EXCEPT ![Entry(current_directory, p)] = v]
  /\ UNCHANGED <<frames, choices, placement_pointer, heap_end, pages, directory,
                 current_directory, pc, i>>

Next ==
  \/ HeapTable \/ BootIdentity \/ BootNextLoop \/ BootRest \/ EnablePaging
  \/ CloneKernel \/ InitHeap
  \/ HeapGrows \/ CloneDirectory \/ SwitchDirectory
  \/ \E p \in UserPages : MapPage(p) \/ \E v \in Values : Write(p, v)

Spec == Init /\ [][Next]_vars

-----------------------------------------------------------------------------
(* Properties.                                                             *)

Paged == pc \in {"enabled", "init_heap", "run"}
MappedTo(f) == {q \in (DOMAIN pages) \X Slots : pages[q[1]][q[2]] = f}
Mapped == {pages[t][s] : t \in DOMAIN pages, s \in Slots} \ {Absent}

TypeOK ==
  /\ frames \subseteq Frames /\ stale \subseteq Frames /\ leftover \in Frames
  /\ placement_pointer \in Nat /\ heap_end \in Nat /\ i \in Nat
  /\ DOMAIN pages \subseteq Nat \ {0}
  /\ pages \in [DOMAIN pages -> [Slots -> Frames \cup {Absent}]]
  /\ kernel_directory \in DOMAIN directory /\ DOMAIN directory \subseteq Nat \ {0}
  /\ directory \in [DOMAIN directory ->
       [tables : [Indexes -> DOMAIN pages \cup {0}], tablesPhysical : [Indexes -> Int],
        physicalAddr : Int]]
  /\ current_directory \in DOMAIN directory \cup {0}
  /\ memory \in [Frames -> Values]
  /\ pc \in {"heap_table", "identity", "rest", "enabled", "init_heap", "run"}

(* No frame is given to two pages, of any tables, while one is free: only  *)
(* the leftover of a failed search is, and only once all are taken.        *)
FrameGivenOnce ==
  \A f \in Mapped :
    Cardinality(MappedTo(f)) > 1 => f = leftover /\ Free = {}

(* The bitmap says which frames are mapped (paging.c:3), but for bits that *)
(* were set before anybody used it: alloc_frame's callers lose none.       *)
BitmapTruth == frames = stale \cup Mapped

(* When paging is switched on everything placed so far, the kernel, the    *)
(* modules, the bitmap and the tables, stays at its address, whatever the  *)
(* uncleared part of the bitmap holds: tables placed while the mapping is  *)
(* made are mapped too.                                                    *)
PlacedStays ==
  Paged => \A p \in 0..placement_pointer : Entry(kernel_directory, p) = p

(* The processor walks the directories by physical addresses, the kernel   *)
(* by pointers: they lead to the same place, for what was recorded before  *)
(* paging was on and for what is computed from the mapping later.          *)
WalkRight ==
  Paged => \A d \in DOMAIN directory :
    /\ directory[d].physicalAddr = Entry(kernel_directory, d + 1)
    /\ \A x \in Indexes : directory[d].tables[x] # 0 =>
         directory[d].tablesPhysical[x] = Entry(kernel_directory, directory[d].tables[x])

(* Every address space has the kernel's tables, so that what one process   *)
(* changes in the kernel's memory all see; any other table is one space's. *)
KernelShared ==
  Paged => \A d \in DOMAIN directory : \A x \in Indexes :
    LET k == directory[kernel_directory].tables[x]
        t == directory[d].tables[x]
    IN IF k # 0 THEN t = k
       ELSE t # 0 => \A e \in DOMAIN directory \ {d} : directory[e].tables[x] # t

(* Each process has memory of its own: fork copies it and later writes of  *)
(* either side stay its own.                                               *)
Processes == DOMAIN directory \ {kernel_directory}
Memory == INSTANCE AddressSpaces WITH
  Spaces <- 1..HEAP_END, Pages <- UserPages, Unmapped <- Absent, Nobody <- 0,
  current <- IF current_directory \in Processes THEN current_directory ELSE 0,
  space <- [d \in Processes |-> [p \in UserPages |->
             IF Entry(d, p) = Absent THEN Absent ELSE memory[Entry(d, p)]]]
SpacesKept == Memory!Spec

(* What alloc_frame's PANIC("No free frames") says (paging.c:70): no frame *)
(* is ever given out when there is none.                                   *)
NoFrameTwice == \A f \in Mapped : Cardinality(MappedTo(f)) = 1
=============================================================================
