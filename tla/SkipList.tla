------------------------------ MODULE SkipList ------------------------------
(***************************************************************************)
(* The skip list in which klmalloc keeps the free big blocks, sorted by    *)
(* capacity: findbest, insert and delete of kernel/heap.c, driven the way  *)
(* klmalloc and klfree drive them.  forward is the array of every header   *)
(* as it lies in memory: the entries above the level a block was last      *)
(* inserted at are left over from an earlier insertion and stay there.     *)
(***************************************************************************)
EXTENDS Integers, FiniteSets

CONSTANTS
  Blocks,          \* the big blocks
  Capacities,      \* the values header->size may have
  Requests,        \* the sizes searched for
  SKIP_MAX_LEVEL,  \* the highest level
  HEAD,            \* &klmalloc_big_bins.head
  NULL             \* the null pointer

ASSUME LevelAssumption == SKIP_MAX_LEVEL \in Nat
ASSUME SizeAssumption == Capacities \subseteq Nat /\ Requests \subseteq Nat
ASSUME NodeAssumption == HEAD \notin Blocks /\ NULL \notin Blocks \cup {HEAD}

Nodes == Blocks \cup {HEAD}
Levels == 0..SKIP_MAX_LEVEL

VARIABLES
  size,     \* size[b], the capacity of b
  forward,  \* forward[x][i], the successor of node x on level i
  level,    \* klmalloc_big_bins.level
  inuse,    \* the blocks whose cell is handed out (header->head is NULL)
  answer    \* history: the last call, if it was a request, and what it got

vars == <<size, forward, level, inuse, answer>>

-----------------------------------------------------------------------------
(* Mutant: slides past the blocks of size n as well.                       *)
Slide_PastEqual(i, n, from) ==
  LET slide[x \in Nodes] ==
        LET y == forward[x][i]
        IN IF y # NULL /\ size[y] <= n THEN slide[y] ELSE x
  IN slide[from]

(* The descent shared by findbest, insert and delete: from the head, on    *)
(* each level from the top, to the last node whose successors are all of   *)
(* size n or more.  On level i that node is Before(n)[i].                  *)
Slide(i, n, from) ==
  LET slide[x \in Nodes] ==
        LET y == forward[x][i]
        IN IF y # NULL /\ size[y] < n THEN slide[y] ELSE x
  IN slide[from]

Before(n) ==
  LET before[i \in 0..level+1] ==
        IF i = level + 1 THEN HEAD ELSE Slide(i, n, before[i+1])
  IN before

(* Mutant: blocks of exactly the size searched for are passed as well.     *)
findbest_SkipsExact(n) == forward[Before(n + 1)[0]][0]

klmalloc_skip_list_findbest(n) == forward[Before(n)[0]][0]

(* klmalloc_random_level: any level may come out.                          *)
klmalloc_random_level == Levels

(* Insert a block at a level drawn by klmalloc_random_level, in front of   *)
(* the blocks of its own size.                                             *)
klmalloc_skip_list_insert(b) ==
  LET update == Before(size[b])
      Pred(i) == IF i <= level THEN update[i] ELSE HEAD
  IN IF forward[update[0]][0] = b THEN UNCHANGED <<forward, level>>
     ELSE \E top \in klmalloc_random_level :
            /\ level' = IF top > level THEN top ELSE level
            /\ forward' = [x \in Nodes |-> [i \in Levels |->
                 IF i > top THEN forward[x][i]
                 ELSE IF x = b THEN forward[Pred(i)][i]
                 ELSE IF x = Pred(i) THEN b
                 ELSE forward[x][i]]]

(* b is on level 0 at or after x.                                          *)
Reaches(x, b) ==
  LET reach[y \in Blocks \cup {NULL}] ==
        y = b \/ (y # NULL /\ reach[forward[y][0]])
  IN reach[x]

(* Mutant: unlinks on level 0 only.                                        *)
delete_BottomOnly(b) ==
  LET x == Before(size[b])[0]
  IN /\ forward' = [forward EXCEPT ![x][0] = forward[b][0]]
     /\ UNCHANGED level

(* Delete a block.  The search on level 0 has no other end than b itself.  *)
(* Unlinking goes up from level 0 and stops at the first level where b is  *)
(* not the successor of the node the descent stopped at; then the list     *)
(* level drops to the highest one in use.                                  *)
klmalloc_skip_list_delete(b) ==
  LET update == Before(size[b])
      linked == {i \in 0..level : \A j \in 0..i : forward[update[j]][j] = b}
      after == [x \in Nodes |-> [i \in Levels |->
                  IF i \in linked /\ x = update[i] THEN forward[b][i] ELSE forward[x][i]]]
      used == {i \in 1..level : after[HEAD][i] # NULL}
  IN /\ Reaches(forward[update[0]][0], b)
     /\ forward' = after
     /\ level' = IF used = {} THEN 0 ELSE CHOOSE i \in used : \A j \in used : j <= i

-----------------------------------------------------------------------------
(* sbrk clears the blocks it yields, and all of them start out in use.     *)
Init ==
  /\ size \in [Blocks -> Capacities]
  /\ forward = [x \in Nodes |-> [i \in Levels |-> NULL]]
  /\ level = 0
  /\ inuse = Blocks
  /\ answer = <<>>

(* klmalloc for a big request: the block found, if any, leaves the list.   *)
Reuse(n) ==
  LET b == klmalloc_skip_list_findbest(n)
  IN /\ answer' = <<n, b>>
     /\ IF b = NULL THEN UNCHANGED <<forward, level, inuse>>
        ELSE klmalloc_skip_list_delete(b) /\ inuse' = inuse \cup {b}
     /\ UNCHANGED size

(* klfree of a big block.                                                  *)
Free(b) ==
  /\ b \in inuse
  /\ klmalloc_skip_list_insert(b)
  /\ inuse' = inuse \ {b}
  /\ answer' = <<>>
  /\ UNCHANGED size

Next == (\E n \in Requests : Reuse(n)) \/ (\E b \in Blocks : Free(b))

Spec == Init /\ [][Next]_vars

-----------------------------------------------------------------------------
(* Properties.                                                             *)

(* The blocks on level i, as found by following forward from the head.     *)
OnLevel(i) ==
  LET after[x \in Nodes \cup {NULL}] ==
        IF x = NULL THEN {} ELSE {x} \cup after[forward[x][i]]
  IN after[HEAD] \ {HEAD}

TypeOK ==
  /\ size \in [Blocks -> Capacities]
  /\ forward \in [Nodes -> [Levels -> Blocks \cup {NULL}]]
  /\ level \in Levels
  /\ inuse \subseteq Blocks
  /\ answer \in {<<>>} \cup Requests \X (Blocks \cup {NULL})

(* Level 0 links exactly the blocks that klfree returned and klmalloc has  *)
(* not taken since.  Every level is sorted and thins out the one below it, *)
(* so the descent may skip what it skips.  Searches start at level: it is  *)
(* in use itself, and nothing is linked above it, where a later insertion  *)
(* would splice in what earlier ones left.                                 *)
Layered ==
  /\ TypeOK
  /\ OnLevel(0) = Blocks \ inuse
  /\ \A i \in Levels : \A x \in OnLevel(i) :
       forward[x][i] # NULL => size[x] <= size[forward[x][i]]
  /\ \A i \in 1..SKIP_MAX_LEVEL : OnLevel(i) \subseteq OnLevel(i - 1)
  /\ \A i \in Levels : i > level => forward[HEAD][i] = NULL
  /\ level > 0 => forward[HEAD][level] # NULL

(* klmalloc only ever deletes the block findbest returned; the unbounded   *)
(* search on level 0 then stops at once, for every request.                *)
DeleteFindsItsBlock ==
  \A n \in Requests :
    LET b == klmalloc_skip_list_findbest(n)
    IN b # NULL => forward[Before(size[b])[0]][0] = b

(* The skip list implements the pool that the heap is specified with:      *)
(* every request gets a best fit among the blocks freed and not taken      *)
(* since, and NULL only if none of them is large enough.                   *)
Pool == INSTANCE BestFitPool WITH pool <- OnLevel(0)
BestFitKept == Pool!Spec
=============================================================================
