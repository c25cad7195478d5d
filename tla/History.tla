------------------------------- MODULE History -------------------------------
(***************************************************************************)
(* The shell's command history (link.c): a doubly linked ring through a    *)
(* head node, every node from malloc.  after, before and command are the   *)
(* fields of the heap's blocks, whether they are allocated or not.         *)
(***************************************************************************)
EXTENDS Integers, Sequences

CONSTANTS
  Blocks,      \* the blocks the heap has room for
  HeadNode,      \* the one create_head got
  Entries,     \* what a history_command may point at
  HOIS_SIZE    \* 100 in the code

ASSUME HeapAssumption == HeadNode \in Blocks
ASSUME HoisAssumption == HOIS_SIZE \in Nat /\ HOIS_SIZE > 1

VARIABLES live, after, before, command, tatol
history == <<live, after, before, command, tatol>>

HistoryInit ==
  /\ live = {HeadNode}
  /\ after = [n \in Blocks |-> HeadNode]
  /\ before = [n \in Blocks |-> HeadNode]
  /\ \E junk \in Entries : command = [n \in Blocks |-> junk]
  /\ tatol = 0

\* mutant: the head is linked to the node before its old neighbour is
MutLinkedBefore(node) == [before EXCEPT ![node] = HeadNode]

LinkedAfter(node) == [after EXCEPT ![node] = after[HeadNode], ![HeadNode] = node]
LinkedBefore(node) == [before EXCEPT ![after[HeadNode]] = node, ![node] = HeadNode]

\* deleter_end, on the links a and b: nothing if there are fewer than two nodes.
Few(a, b) == a[HeadNode] = b[HeadNode]

\* mutant: the node behind the head is dropped
MutOldest(a, b) == a[HeadNode]

Oldest(a, b) == b[HeadNode]
CutAfter(a, b) == [a EXCEPT ![b[Oldest(a, b)]] = HeadNode]
CutBefore(a, b) == [b EXCEPT ![HeadNode] = b[Oldest(a, b)]]

deleter_end(a, b, node) ==
  IF Few(a, b)
  THEN after' = a /\ before' = b /\ live' = live \cup {node}
  ELSE /\ after' = CutAfter(a, b) /\ before' = CutBefore(a, b)
       /\ live' = (live \cup {node}) \ {Oldest(a, b)}

install_head(entry) ==
  \E node \in Blocks \ live :
    /\ command' = [command EXCEPT ![node] = entry]
    /\ tatol' = tatol + 1
    /\ IF tatol' = HOIS_SIZE
       THEN deleter_end(LinkedAfter(node), LinkedBefore(node), node)
       ELSE /\ after' = LinkedAfter(node) /\ before' = LinkedBefore(node)
            /\ live' = live \cup {node}

-----------------------------------------------------------------------------
(***************************************************************************)
(* The two chains of the ring run against each other and lead only through *)
(* allocated nodes: no insertion or deletion leaves a link to a node that  *)
(* was freed, or a node one of the chains does not come by.                *)
(***************************************************************************)
RingOK ==
  \A n \in live : /\ after[n] \in live /\ before[after[n]] = n
                  /\ before[n] \in live /\ after[before[n]] = n
=============================================================================
