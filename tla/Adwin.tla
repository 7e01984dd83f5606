------------------------------- MODULE Adwin -------------------------------
(***************************************************************************)
(* The ADWIN change detector of afl-fuzz-one.c (262-406) as operators on   *)
(* one adwin_t, so that a bandit can keep one per arm.                     *)
(*                                                                         *)
(* An adwin_t is a record: nodes[1] is adwin->head and nodes[Len(nodes)]   *)
(* adwin->tail; nodes[j] is node->sum[0 .. size - 1], the bucket sums of   *)
(* that node, oldest first.  W, sum, last (last_node_idx) and numAdd are   *)
(* the counters of the same names.  adwin_should_drop compares doubles     *)
(* built from log and sqrt; its outcome is a nondeterministic choice at    *)
(* every window the scan tests, so the drop loop has a set of outcomes.    *)
(***************************************************************************)
EXTENDS Integers, Sequences, SequencesExt

CONSTANTS
  AdwinM,              \* ADWIN_M: windows a node keeps before folding
  MinElemToStartDrop,  \* ADWIN_MIN_ELEM_TO_START_DROP
  MinElemToCheck,      \* ADWIN_MIN_ELEM_TO_CHECK
  DropInterval,        \* ADWIN_DROP_INTERVAL
  AdaptiveResetting    \* ADWIN_ADAPTIVE_RESETTING is defined

ASSUME /\ AdwinM >= 1 /\ MinElemToCheck >= 1 /\ DropInterval >= 1
       /\ AdaptiveResetting \in BOOLEAN

\* init_adwin on the zeroed adwin_t of an arm: one empty head node.
AdwinInit == [nodes |-> << <<>> >>, W |-> 0, sum |-> 0, last |-> 0, numAdd |-> 0]

RemoveFrontWindows(node, num) == SubSeq(node, num + 1, Len(node))

\* (A variant that puts the new window at the front of the node.)
AddHeadWindow(node, s) == <<s>> \o node

AddTailWindow(node, s) == Append(node, s)

AddTailNode(a) == [a EXCEPT !.last = @ + 1, !.nodes = Append(@, <<>>)]

\* Take the oldest window off the tail node, and the tail node off the
\* list when that empties it and it is not the head.
ExpireLastWindow(a) ==
  LET t  == Len(a.nodes)
      a1 == [a EXCEPT !.W = @ - 2^a.last, !.sum = @ - a.nodes[t][1],
                      !.nodes[t] = RemoveFrontWindows(@, 1)]
  IN IF a1.nodes[t] = <<>> /\ t # 1
     THEN [a1 EXCEPT !.nodes = Front(@), !.last = @ - 1]
     ELSE a1

\* adwin_normlize_buckets from node k on: a node with more than ADWIN_M
\* windows folds its two oldest into one window of the next node.
RECURSIVE NormalizeFrom(_, _)
NormalizeFrom(a, k) ==
  IF k > Len(a.nodes) \/ Len(a.nodes[k]) <= AdwinM THEN a
  ELSE LET b == IF k = Len(a.nodes) THEN AddTailNode(a) ELSE a
           s == b.nodes[k][1] + b.nodes[k][2]
       IN NormalizeFrom([b EXCEPT !.nodes[k + 1] = AddTailWindow(@, s),
                                  !.nodes[k] = RemoveFrontWindows(@, 2)], k + 1)

NormalizeBuckets(a) == NormalizeFrom(a, 1)

(***************************************************************************)
(* The scan of adwin_drop_last_till_identical walks the windows from the   *)
(* tail node to the head, the exponent starting at last_node_idx and going *)
(* down by one per node.  Scan(a)[i] is <<1 << exp, node->sum[k]>> of the *)
(* i-th window it visits; N0(a, i) is n0 after that window, and n1 is      *)
(* W - n0.  should_drop is asked at the windows where both sides hold      *)
(* ADWIN_MIN_ELEM_TO_CHECK elements (n1 only falls, so the goto on a short *)
(* n1 ends the scan before any later window).                              *)
(***************************************************************************)
NodeExp(a, j) == a.last - (Len(a.nodes) - j)

Scan(a) ==
  FlattenSeq([i \in 1 .. Len(a.nodes) |->
                LET j == Len(a.nodes) + 1 - i
                IN  [k \in 1 .. Len(a.nodes[j]) |-> <<2^NodeExp(a, j), a.nodes[j][k]>>]])

N0(a, i) == FoldLeft(LAMBDA acc, w : acc + w[1], 0, SubSeq(Scan(a), 1, i))

\* (A variant that asks should_drop without the n1 test.)
CheckPointsAnyN1(a) ==
  { i \in 1 .. Len(Scan(a)) : N0(a, i) >= MinElemToCheck }

CheckPoints(a) ==
  { i \in 1 .. Len(Scan(a)) : N0(a, i) >= MinElemToCheck /\ a.W - N0(a, i) >= MinElemToCheck }

(***************************************************************************)
(* The while (1) loop: a pass in which should_drop never holds ends it.    *)
(* Otherwise the oldest window expires and the loop scans again; with      *)
(* ADWIN_ADAPTIVE_RESETTING the whole adwin is re-initialised instead and, *)
(* dropped staying false, the loop ends.                                   *)
(***************************************************************************)
RECURSIVE DropOutcomes(_)
DropOutcomes(a) ==
  {a} \cup (IF CheckPoints(a) = {} THEN {}
            ELSE IF AdaptiveResetting THEN {AdwinInit}
            ELSE DropOutcomes(ExpireLastWindow(a)))

DropLastTillIdentical(a) ==
  IF a.W < MinElemToStartDrop THEN {a} ELSE DropOutcomes(a)

\* adwin_add_elem(adwin, reward): the adwin_t values it can leave.
AddElem(a, r) ==
  LET b == NormalizeBuckets([a EXCEPT !.W = @ + 1, !.sum = @ + r,
                                      !.nodes[1] = AddTailWindow(@, r)])
      c == [b EXCEPT !.numAdd = @ + 1]
  IN  IF DropInterval = 1 THEN DropLastTillIdentical(b)
      ELSE IF c.numAdd # DropInterval THEN {c}
      ELSE DropLastTillIdentical([c EXCEPT !.numAdd = 0])

(***************************************************************************)
(* For the properties: the windows in scan order (oldest first) summarise  *)
(* the samples s, oldest first, when window i holds exactly the            *)
(* 1 << exp samples after the ones before it and its sum is theirs.        *)
(***************************************************************************)
SumOf(s) == FoldLeft(+, 0, s)

Summarises(a, s) ==
  LET sc == Scan(a)
  IN  /\ (IF sc = <<>> THEN 0 ELSE N0(a, Len(sc))) = Len(s)
      /\ \A i \in 1 .. Len(sc) :
           LET lo == N0(a, i) - sc[i][1]
           IN  /\ N0(a, i) <= Len(s)
               /\ sc[i][2] = SumOf(SubSeq(s, lo + 1, N0(a, i)))
=============================================================================
