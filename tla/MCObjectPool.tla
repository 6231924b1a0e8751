---------------------------- MODULE MCObjectPool ----------------------------
(* ObjectPool for four threads and two objects, and the operations of TraceableList against *)
(* those on sequences.                                                                       *)
EXTENDS ObjectPool, SequencesExt

\* The list of the nodes of s, all free.
ListOf(s) ==
  LET N == Range(s)
      At(n) == CHOOSE i \in DOMAIN s : s[i] = n
  IN [head |-> IF s = <<>> THEN Null ELSE s[1],
      tail |-> IF s = <<>> THEN Null ELSE s[Len(s)],
      size |-> Len(s),
      prev |-> [n \in N |-> IF At(n) = 1 THEN Null ELSE s[At(n) - 1]],
      next |-> [n \in N |-> IF At(n) = Len(s) THEN Null ELSE s[At(n) + 1]],
      extra |-> [n \in N |-> TRUE]]

MaxLen == 5

\* Every operation of traceable_list turns the list of a sequence into the list of the
\* sequence it should be, links, ends and size included, wherever in the list it works; on an
\* empty list pop_front throws and pop_back reads through nullptr.
ListIsSequence ==
  borrows = 0 /\ free_list = <<>> =>
    \A k \in 0 .. MaxLen :
      LET s == [i \in 1 .. k |-> k + 1 - i]
          L == ListOf(s)
          Place(i) == IF i > k THEN Null ELSE s[i]
      IN /\ \A i \in 1 .. k + 1 : EmplaceOne(L, Place(i), k + 1, TRUE) = ListOf(InsertAt(s, i, k + 1))
         /\ PushFront(L, k + 1, TRUE) = ListOf(<<k + 1>> \o s)
         /\ PushBack(L, k + 1, TRUE) = ListOf(Append(s, k + 1))
         /\ \A i \in 1 .. k : PopOne(L, s[i]) = [end |-> "ok", list |-> ListOf(RemoveAt(s, i))]
         /\ PopOne(L, Null).end = "threw"
         /\ PopFront(L) = IF k = 0 THEN [end |-> "threw", list |-> L] ELSE [end |-> "ok", list |-> ListOf(Tail(s))]
         /\ PopBack(L) = IF k = 0 THEN [end |-> "crashed", list |-> L] ELSE [end |-> "ok", list |-> ListOf(Front(s))]
         /\ \A i \in 1 .. k + 1 : \A j \in i .. k + 1 :
              PopSome(L, Place(i), Place(j)) = ListOf(SubSeq(s, 1, i - 1) \o SubSeq(s, j, k))
         /\ Deleted(L) = Range(s)
=============================================================================
