--------------------------- MODULE TraceableList ---------------------------
(***************************************************************************)
(* rlib::impl::traceable_list: a doubly linked list whose nodes also hold  *)
(* a flag.  A list is the record of its fields and of the fields of its    *)
(* nodes; a node is a number, Null is nullptr and the place of end().  An  *)
(* operation returns the list and how it ended: "ok", "threw" or "crashed" *)
(* (a member of nullptr was read).                                         *)
(***************************************************************************)
EXTENDS Integers, Sequences

Null == 0

EmptyList == [head |-> Null, tail |-> Null, size |-> 0, prev |-> <<>>, next |-> <<>>, extra |-> <<>>]

\* node(prev, next, extra_info): n joins the functions of the nodes.
With(f, n, v) == [m \in DOMAIN f \cup {n} |-> IF m = n THEN v ELSE f[m]]
Without(f, n) == [m \in DOMAIN f \ {n} |-> f[m]]

\* p->field = v, when there is a p.
Set(f, p, v) == IF p = Null THEN f ELSE [f EXCEPT ![p] = v]

\* iterator(T *), and get_extra_info() = x: the node is found from the address of its data.
Mark(L, n, x) == [L EXCEPT !.extra[n] = x]

\* ++iter
Succ(L, n) == L.next[n]

\* Variant: the head is not moved to a node that is put before it.
EmplaceOneKeepsHead(L, where, n, x) ==
  LET new == [L EXCEPT !.size = @ + 1, !.prev = With(@, n, Null), !.next = With(@, n, where), !.extra = With(@, n, x)]
      left == L.prev[where]
  IN IF L.head = Null THEN [new EXCEPT !.head = n, !.tail = n]
     ELSE IF where = Null THEN [new EXCEPT !.next[L.tail] = n, !.prev[n] = L.tail, !.tail = n]
     ELSE [new EXCEPT !.prev = [@ EXCEPT ![n] = left, ![where] = n], !.next = Set(@, left, n)]

\* emplace_one(where, extra_info): the new node n goes before where, or to the end.
EmplaceOne(L, where, n, x) ==
  LET new == [L EXCEPT !.size = @ + 1, !.prev = With(@, n, Null), !.next = With(@, n, where), !.extra = With(@, n, x)]
      left == L.prev[where]
  IN IF L.head = Null THEN [new EXCEPT !.head = n, !.tail = n]
     ELSE IF where = Null THEN [new EXCEPT !.next[L.tail] = n, !.prev[n] = L.tail, !.tail = n]
     ELSE [new EXCEPT !.prev = [@ EXCEPT ![n] = left, ![where] = n], !.next = Set(@, left, n),
                      !.head = IF L.head = where THEN n ELSE @]

\* push_front and push_back: before begin(), and at end().
PushFront(L, n, x) == EmplaceOne(L, L.head, n, x)
PushBack(L, n, x) == EmplaceOne(L, Null, n, x)

\* pop_one(which)
PopOne(L, which) ==
  LET left == L.prev[which]
      right == L.next[which]
  IN IF L.head = Null \/ which = Null THEN [end |-> "threw", list |-> L]
     ELSE [end |-> "ok",
           list |-> [L EXCEPT !.next = Without(Set(@, left, right), which),
                              !.prev = Without(Set(@, right, left), which),
                              !.extra = Without(@, which),
                              !.head = IF @ = which THEN right ELSE @,
                              !.tail = IF @ = which THEN left ELSE @,
                              !.size = @ - 1]]

PopFront(L) == PopOne(L, L.head)

\* --end(): the tail that end() recorded, or a member of nullptr.
PopBack(L) == IF L.tail = Null THEN [end |-> "crashed", list |-> L] ELSE PopOne(L, L.tail)

\* pop_some(from, to): the iterator moves on before its node is deleted.  k bounds the loop.
PopSome(L, from, to) ==
  LET loop[k \in 0 .. L.size] ==
        IF k = 0 THEN [list |-> L, iter |-> from]
        ELSE LET s == loop[k - 1]
             IN IF s.iter = to \/ s.iter = Null THEN s
                ELSE [list |-> PopOne(s.list, s.iter).list, iter |-> Succ(s.list, s.iter)]
  IN loop[L.size].list

\* ~traceable_list: the nodes it deletes, from begin() to end().
Deleted(L) ==
  LET at[k \in 0 .. L.size] == IF k = 0 THEN L.head ELSE IF at[k - 1] = Null THEN Null ELSE Succ(L, at[k - 1])
  IN {at[k] : k \in 0 .. L.size} \ {Null}
=============================================================================
