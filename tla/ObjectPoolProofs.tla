--------------------------- MODULE ObjectPoolProofs ---------------------------
(***************************************************************************)
(* Theorems about ObjectPool for every number of threads and objects.      *)
(***************************************************************************)
EXTENDS ObjectPool, WellFoundedInduction, TLAPS

\* The lists of n nodes, as far as the pool relies on them.
Lists(n) ==
  [head : Nat, tail : Nat, size : {n}, prev : [1 .. n -> Nat], next : [1 .. n -> Nat],
   extra : [1 .. n -> BOOLEAN]]

BufferOK == buffer.size \in 0 .. max_size /\ buffer \in Lists(buffer.size)

StateOK ==
  /\ free_list \in Seq(Created)
  /\ pc \in [Thread -> {"idle", "second", "asleep", "woken", "holding", "notify", "threw"}]
  /\ hold \in [Thread -> Created \cup {Null}]
  /\ cter \in 0 .. max_size

\* fill_full runs alone, on a pool that nobody has borrowed from.
FillAlone ==
  cter < max_size => buffer.size = cter /\ ~ new_obj_ready /\ \A t \in Thread : pc[t] = "idle"

IInv == BufferOK /\ StateOK /\ FillAlone /\ PoolSound

Elems(s) == {s[i] : i \in DOMAIN s}
Distinct(s) == \A i, j \in DOMAIN s : s[i] = s[j] => i = j

USE PoolAssumption
-----------------------------------------------------------------------------
\* pop_front, push_front and push_back of the free list.
LEMMA TailElems ==
  ASSUME NEW S, NEW s \in Seq(S), s # <<>>, Distinct(s)
  PROVE  /\ Tail(s) \in Seq(S) /\ Head(s) \in S /\ Distinct(Tail(s))
         /\ Head(s) \in Elems(s) /\ Elems(Tail(s)) = Elems(s) \ {Head(s)}
<1> DEFINE t == Tail(s)
<1>1. /\ t \in Seq(S) /\ DOMAIN t = 1 .. Len(s) - 1 /\ DOMAIN s = 1 .. Len(s) /\ Len(s) \in Nat \ {0}
      /\ Head(s) = s[1] /\ Head(s) \in S
      /\ \A i \in DOMAIN t : t[i] = s[i + 1]
  OBVIOUS
<1> HIDE DEF t
<1>2. /\ \A i \in DOMAIN s : i = 1 \/ (i - 1 \in DOMAIN t /\ (i - 1) + 1 = i)
      /\ \A i \in DOMAIN t : i + 1 \in DOMAIN s /\ i + 1 # 1 /\ i \in Int
      /\ 1 \in DOMAIN s
  BY <1>1
<1>3. Distinct(t)
  <2> SUFFICES ASSUME NEW i \in DOMAIN t, NEW j \in DOMAIN t, t[i] = t[j] PROVE i = j
    BY DEF Distinct
  <2>1. i + 1 = j + 1
    BY <1>1, <1>2 DEF Distinct
  <2> QED
    BY <1>2, <2>1
<1>4. ASSUME NEW y \in Elems(t) PROVE y \in Elems(s) \ {Head(s)}
  <2>1. PICK i \in DOMAIN t : y = t[i]
    BY DEF Elems
  <2>2. y = s[i + 1] /\ i + 1 \in DOMAIN s /\ i + 1 # 1
    BY <1>1, <1>2, <2>1
  <2> QED
    BY <1>1, <1>2, <2>2 DEF Elems, Distinct
<1>5. ASSUME NEW y \in Elems(s), y # Head(s) PROVE y \in Elems(t)
  <2>1. PICK i \in DOMAIN s : y = s[i]
    BY DEF Elems
  <2>2. i - 1 \in DOMAIN t /\ (i - 1) + 1 = i
    BY <1>1, <1>2, <1>5, <2>1
  <2>3. t[i - 1] = y
    BY <1>1, <2>1, <2>2
  <2> QED
    BY <2>2, <2>3 DEF Elems
<1>6. Head(s) \in Elems(s)
  BY <1>1, <1>2 DEF Elems
<1> QED
  BY <1>1, <1>3, <1>4, <1>5, <1>6 DEF t

LEMMA ConsElems ==
  ASSUME NEW S, NEW s \in Seq(S), NEW x \in S, Distinct(s), x \notin Elems(s)
  PROVE  /\ <<x>> \o s \in Seq(S) /\ <<x>> \o s # <<>> /\ Distinct(<<x>> \o s)
         /\ Elems(<<x>> \o s) = Elems(s) \cup {x}
<1> DEFINE t == <<x>> \o s
<1>1. /\ t \in Seq(S) /\ t # <<>> /\ DOMAIN t = 1 .. Len(s) + 1 /\ DOMAIN s = 1 .. Len(s) /\ Len(s) \in Nat
      /\ t[1] = x
      /\ \A i \in DOMAIN s : t[i + 1] = s[i]
  OBVIOUS
<1> HIDE DEF t
<1>2. /\ \A i \in DOMAIN t : i = 1 \/ (i - 1 \in DOMAIN s /\ (i - 1) + 1 = i)
      /\ \A i \in DOMAIN s : i + 1 \in DOMAIN t
      /\ 1 \in DOMAIN t
  BY <1>1
<1>3. \A i \in DOMAIN t : i = 1 \/ (i - 1 \in DOMAIN s /\ t[i] = s[i - 1])
  BY <1>1, <1>2
<1>4. Elems(t) = Elems(s) \cup {x}
  <2>1. \A y \in Elems(t) : y \in Elems(s) \cup {x}
    BY <1>1, <1>3 DEF Elems
  <2>2. \A y \in Elems(s) : y \in Elems(t)
    BY <1>1, <1>2 DEF Elems
  <2>3. x \in Elems(t)
    BY <1>1, <1>2 DEF Elems
  <2> QED
    BY <2>1, <2>2, <2>3
<1>5. Distinct(t)
  <2> SUFFICES ASSUME NEW i \in DOMAIN t, NEW j \in DOMAIN t, t[i] = t[j] PROVE i = j
    BY DEF Distinct
  <2>1. CASE i = 1 \/ j = 1
    BY <1>1, <1>3, <2>1 DEF Elems
  <2>2. CASE i # 1 /\ j # 1
    <3>1. i - 1 = j - 1
      BY <1>3, <2>2 DEF Distinct
    <3> QED
      BY <1>1, <3>1
  <2> QED
    BY <2>1, <2>2
<1> QED
  BY <1>1, <1>4, <1>5 DEF t

LEMMA AppendElems ==
  ASSUME NEW S, NEW s \in Seq(S), NEW x \in S, Distinct(s), x \notin Elems(s)
  PROVE  /\ Append(s, x) \in Seq(S) /\ Append(s, x) # <<>> /\ Distinct(Append(s, x))
         /\ Elems(Append(s, x)) = Elems(s) \cup {x}
<1> DEFINE t == Append(s, x)
<1>1. /\ t \in Seq(S) /\ t # <<>> /\ DOMAIN t = 1 .. Len(s) + 1 /\ DOMAIN s = 1 .. Len(s) /\ Len(s) \in Nat
      /\ t[Len(s) + 1] = x
      /\ \A i \in DOMAIN s : t[i] = s[i]
  OBVIOUS
<1> HIDE DEF t
<1>2. DOMAIN t = DOMAIN s \cup {Len(s) + 1}
  BY <1>1
<1>3. Elems(t) = Elems(s) \cup {x}
  BY <1>1, <1>2 DEF Elems
<1>4. Distinct(t)
  BY <1>1, <1>2 DEF Distinct, Elems
<1> QED
  BY <1>1, <1>3, <1>4 DEF t

LEMMA ListIntro ==
  ASSUME NEW n \in Nat, NEW h \in Nat, NEW t \in Nat, NEW p \in [1 .. n -> Nat], NEW q \in [1 .. n -> Nat],
         NEW e \in [1 .. n -> BOOLEAN]
  PROVE  [head |-> h, tail |-> t, size |-> n, prev |-> p, next |-> q, extra |-> e] \in Lists(n)
  BY DEF Lists

\* new_obj_to_buffer: emplace_one at the end adds one node, whose flag is set.
LEMMA NewObjList ==
  ASSUME NEW n \in Nat, NEW b \in Lists(n)
  PROVE  /\ NewObj(b) \in Lists(n + 1) /\ NewObj(b).tail = n + 1 /\ NewObj(b).size = n + 1
         /\ NewObj(b).extra[n + 1] = TRUE
         /\ \A o \in 1 .. n : NewObj(b).extra[o] = b.extra[o]
<1> DEFINE k == n + 1
<1>1. /\ b.size = n /\ b.head \in Nat /\ b.tail \in Nat /\ k \in Nat
      /\ b.prev \in [1 .. n -> Nat] /\ b.next \in [1 .. n -> Nat] /\ b.extra \in [1 .. n -> BOOLEAN]
      /\ (1 .. n) \cup {k} = 1 .. k /\ k \notin 1 .. n
  BY DEF Lists
<1>2. /\ With(b.prev, k, Null) \in [1 .. k -> Nat] /\ With(b.next, k, Null) \in [1 .. k -> Nat]
      /\ With(b.extra, k, TRUE) \in [1 .. k -> BOOLEAN] /\ With(b.extra, k, TRUE)[k] = TRUE
      /\ \A o \in 1 .. n : With(b.extra, k, TRUE)[o] = b.extra[o]
  BY <1>1 DEF With, Null
<1> DEFINE new == [b EXCEPT !.size = @ + 1, !.prev = With(@, k, Null), !.next = With(@, k, Null), !.extra = With(@, k, TRUE)]
<1>3. /\ new = [head |-> b.head, tail |-> b.tail, size |-> k, prev |-> With(b.prev, k, Null),
                next |-> With(b.next, k, Null), extra |-> With(b.extra, k, TRUE)]
  <2>1. b = [head |-> b.head, tail |-> b.tail, size |-> n, prev |-> b.prev, next |-> b.next, extra |-> b.extra]
    BY DEF Lists
  <2> DEFINE P == With(b.prev, k, Null)
             N == With(b.next, k, Null)
             E == With(b.extra, k, TRUE)
  <2>2. new = [b EXCEPT !.size = k, !.prev = P, !.next = N, !.extra = E]
    BY <1>1
  <2> HIDE DEF P, N, E, new
  <2>3. new = [head |-> b.head, tail |-> b.tail, size |-> k, prev |-> P, next |-> N, extra |-> E]
    BY <2>1, <2>2
  <2> QED
    BY <2>3 DEF P, N, E
<1> HIDE DEF k
<1>4. NewObj(b) = IF b.head = Null THEN [new EXCEPT !.head = k, !.tail = k]
                  ELSE [new EXCEPT !.next[b.tail] = k, !.prev[k] = b.tail, !.tail = k]
  BY <1>1 DEF NewObj, PushBack, EmplaceOne, k
<1> HIDE DEF new
<1>5. CASE b.head = Null
  <2>1. NewObj(b) = [head |-> k, tail |-> k, size |-> k, prev |-> With(b.prev, k, Null),
                     next |-> With(b.next, k, Null), extra |-> With(b.extra, k, TRUE)]
    BY <1>3, <1>4, <1>5
  <2>3. NewObj(b) \in Lists(k)
    <3> DEFINE P == With(b.prev, k, Null)
               N == With(b.next, k, Null)
               E == With(b.extra, k, TRUE)
    <3>1. k \in Nat /\ P \in [1 .. k -> Nat] /\ N \in [1 .. k -> Nat] /\ E \in [1 .. k -> BOOLEAN]
      BY <1>1, <1>2
    <3> HIDE DEF P, N, E
    <3>2. [head |-> k, tail |-> k, size |-> k, prev |-> P, next |-> N, extra |-> E] \in Lists(k)
      BY <3>1, ListIntro
    <3> QED
      BY <2>1, <3>2 DEF P, N, E
  <2>4. NewObj(b).tail = k /\ NewObj(b).size = k /\ NewObj(b).extra = With(b.extra, k, TRUE)
    BY <2>1
  <2> QED
    BY <1>2, <2>3, <2>4 DEF k
<1>6. CASE b.head # Null
  <2>1. NewObj(b) = [head |-> b.head, tail |-> k, size |-> k, prev |-> [With(b.prev, k, Null) EXCEPT ![k] = b.tail],
                     next |-> [With(b.next, k, Null) EXCEPT ![b.tail] = k], extra |-> With(b.extra, k, TRUE)]
    BY <1>3, <1>4, <1>6
  <2>2. /\ [With(b.prev, k, Null) EXCEPT ![k] = b.tail] \in [1 .. k -> Nat]
        /\ [With(b.next, k, Null) EXCEPT ![b.tail] = k] \in [1 .. k -> Nat]
    BY <1>1, <1>2
  <2>3. NewObj(b) \in Lists(k)
    <3> DEFINE P == [With(b.prev, k, Null) EXCEPT ![k] = b.tail]
               N == [With(b.next, k, Null) EXCEPT ![b.tail] = k]
               E == With(b.extra, k, TRUE)
    <3>1. k \in Nat /\ b.head \in Nat /\ P \in [1 .. k -> Nat] /\ N \in [1 .. k -> Nat] /\ E \in [1 .. k -> BOOLEAN]
      BY <1>1, <1>2, <2>2
    <3> HIDE DEF P, N, E
    <3>2. [head |-> b.head, tail |-> k, size |-> k, prev |-> P, next |-> N, extra |-> E] \in Lists(k)
      BY <3>1, ListIntro
    <3> QED
      BY <2>1, <3>2 DEF P, N, E
  <2>4. NewObj(b).tail = k /\ NewObj(b).size = k /\ NewObj(b).extra = With(b.extra, k, TRUE)
    BY <2>1
  <2> QED
    BY <1>2, <2>3, <2>4 DEF k
<1> QED
  BY <1>5, <1>6

\* get_extra_info() = false of a borrower, and = true of release_one.
Taken(b, o) == Mark(b, o, FALSE)
Returned(b, o) == Mark(b, o, TRUE)

LEMMA MarkList ==
  ASSUME NEW n \in Nat, NEW b \in Lists(n), NEW o \in 1 .. n
  PROVE  /\ Taken(b, o) \in Lists(n) /\ Taken(b, o).size = n
         /\ ~ Taken(b, o).extra[o]
         /\ \A y \in 1 .. n : y # o => (Taken(b, o).extra[y] <=> b.extra[y])
         /\ Returned(b, o) \in Lists(n) /\ Returned(b, o).size = n
         /\ Returned(b, o).extra[o]
         /\ \A y \in 1 .. n : y # o => (Returned(b, o).extra[y] <=> b.extra[y])
<1>1. /\ Taken(b, o) \in Lists(n) /\ Taken(b, o).size = n
      /\ ~ Taken(b, o).extra[o]
      /\ \A y \in 1 .. n : y # o => (Taken(b, o).extra[y] <=> b.extra[y])
  BY DEF Taken, Mark, Lists
<1>2. /\ Returned(b, o) \in Lists(n) /\ Returned(b, o).size = n
      /\ Returned(b, o).extra[o]
      /\ \A y \in 1 .. n : y # o => (Returned(b, o).extra[y] <=> b.extra[y])
  BY DEF Returned, Mark, Lists
<1> QED
  BY <1>1, <1>2
-----------------------------------------------------------------------------
LEMMA Facts ==
  ASSUME IInv
  PROVE  /\ buffer.size \in Nat /\ buffer.size <= max_size /\ buffer \in Lists(buffer.size)
         /\ free_list \in Seq(Created) /\ Distinct(free_list) /\ Free = Elems(free_list) /\ Free' = Elems(free_list')
         /\ Free \subseteq Created /\ Lent \subseteq Created /\ Null \notin Created
         /\ Free \cap Lent = {} /\ Free \cup Lent = Created
         /\ \A o \in Created : buffer.extra[o] <=> o \in Free
<1>1. buffer.size \in Nat /\ buffer.size <= max_size /\ buffer \in Lists(buffer.size)
  BY DEF IInv, BufferOK
<1>2. Distinct(free_list) /\ Free = Elems(free_list) /\ Free' = Elems(free_list')
  BY DEF IInv, PoolSound, Free, Elems, Distinct
<1>3. free_list \in Seq(Created) /\ Free \cap Lent = {} /\ Free \cup Lent = Created
  BY DEF IInv, StateOK, PoolSound
<1>4. Null \notin Created
  BY DEF Created, Null
<1>5. \A o \in Created : buffer.extra[o] <=> o \in Free
  BY DEF IInv, PoolSound
<1> QED
  BY <1>1, <1>2, <1>3, <1>4, <1>5

\* What the thread that borrows does to the objects: o, which nobody had, is made or taken
\* from the free list.
LEMMA BorrowEffect ==
  ASSUME IInv, NEW t \in Thread, DoTryBorrow(t)
  PROVE  \E o \in Created' :
           /\ hold' = [hold EXCEPT ![t] = o] /\ o \notin Lent
           /\ BufferOK' /\ free_list' \in Seq(Created') /\ Distinct(free_list')
           /\ Created' = Created \cup {o} /\ Free' = Free \ {o}
           /\ \A x \in Created' : buffer'.extra[x] <=> x \in Free'
<1>0. /\ buffer.size \in Nat /\ buffer.size <= max_size /\ buffer \in Lists(buffer.size)
      /\ free_list \in Seq(Created) /\ Distinct(free_list) /\ Free = Elems(free_list) /\ Free' = Elems(free_list')
      /\ Free \subseteq Created /\ Lent \subseteq Created /\ Null \notin Created
      /\ Free \cap Lent = {} /\ Free \cup Lent = Created
      /\ \A o \in Created : buffer.extra[o] <=> o \in Free
  BY Facts
<1> DEFINE n == buffer.size
<1>a. n \in Nat /\ buffer \in Lists(n) /\ buffer.size = n /\ Created = 1 .. n
  BY <1>0 DEF Created
<1> HIDE DEF n
<1>1. CASE free_list # <<>> /\ hold' = [hold EXCEPT ![t] = Head(free_list)] /\ free_list' = Tail(free_list)
           /\ buffer' = Taken(buffer, Head(free_list))
  <2> DEFINE o == Head(free_list)
  <2>1. /\ Tail(free_list) \in Seq(Created) /\ o \in Created /\ Distinct(Tail(free_list))
        /\ o \in Free /\ Elems(Tail(free_list)) = Free \ {o}
    BY <1>0, <1>1, TailElems
  <2>2. /\ Taken(buffer, o) \in Lists(n) /\ Taken(buffer, o).size = n
        /\ ~ Taken(buffer, o).extra[o]
        /\ \A y \in 1 .. n : y # o => (Taken(buffer, o).extra[y] <=> buffer.extra[y])
    <3>1. o \in 1 .. n
      BY <1>a, <2>1
    <3> HIDE DEF o
    <3> QED
      BY ONLY <1>a, <3>1, MarkList
  <2> HIDE DEF o
  <2>4. hold' = [hold EXCEPT ![t] = o] /\ free_list' = Tail(free_list) /\ buffer' = Taken(buffer, o)
    BY <1>1 DEF o
  <2>5. Created' = Created /\ BufferOK' /\ ~ buffer'.extra[o] /\ \A y \in 1 .. n : y # o => (buffer'.extra[y] <=> buffer.extra[y])
    <3>1. buffer'.size = n /\ buffer' \in Lists(n) /\ n \in 0 .. max_size /\ ~ buffer'.extra[o] /\ \A y \in 1 .. n : y # o => (buffer'.extra[y] <=> buffer.extra[y])
      BY <1>0, <1>a, <2>2, <2>4
    <3>2. Created' = 1 .. n
      BY <3>1 DEF Created
    <3>3. BufferOK'
      BY <3>1 DEF BufferOK
    <3> QED
      BY <1>a, <3>1, <3>2, <3>3
  <2>6. \A x \in Created : buffer'.extra[x] <=> x \in Free \ {o}
    BY <1>0, <1>a, <2>1, <2>5
  <2>7. free_list' \in Seq(Created') /\ Distinct(free_list') /\ Free' = Free \ {o} /\ o \notin Lent /\ Created' = Created \cup {o}
    BY <1>0, <2>1, <2>4, <2>5
  <2> QED
    BY <2>1, <2>4, <2>5, <2>6, <2>7
<1>2. CASE free_list = <<>> /\ buffer.size < max_size /\ hold' = [hold EXCEPT ![t] = NewObj(buffer).tail]
           /\ UNCHANGED free_list /\ buffer' = Taken(NewObj(buffer), NewObj(buffer).tail)
  <2> DEFINE o == n + 1
             b == NewObj(buffer)
  <2>1. /\ b \in Lists(o) /\ b.tail = o /\ b.size = o
        /\ \A x \in 1 .. n : b.extra[x] = buffer.extra[x]
    <3> HIDE DEF b
    <3>1. b = NewObj(buffer)
      BY DEF b
    <3> QED
      BY ONLY <1>a, <3>1, NewObjList DEF o
  <2>2. o \in Nat /\ o \in 1 .. o /\ o \notin Created /\ 1 .. o = Created \cup {o} /\ o <= max_size
    BY <1>0, <1>2, <1>a
  <2> HIDE DEF b
  <2>3. /\ Taken(b, o) \in Lists(o) /\ Taken(b, o).size = o
        /\ ~ Taken(b, o).extra[o]
        /\ \A y \in 1 .. o : y # o => (Taken(b, o).extra[y] <=> b.extra[y])
    <3>1. o \in Nat /\ b \in Lists(o) /\ o \in 1 .. o
      BY <2>1, <2>2
    <3> HIDE DEF o
    <3> QED
      BY ONLY <3>1, MarkList
  <2>4. hold' = [hold EXCEPT ![t] = o] /\ free_list' = <<>> /\ buffer' = Taken(b, o)
    BY <1>2, <2>1 DEF b
  <2>6. \A x \in Created : b.extra[x] = buffer.extra[x]
    BY <1>a, <2>1
  <2> HIDE DEF o
  <2>7. Created' = 1 .. o /\ BufferOK' /\ ~ buffer'.extra[o] /\ \A y \in 1 .. o : y # o => (buffer'.extra[y] <=> b.extra[y])
    <3>1. buffer'.size = o /\ buffer' \in Lists(o) /\ o \in 0 .. max_size /\ ~ buffer'.extra[o] /\ \A y \in 1 .. o : y # o => (buffer'.extra[y] <=> b.extra[y])
      BY <2>2, <2>3, <2>4
    <3>2. Created' = 1 .. o
      BY <3>1 DEF Created
    <3>3. BufferOK'
      BY <3>1 DEF BufferOK
    <3> QED
      BY <3>1, <3>2, <3>3
  <2>8. Free = {} /\ Free' = {} /\ Distinct(free_list') /\ free_list' \in Seq(Created')
    BY <1>0, <1>2, <2>4 DEF Elems, Distinct
  <2>9. \A x \in Created' : ~ buffer'.extra[x]
    BY <1>0, <2>2, <2>6, <2>7, <2>8
  <2>10. o \in Created' /\ o \notin Lent /\ Created' = Created \cup {o} /\ Free' = Free \ {o}
    BY <1>0, <2>2, <2>7, <2>8
  <2> QED
    BY <2>4, <2>7, <2>8, <2>9, <2>10
<1> QED
  BY <1>1, <1>2 DEF DoTryBorrow, Taken

LEMMA LendStep ==
  ASSUME IInv, NEW t \in Thread, Filled, Lend(t), pc[t] \in {"idle", "second", "woken"}
  PROVE  IInv'
<1>0. /\ pc \in [Thread -> {"idle", "second", "asleep", "woken", "holding", "notify", "threw"}]
      /\ hold \in [Thread -> Created \cup {Null}] /\ cter \in 0 .. max_size /\ Null \notin Created
      /\ Free \cap Lent = {} /\ Free \cup Lent = Created
      /\ \A u \in Thread : hold[u] # Null <=> pc[u] = "holding"
      /\ \A u, v \in Thread : hold[u] = hold[v] /\ hold[u] # Null => u = v
      /\ \A u \in Thread : pc[u] # "threw"
  BY Facts DEF IInv, StateOK, PoolSound
<1>1. PICK o \in Created' :
           /\ hold' = [hold EXCEPT ![t] = o] /\ o \notin Lent
           /\ BufferOK' /\ free_list' \in Seq(Created') /\ Distinct(free_list')
           /\ Created' = Created \cup {o} /\ Free' = Free \ {o}
           /\ \A x \in Created' : buffer'.extra[x] <=> x \in Free'
  BY BorrowEffect DEF Lend
<1>2. pc' = [pc EXCEPT ![t] = "holding"] /\ ~ new_obj_ready' /\ cter' = max_size
  BY DEF Lend, Filled
<1>3. Null \notin Created' /\ hold[t] = Null
  <2>1. hold[t] = Null
    BY <1>0
  <2>2. Null \notin Created'
    BY DEF Null, Created
  <2> QED
    BY <2>1, <2>2
<1>4. Lent' = Lent \cup {o}
  BY <1>0, <1>1, <1>3 DEF Lent
<1>5. Free' \cap Lent' = {} /\ Free' \cup Lent' = Created'
  BY <1>0, <1>1, <1>4
<1>6. \A u \in Thread : (hold'[u] # Null <=> pc'[u] = "holding") /\ pc'[u] # "threw"
  BY <1>0, <1>1, <1>2, <1>3
<1>7. \A u \in Thread : hold[u] # o
  BY <1>1, <1>3 DEF Lent
<1>8. \A u, v \in Thread : hold'[u] = hold'[v] /\ hold'[u] # Null => u = v
  BY <1>0, <1>1, <1>7
<1>9. StateOK' /\ FillAlone'
  BY <1>0, <1>1, <1>2 DEF StateOK, FillAlone
<1>10. PoolSound'
  BY <1>1, <1>2, <1>5, <1>6, <1>8 DEF PoolSound, BufferOK, Distinct
<1> QED
  BY <1>1, <1>9, <1>10 DEF IInv

\* A step that changes where threads are, but no thread's hold on an object.
LEMMA MoveStep ==
  ASSUME IInv, UNCHANGED <<buffer, free_list, cter, new_obj_ready, hold>>, cter = max_size,
         pc' \in [Thread -> {"idle", "second", "asleep", "woken", "holding", "notify"}],
         \A t \in Thread : pc'[t] = "holding" <=> pc[t] = "holding"
  PROVE  IInv'
<1>1. BufferOK' /\ Created' = Created /\ Free' = Free /\ Lent' = Lent
  BY DEF IInv, BufferOK, Created, Free, Lent
<1>2. StateOK' /\ FillAlone'
  BY <1>1 DEF IInv, StateOK, FillAlone
<1>3. PoolSound'
  BY <1>1 DEF IInv, PoolSound
<1> QED
  BY <1>1, <1>2, <1>3 DEF IInv

LEMMA ReleaseStep ==
  ASSUME IInv, NEW t \in Thread, ReleaseOne(t)
  PROVE  IInv'
<1>0. /\ pc \in [Thread -> {"idle", "second", "asleep", "woken", "holding", "notify", "threw"}]
      /\ hold \in [Thread -> Created \cup {Null}] /\ cter \in 0 .. max_size
      /\ \A u \in Thread : hold[u] # Null <=> pc[u] = "holding"
      /\ \A u, v \in Thread : hold[u] = hold[v] /\ hold[u] # Null => u = v
      /\ \A u \in Thread : pc[u] # "threw"
  BY DEF IInv, StateOK, PoolSound
<1>a. /\ buffer.size \in Nat /\ buffer.size <= max_size /\ buffer \in Lists(buffer.size)
      /\ free_list \in Seq(Created) /\ Distinct(free_list) /\ Free = Elems(free_list) /\ Free' = Elems(free_list')
      /\ Free \subseteq Created /\ Lent \subseteq Created /\ Null \notin Created
      /\ Free \cap Lent = {} /\ Free \cup Lent = Created
      /\ \A o \in Created : buffer.extra[o] <=> o \in Free
  BY Facts
<1> DEFINE n == buffer.size
           o == hold[t]
<1>1. /\ pc[t] = "holding" /\ free_list' = <<o>> \o free_list /\ buffer' = Returned(buffer, o)
      /\ hold' = [hold EXCEPT ![t] = Null] /\ pc' = [pc EXCEPT ![t] = "notify"] /\ cter' = max_size
  BY DEF ReleaseOne, Filled, Returned
<1>2. n \in Nat /\ n \in 0 .. max_size /\ buffer \in Lists(n) /\ Created = 1 .. n
  BY <1>a DEF Created
<1>3. o # Null /\ o \in Created /\ o \in Lent /\ o \notin Free
  BY <1>0, <1>1, <1>a DEF Lent
<1> HIDE DEF n, o
<1>4. o \in 1 .. n
  BY <1>2, <1>3
<1>5. /\ buffer' \in Lists(n) /\ buffer'.size = n /\ buffer'.extra[o]
      /\ \A y \in 1 .. n : y # o => (buffer'.extra[y] <=> buffer.extra[y])
  BY ONLY <1>1, <1>2, <1>4, MarkList
<1>6. BufferOK' /\ Created' = Created
  BY <1>2, <1>5 DEF BufferOK, Created
<1>7. free_list' \in Seq(Created) /\ free_list' # <<>> /\ Distinct(free_list') /\ Free' = Free \cup {o}
  BY <1>1, <1>3, <1>a, ConsElems
<1>8. \A x \in Created : buffer'.extra[x] <=> x \in Free'
  BY <1>2, <1>5, <1>7, <1>a
<1>9. \A u \in Thread : u # t => hold[u] # o
  BY <1>0, <1>3 DEF o
<1>10. Lent' = Lent \ {o}
  <2>1. \A u \in Thread : hold'[u] = IF u = t THEN Null ELSE hold[u]
    BY <1>0, <1>1
  <2>2. hold[t] = o
    BY DEF o
  <2> QED
    BY <1>3, <1>9, <2>1, <2>2 DEF Lent
<1>11. Free' \cap Lent' = {} /\ Free' \cup Lent' = Created'
  BY <1>3, <1>6, <1>7, <1>10, <1>a
<1>12. /\ \A u \in Thread : (hold'[u] # Null <=> pc'[u] = "holding") /\ pc'[u] # "threw"
       /\ \A u, v \in Thread : hold'[u] = hold'[v] /\ hold'[u] # Null => u = v
  BY <1>0, <1>1
<1>13. StateOK' /\ FillAlone'
  BY <1>0, <1>1, <1>6, <1>7 DEF StateOK, FillAlone
<1>14. PoolSound'
  <2>1. buffer'.size <= max_size /\ \A x \in Created' : buffer'.extra[x] <=> x \in Free'
    BY <1>2, <1>5, <1>6, <1>8
  <2> QED
    BY <1>7, <1>11, <1>12, <2>1 DEF PoolSound, Distinct
<1> QED
  BY <1>6, <1>13, <1>14 DEF IInv

LEMMA FillStep ==
  ASSUME IInv, FillFull
  PROVE  IInv'
<1>0. /\ pc \in [Thread -> {"idle", "second", "asleep", "woken", "holding", "notify", "threw"}]
      /\ hold \in [Thread -> Created \cup {Null}] /\ cter \in 0 .. max_size
      /\ buffer.size = cter /\ ~ new_obj_ready /\ \A u \in Thread : pc[u] = "idle" /\ hold[u] = Null
  BY DEF IInv, StateOK, PoolSound, FillAlone, FillFull
<1>a. /\ buffer.size \in Nat /\ buffer.size <= max_size /\ buffer \in Lists(buffer.size)
      /\ free_list \in Seq(Created) /\ Distinct(free_list) /\ Free = Elems(free_list) /\ Free' = Elems(free_list')
      /\ Free \subseteq Created /\ Lent \subseteq Created /\ Null \notin Created
      /\ Free \cap Lent = {} /\ Free \cup Lent = Created
      /\ \A o \in Created : buffer.extra[o] <=> o \in Free
  BY Facts
<1> DEFINE n == buffer.size
           o == n + 1
<1>1. /\ cter < max_size /\ cter' = cter + 1 /\ buffer' = NewObj(buffer)
      /\ free_list' = Append(free_list, NewObj(buffer).tail) /\ UNCHANGED <<new_obj_ready, pc, hold>>
  BY DEF FillFull
<1>2. n \in Nat /\ buffer \in Lists(n) /\ Created = 1 .. n
  BY <1>a DEF Created
<1>3. /\ buffer' \in Lists(o) /\ buffer'.size = o /\ NewObj(buffer).tail = o /\ buffer'.extra[o] = TRUE
      /\ \A x \in 1 .. n : buffer'.extra[x] = buffer.extra[x]
  <2> HIDE DEF n
  <2> QED
    BY ONLY <1>1, <1>2, NewObjList DEF o
<1>4. o \in Nat /\ o \in 0 .. max_size /\ o \notin Created /\ 1 .. o = Created \cup {o} /\ cter' = o /\ cter' \in 0 .. max_size
  BY <1>0, <1>1, <1>2
<1> HIDE DEF o, n
<1>5. BufferOK' /\ Created' = Created \cup {o}
  <2>1. Created' = 1 .. o
    BY <1>3 DEF Created
  <2> QED
    BY <1>3, <1>4, <2>1 DEF BufferOK
<1>6. free_list \in Seq(Created') /\ o \in Created' /\ o \notin Elems(free_list)
  BY <1>4, <1>5, <1>a
<1>7. free_list' \in Seq(Created') /\ free_list' # <<>> /\ Distinct(free_list') /\ Free' = Free \cup {o}
  BY <1>1, <1>3, <1>6, <1>a, AppendElems
<1>8. \A x \in Created' : buffer'.extra[x] <=> x \in Free'
  BY <1>2, <1>3, <1>5, <1>7, <1>a
<1>9. Lent = {} /\ Lent' = {}
  BY <1>0, <1>1 DEF Lent
<1>10. StateOK' /\ FillAlone'
  BY <1>0, <1>1, <1>3, <1>4, <1>5, <1>7 DEF StateOK, FillAlone
<1>11. PoolSound'
  BY <1>0, <1>1, <1>3, <1>4, <1>5, <1>7, <1>8, <1>9, <1>a DEF PoolSound, Distinct
<1> QED
  BY <1>5, <1>10, <1>11 DEF IInv

LEMMA InitPool == Init => IInv
<1> SUFFICES ASSUME Init PROVE IInv
  OBVIOUS
<1>1. buffer = EmptyList /\ free_list = <<>> /\ cter \in {0, max_size} /\ ~ new_obj_ready
      /\ pc = [t \in Thread |-> "idle"] /\ hold = [t \in Thread |-> Null]
  BY DEF Init
<1>2. buffer.size = 0 /\ buffer \in Lists(0)
  <2>1. \A f : f \in [1 .. 0 -> Nat] <=> f \in [{} -> Nat]
    OBVIOUS
  <2> QED
    BY <1>1 DEF EmptyList, Lists, Null
<1>3. Created = {} /\ Free = {} /\ Lent = {}
  BY <1>1, <1>2 DEF Created, Free, Lent
<1>4. BufferOK /\ StateOK /\ FillAlone
  BY <1>1, <1>2, <1>3 DEF BufferOK, StateOK, FillAlone
<1>5. PoolSound
  BY <1>1, <1>2, <1>3 DEF PoolSound
<1> QED
  BY <1>4, <1>5 DEF IInv

LEMMA PoolStep == IInv /\ [Next]_vars => IInv'
<1> SUFFICES ASSUME IInv, [Next]_vars PROVE IInv'
  OBVIOUS
<1>0. /\ pc \in [Thread -> {"idle", "second", "asleep", "woken", "holding", "notify", "threw"}]
      /\ \A u \in Thread : pc[u] # "threw"
      /\ new_obj_ready => free_list # <<>>
  BY DEF IInv, StateOK, PoolSound
<1>1. CASE FillFull
  BY <1>1, FillStep
<1>2. ASSUME NEW t \in Thread, TryBorrowOne(t) \/ BorrowOne(t) PROVE IInv'
  <2>1. CASE Lend(t)
    BY <1>2, <2>1, LendStep DEF TryBorrowOne, BorrowOne
  <2>2. CASE Move(t, "idle", "idle") \/ Move(t, "idle", "second")
    <3>1. cter = max_size /\ UNCHANGED <<buffer, free_list, cter, new_obj_ready, hold>>
      BY <1>2, <2>2 DEF TryBorrowOne, BorrowOne, Move, Filled
    <3> QED
      BY <1>0, <2>2, <3>1, MoveStep DEF Move
  <2> QED
    BY <1>2, <2>1, <2>2 DEF TryBorrowOne, BorrowOne
<1>3. ASSUME NEW t \in Thread, Wait(t) PROVE IInv'
  <2>1. CASE Lend(t)
    BY <1>3, <2>1, LendStep DEF Wait
  <2>2. CASE Move(t, pc[t], "asleep")
    <3>1. cter = max_size /\ UNCHANGED <<buffer, free_list, cter, new_obj_ready, hold>> /\ pc[t] \in {"second", "woken"}
      BY <1>3, <2>2 DEF Wait, Move, Filled
    <3> QED
      BY <1>0, <2>2, <3>1, MoveStep DEF Move
  <2> QED
    BY <1>0, <1>3, <2>1, <2>2 DEF Wait, Starved
<1>4. ASSUME NEW t \in Thread, SpuriousWakeup(t) PROVE IInv'
  <2>1. cter = max_size /\ UNCHANGED <<buffer, free_list, cter, new_obj_ready, hold>>
    BY <1>4 DEF SpuriousWakeup, Move, Filled
  <2> QED
    BY <1>0, <1>4, <2>1, MoveStep DEF SpuriousWakeup, Move
<1>5. ASSUME NEW t \in Thread, NotifyOne(t) PROVE IInv'
  <2>1. cter = max_size /\ UNCHANGED <<buffer, free_list, cter, new_obj_ready, hold>>
    BY <1>5 DEF NotifyOne, Filled
  <2>2. /\ pc' \in [Thread -> {"idle", "second", "asleep", "woken", "holding", "notify"}]
        /\ \A u \in Thread : pc'[u] = "holding" <=> pc[u] = "holding"
    BY <1>0, <1>5 DEF NotifyOne
  <2> QED
    BY <2>1, <2>2, MoveStep
<1>6. CASE UNCHANGED vars
  <2>1. BufferOK' /\ Created' = Created /\ Free' = Free /\ Lent' = Lent
    BY <1>6 DEF IInv, BufferOK, Created, Free, Lent, vars
  <2> QED
    BY <1>6, <2>1 DEF IInv, StateOK, FillAlone, PoolSound, vars
<1> QED
  BY <1>1, <1>2, <1>3, <1>4, <1>5, <1>6, ReleaseStep DEF Next, Step

\* The pool of every size and any number of threads lends no object twice, loses none and
\* never throws out of borrow_one: PoolSound is an invariant.  Inductive with it: the types,
\* and that fill_full runs alone, with one object made for each of its rounds.
THEOREM PoolSoundCorrect == Spec => []PoolSound
<1>1. IInv => PoolSound
  BY DEF IInv
<1> QED
  BY InitPool, PoolStep, <1>1, PTL DEF Spec

-----------------------------------------------------------------------------
(* traceable_list.  L spells s when its links, ends and size are those of the nodes of s   *)
(* in this order; every operation then does to the list what its name says of a sequence.  *)

Nodes == Nat \ {Null}

\* The i-th node, or the place of end().
Place(s, i) == IF i \in 1 .. Len(s) THEN s[i] ELSE Null

Fields(h, t, z, p, q, e) == [head |-> h, tail |-> t, size |-> z, prev |-> p, next |-> q, extra |-> e]

Linked(p, q, s) ==
  /\ DOMAIN p = Elems(s) /\ DOMAIN q = Elems(s)
  /\ p = [n \in Elems(s) |-> p[n]] /\ q = [n \in Elems(s) |-> q[n]]
  /\ \A i \in 1 .. Len(s) : p[s[i]] = Place(s, i - 1) /\ q[s[i]] = Place(s, i + 1)

Spells(L, s) ==
  /\ s \in Seq(Nodes) /\ Distinct(s)
  /\ L = Fields(Place(s, 1), Place(s, Len(s)), Len(s), L.prev, L.next, L.extra)
  /\ Linked(L.prev, L.next, s) /\ DOMAIN L.extra = Elems(s)

\* A non-empty set of natural numbers has a least element.
LEMMA LeastNat ==
  ASSUME NEW T, T \subseteq Nat, T # {}
  PROVE  \E x \in T : \A y \in T : ~ (y < x)
<1>1. PICK x \in T : \A y \in T : ~ (<<y, x>> \in OpToRel(<, Nat))
  BY WFMin, NatLessThanWellFounded, Zenon
<1>2. \A y \in T : ~ (y < x)
  BY <1>1 DEF OpToRel
<1> QED
  BY <1>2

\* A set that holds 0 and with each number the next one holds every natural number.
LEMMA SetInduction ==
  ASSUME NEW P, 0 \in P, \A n \in Nat : n \in P => n + 1 \in P
  PROVE  \A n \in Nat : n \in P
<1> SUFFICES ASSUME NEW n \in Nat, n \notin P PROVE FALSE
  OBVIOUS
<1> DEFINE T == Nat \ P
<1>1. PICK x \in T : \A y \in T : ~ (y < x)
  BY LeastNat
<1>2. x \in Nat /\ x # 0 /\ x - 1 \in Nat /\ x - 1 < x
  BY <1>1
<1>3. x - 1 \in P
  BY <1>1, <1>2
<1>4. (x - 1) + 1 \in P
  BY <1>2, <1>3
<1> QED
  BY <1>2, <1>4

\* s with n before its i-th element, and s without it.
Ins(s, i, n) == [j \in 1 .. Len(s) + 1 |-> IF j < i THEN s[j] ELSE IF j = i THEN n ELSE s[j - 1]]
Del(s, i) == [j \in 1 .. Len(s) - 1 |-> IF j < i THEN s[j] ELSE s[j + 1]]

Longer(t, s, i, n) ==
  /\ t \in Seq(Nodes) /\ Len(t) = Len(s) + 1 /\ Distinct(t) /\ Elems(t) = Elems(s) \cup {n}
  /\ \A j \in 1 .. Len(s) : j < i => t[j] = s[j]
  /\ \A j \in 1 .. Len(s) : j >= i => t[j + 1] = s[j]
  /\ t[i] = n
Shorter(t, s, i) ==
  /\ t \in Seq(Nodes) /\ Len(t) = Len(s) - 1 /\ Distinct(t) /\ Elems(t) = Elems(s) \ {s[i]}
  /\ \A j \in 1 .. Len(s) : j < i => t[j] = s[j]
  /\ \A j \in 1 .. Len(s) : j > i => t[j - 1] = s[j]

LEMMA InsFacts ==
  ASSUME NEW s \in Seq(Nodes), NEW i \in 1 .. Len(s) + 1, NEW n \in Nodes, Distinct(s), n \notin Elems(s)
  PROVE  Longer(Ins(s, i, n), s, i, n)
<1> DEFINE t == Ins(s, i, n)
           m == Len(s)
<1>1. m \in Nat /\ DOMAIN s = 1 .. m /\ i \in Nat
      /\ \A j \in 1 .. m : s[j] \in Nodes
  OBVIOUS
<1>2. ASSUME NEW j \in 1 .. m + 1 PROVE t[j] \in Nodes
  <2>1. j < i => j \in 1 .. m
    BY <1>1
  <2>2. ~(j < i) /\ j # i => j - 1 \in 1 .. m
    BY <1>1
  <2> QED
    BY <1>1, <2>1, <2>2 DEF Ins
<1>3. t \in Seq(Nodes) /\ Len(t) = m + 1 /\ DOMAIN t = 1 .. m + 1
  <2>1. t = [j \in 1 .. m + 1 |-> t[j]] /\ m + 1 \in Nat
    BY <1>1 DEF Ins
  <2> HIDE DEF t, m
  <2> QED
    BY <1>2, <2>1
<1>4. /\ \A j \in 1 .. m : j < i => t[j] = s[j] /\ j \in 1 .. m + 1
      /\ \A j \in 1 .. m : j >= i => t[j + 1] = s[j] /\ j + 1 \in 1 .. m + 1
      /\ t[i] = n /\ i \in 1 .. m + 1
  BY <1>1 DEF Ins
<1>5. \A j \in 1 .. m + 1 : \/ j < i /\ j \in 1 .. m /\ t[j] = s[j]
                            \/ j = i /\ t[j] = n
                            \/ j > i /\ j - 1 \in 1 .. m /\ t[j] = s[j - 1]
  BY <1>1 DEF Ins
<1> HIDE DEF t, m
<1>6. Elems(t) = Elems(s) \cup {n}
  <2>1. ASSUME NEW y \in Elems(t) PROVE y \in Elems(s) \cup {n}
    <3>1. PICK j \in 1 .. m + 1 : y = t[j]
      BY <1>3 DEF Elems
    <3> QED
      BY <1>1, <1>5, <3>1 DEF Elems
  <2>2. ASSUME NEW y \in Elems(s) PROVE y \in Elems(t)
    <3>1. PICK j \in 1 .. m : y = s[j]
      BY <1>1 DEF Elems
    <3>2. j < i \/ j >= i
      BY <1>1
    <3> QED
      BY <1>3, <1>4, <3>1, <3>2 DEF Elems
  <2>3. n \in Elems(t)
    BY <1>3, <1>4 DEF Elems
  <2> QED
    BY <2>1, <2>2, <2>3
<1>7. Distinct(t)
  <2> SUFFICES ASSUME NEW j \in 1 .. m + 1, NEW k \in 1 .. m + 1, t[j] = t[k] PROVE j = k
    BY <1>3 DEF Distinct
  <2>1. \A a \in 1 .. m : s[a] # n
    BY <1>1 DEF Elems
  <2>2. \A a, b \in 1 .. m : s[a] = s[b] => a = b
    BY <1>1 DEF Distinct
  <2> QED
    BY <1>1, <1>5, <2>1, <2>2
<1> QED
  BY <1>3, <1>4, <1>6, <1>7 DEF t, m, Longer

LEMMA DelFacts ==
  ASSUME NEW s \in Seq(Nodes), NEW i \in 1 .. Len(s), Distinct(s)
  PROVE  Shorter(Del(s, i), s, i)
<1> DEFINE t == Del(s, i)
           m == Len(s)
<1>1. m \in Nat /\ DOMAIN s = 1 .. m /\ i \in Nat /\ i \in 1 .. m /\ m - 1 \in Nat
      /\ \A j \in 1 .. m : s[j] \in Nodes
  OBVIOUS
<1>2. ASSUME NEW j \in 1 .. m - 1 PROVE t[j] \in Nodes
  <2>1. j \in 1 .. m /\ j + 1 \in 1 .. m
    BY <1>1
  <2> QED
    BY <1>1, <2>1 DEF Del
<1>3. t \in Seq(Nodes) /\ Len(t) = m - 1 /\ DOMAIN t = 1 .. m - 1
  <2>1. t = [j \in 1 .. m - 1 |-> t[j]]
    BY <1>1 DEF Del
  <2> HIDE DEF t, m
  <2> QED
    BY <1>1, <1>2, <2>1
<1>4. /\ \A j \in 1 .. m : j < i => t[j] = s[j] /\ j \in 1 .. m - 1
      /\ \A j \in 1 .. m : j > i => t[j - 1] = s[j] /\ j - 1 \in 1 .. m - 1
  BY <1>1 DEF Del
<1>5. \A j \in 1 .. m - 1 : \/ j < i /\ j \in 1 .. m /\ t[j] = s[j]
                            \/ j >= i /\ j + 1 \in 1 .. m /\ t[j] = s[j + 1]
  BY <1>1 DEF Del
<1> HIDE DEF t, m
<1>6. \A a, b \in 1 .. m : s[a] = s[b] => a = b
  BY <1>1 DEF Distinct
<1>7. Elems(t) = Elems(s) \ {s[i]}
  <2>1. ASSUME NEW y \in Elems(t) PROVE y \in Elems(s) \ {s[i]}
    <3>1. PICK j \in 1 .. m - 1 : y = t[j]
      BY <1>3 DEF Elems
    <3>2. PICK k \in 1 .. m : y = s[k] /\ k # i
      BY <1>1, <1>5, <3>1
    <3> QED
      BY <1>1, <1>6, <3>2 DEF Elems
  <2>2. ASSUME NEW y \in Elems(s), y # s[i] PROVE y \in Elems(t)
    <3>1. PICK j \in 1 .. m : y = s[j]
      BY <1>1 DEF Elems
    <3>2. j < i \/ j > i
      BY <1>1, <2>2, <3>1
    <3> QED
      BY <1>3, <1>4, <3>1, <3>2 DEF Elems
  <2> QED
    BY <2>1, <2>2
<1>8. Distinct(t)
  <2> SUFFICES ASSUME NEW j \in 1 .. m - 1, NEW k \in 1 .. m - 1, t[j] = t[k] PROVE j = k
    BY <1>3 DEF Distinct
  <2> QED
    BY <1>1, <1>5, <1>6
<1> QED
  BY <1>3, <1>4, <1>7, <1>8 DEF t, m, Shorter

\* P and Q are the links p and q of s, but for the new node n and its two neighbours, and
\* but for the neighbours of the node that goes.
Joined(P, Q, p, q, s, i, n) ==
  /\ P = [x \in Elems(s) \cup {n} |-> P[x]] /\ Q = [x \in Elems(s) \cup {n} |-> Q[x]]
  /\ P[n] = Place(s, i - 1) /\ Q[n] = Place(s, i)
  /\ \A j \in 1 .. Len(s) : P[s[j]] = IF j = i THEN n ELSE p[s[j]]
  /\ \A j \in 1 .. Len(s) : Q[s[j]] = IF j = i - 1 THEN n ELSE q[s[j]]
Parted(P, Q, p, q, s, i) ==
  /\ P = [x \in Elems(s) \ {s[i]} |-> P[x]] /\ Q = [x \in Elems(s) \ {s[i]} |-> Q[x]]
  /\ \A j \in 1 .. Len(s) : j # i => P[s[j]] = IF j = i + 1 THEN Place(s, i - 1) ELSE p[s[j]]
  /\ \A j \in 1 .. Len(s) : j # i => Q[s[j]] = IF j = i - 1 THEN Place(s, i + 1) ELSE q[s[j]]

LEMMA InsLinked ==
  ASSUME NEW s \in Seq(Nodes), NEW i \in 1 .. Len(s) + 1, NEW n \in Nodes,
         Distinct(s), n \notin Elems(s), NEW p, NEW q, Linked(p, q, s),
         NEW P, NEW Q, Joined(P, Q, p, q, s, i, n)
  PROVE  Linked(P, Q, Ins(s, i, n))
<1> DEFINE t == Ins(s, i, n)
           m == Len(s)
<1>1. /\ t \in Seq(Nodes) /\ Len(t) = m + 1 /\ Elems(t) = Elems(s) \cup {n}
      /\ \A j \in 1 .. m : j < i => t[j] = s[j]
      /\ \A j \in 1 .. m : j >= i => t[j + 1] = s[j]
      /\ t[i] = n
  <2>1. /\ s \in Seq(Nodes) /\ i \in 1 .. Len(s) + 1 /\ n \in Nodes
        /\ Distinct(s) /\ n \notin Elems(s)
    OBVIOUS
  <2>2. Longer(Ins(s, i, n), s, i, n)
    BY ONLY <2>1, InsFacts
  <2> QED
    BY ONLY <2>2 DEF Longer
<1>J. /\ P = [x \in Elems(s) \cup {n} |-> P[x]] /\ Q = [x \in Elems(s) \cup {n} |-> Q[x]]
      /\ P[n] = Place(s, i - 1) /\ Q[n] = Place(s, i)
      /\ \A j \in 1 .. m : P[s[j]] = IF j = i THEN n ELSE p[s[j]]
      /\ \A j \in 1 .. m : Q[s[j]] = IF j = i - 1 THEN n ELSE q[s[j]]
  BY DEF Joined
<1>2. m \in Nat /\ i \in 1 .. m + 1 /\ i \in Int
  OBVIOUS
<1>3. \A j \in 1 .. m : p[s[j]] = Place(s, j - 1) /\ q[s[j]] = Place(s, j + 1)
  BY DEF Linked
<1> HIDE DEF t
<1>4. \A j \in Int : /\ j < i => Place(t, j) = Place(s, j)
                     /\ j >= i => Place(t, j + 1) = Place(s, j)
  <2> SUFFICES ASSUME NEW j \in Int PROVE /\ j < i => Place(t, j) = Place(s, j)
                                          /\ j >= i => Place(t, j + 1) = Place(s, j)
    OBVIOUS
  <2> HIDE DEF m
  <2>1. ASSUME j < i PROVE Place(t, j) = Place(s, j)
    <3>1. j \in 1 .. m + 1 <=> j \in 1 .. m
      BY <1>2, <2>1
    <3> QED
      BY <1>1, <2>1, <3>1 DEF Place, m
  <2>2. ASSUME j >= i PROVE Place(t, j + 1) = Place(s, j)
    <3>1. j + 1 \in 1 .. m + 1 <=> j \in 1 .. m
      BY <1>2, <2>2
    <3> QED
      BY <1>1, <2>2, <3>1 DEF Place, m
  <2> QED
    BY <2>1, <2>2
<1>5. Place(t, i) = n
  BY <1>1, <1>2 DEF Place
<1> HIDE DEF m
<1>6. ASSUME NEW j \in 1 .. m + 1 PROVE P[t[j]] = Place(t, j - 1) /\ Q[t[j]] = Place(t, j + 1)
  <2>1. CASE j < i
    <3>0. j \in 1 .. m /\ j # i /\ j - 1 \in Int /\ j - 1 < i
      BY ONLY <1>2, <1>6, <2>1
    <3>1. j \in 1 .. m /\ j # i /\ t[j] = s[j] /\ Place(t, j - 1) = Place(s, j - 1)
      BY ONLY <1>1, <1>4, <2>1, <3>0
    <3>2. P[s[j]] = Place(s, j - 1)
      BY <1>J, <1>3, <3>1
    <3>3. CASE j = i - 1
      <4>1. j + 1 = i
        BY ONLY <1>2, <1>6, <3>3
      <4> QED
        BY <1>J, <1>5, <3>1, <3>2, <3>3, <4>1
    <3>4. CASE j # i - 1
      <4>1. Place(t, j + 1) = Place(s, j + 1)
        BY ONLY <1>6, <1>2, <1>4, <2>1, <3>4
      <4> QED
        BY <1>J, <1>3, <3>1, <3>2, <3>4, <4>1
    <3> QED
      BY <3>3, <3>4
  <2>2. CASE j = i
    <3>1. Place(t, j - 1) = Place(s, j - 1) /\ Place(t, j + 1) = Place(s, j)
      BY <1>2, <1>4, <2>2
    <3> QED
      BY <1>1, <1>J, <2>2, <3>1
  <2>3. CASE j > i
    <3>1. PICK k \in 1 .. m : j = k + 1 /\ k >= i /\ k # i - 1
      BY ONLY <1>6, <1>2, <2>3
    <3>2. t[j] = s[k] /\ Place(t, j + 1) = Place(s, k + 1)
      <4>1. k + 1 \in Int /\ k + 1 >= i /\ (k + 1) + 1 = j + 1
        BY ONLY <1>2, <3>1
      <4> QED
        BY ONLY <1>1, <1>4, <3>1, <4>1
    <3>3. Q[s[k]] = Place(s, k + 1)
      BY <1>J, <1>3, <3>1
    <3>4. CASE k = i
      <4>1. j - 1 = i
        BY ONLY <1>2, <3>1, <3>4
      <4>2. P[s[k]] = n
        BY <1>J, <3>1, <3>4
      <4> QED
        BY ONLY <1>5, <3>2, <3>3, <4>1, <4>2, <3>1
    <3>5. CASE k # i
      <4>1. Place(t, j - 1) = Place(s, k - 1)
        <5>1. k - 1 \in Int /\ k - 1 >= i /\ (k - 1) + 1 = j - 1
          BY ONLY <1>2, <1>6, <3>1, <3>5
        <5> QED
          BY <1>4, <5>1
      <4> QED
        BY <1>J, <1>3, <3>1, <3>2, <3>3, <3>5, <4>1
    <3> QED
      BY <3>4, <3>5
  <2> QED
    BY <1>2, <2>1, <2>2, <2>3
<1>7. DOMAIN P = Elems(t) /\ DOMAIN Q = Elems(t)
  BY <1>1, <1>J
<1> QED
  BY <1>1, <1>6, <1>7, <1>J DEF Linked, t, m

\* The links of Del(s, i): those of s, but for the neighbours of the node that went.
LEMMA DelLinked ==
  ASSUME NEW s \in Seq(Nodes), NEW i \in 1 .. Len(s), Distinct(s),
         NEW p, NEW q, Linked(p, q, s), NEW P, NEW Q, Parted(P, Q, p, q, s, i)
  PROVE  Linked(P, Q, Del(s, i))
<1> DEFINE t == Del(s, i)
           m == Len(s)
<1>1. /\ t \in Seq(Nodes) /\ Len(t) = m - 1 /\ Elems(t) = Elems(s) \ {s[i]}
      /\ \A j \in 1 .. m : j < i => t[j] = s[j]
      /\ \A j \in 1 .. m : j > i => t[j - 1] = s[j]
  <2>1. s \in Seq(Nodes) /\ i \in 1 .. Len(s) /\ Distinct(s)
    OBVIOUS
  <2>2. Shorter(Del(s, i), s, i)
    BY ONLY <2>1, DelFacts
  <2> QED
    BY ONLY <2>2 DEF Shorter
<1>J. /\ P = [x \in Elems(s) \ {s[i]} |-> P[x]] /\ Q = [x \in Elems(s) \ {s[i]} |-> Q[x]]
      /\ \A j \in 1 .. m : j # i => P[s[j]] = IF j = i + 1 THEN Place(s, i - 1) ELSE p[s[j]]
      /\ \A j \in 1 .. m : j # i => Q[s[j]] = IF j = i - 1 THEN Place(s, i + 1) ELSE q[s[j]]
  BY DEF Parted
<1>2. m \in Nat /\ i \in 1 .. m /\ i \in Int
  OBVIOUS
<1>3. \A j \in 1 .. m : p[s[j]] = Place(s, j - 1) /\ q[s[j]] = Place(s, j + 1)
  BY DEF Linked
<1> HIDE DEF t
<1>4. ASSUME NEW j \in Int
      PROVE  /\ j < i => Place(t, j) = Place(s, j)
             /\ j > i => Place(t, j - 1) = Place(s, j)
  <2> HIDE DEF m
  <2>1. ASSUME j < i PROVE Place(t, j) = Place(s, j)
    <3>1. j \in 1 .. m - 1 <=> j \in 1 .. m
      BY <1>2, <2>1
    <3> QED
      BY <1>1, <2>1, <3>1 DEF Place, m
  <2>2. ASSUME j > i PROVE Place(t, j - 1) = Place(s, j)
    <3>1. j - 1 \in 1 .. m - 1 <=> j \in 1 .. m
      BY <1>2, <2>2
    <3> QED
      BY <1>1, <2>2, <3>1 DEF Place, m
  <2> QED
    BY <2>1, <2>2
<1> HIDE DEF m
<1>6. ASSUME NEW j \in 1 .. m - 1 PROVE P[t[j]] = Place(t, j - 1) /\ Q[t[j]] = Place(t, j + 1)
  <2>1. CASE j < i
    <3>1. j \in 1 .. m /\ j # i /\ j # i + 1 /\ t[j] = s[j] /\ j - 1 \in Int /\ j - 1 < i
      BY ONLY <1>6, <1>1, <1>2, <2>1
    <3>2. P[s[j]] = Place(t, j - 1)
      BY <1>J, <1>3, <1>4, <3>1
    <3>3. CASE j = i - 1
      <4>1. i + 1 \in Int /\ i + 1 > i /\ (i + 1) - 1 = j + 1
        BY ONLY <1>2, <1>6, <3>3
      <4>2. Place(t, j + 1) = Place(s, i + 1)
        BY <1>4, <4>1
      <4> QED
        BY <1>J, <3>1, <3>2, <3>3, <4>2
    <3>4. CASE j # i - 1
      <4>1. j + 1 \in Int /\ j + 1 < i
        BY ONLY <1>6, <1>2, <2>1, <3>4
      <4>2. Place(t, j + 1) = Place(s, j + 1)
        BY <1>4, <4>1
      <4> QED
        BY <1>J, <1>3, <3>1, <3>2, <3>4, <4>2
    <3> QED
      BY <3>3, <3>4
  <2>2. CASE j >= i
    <3>1. PICK k \in 1 .. m : k = j + 1 /\ k > i /\ k # i /\ k # i - 1
      BY ONLY <1>6, <1>2, <2>2
    <3>2. t[j] = s[k] /\ k + 1 \in Int /\ k + 1 > i /\ (k + 1) - 1 = j + 1
      <4>1. k - 1 = j
        BY <3>1
      <4> QED
        BY ONLY <1>1, <1>2, <1>6, <3>1, <4>1
    <3>3. Q[t[j]] = Place(t, j + 1)
      <4>1. Place(t, j + 1) = Place(s, k + 1)
        BY <1>4, <3>2
      <4> QED
        BY <1>J, <1>3, <3>1, <3>2, <4>1
    <3>4. CASE k = i + 1
      <4>1. j - 1 = i - 1 /\ i - 1 \in Int /\ i - 1 < i
        BY ONLY <1>2, <1>6, <3>1, <3>4
      <4> QED
        BY <1>J, <1>4, <3>1, <3>2, <3>3, <3>4, <4>1
    <3>5. CASE k # i + 1
      <4>1. k - 1 \in Int /\ k - 1 > i /\ (k - 1) - 1 = j - 1
        BY ONLY <1>2, <1>6, <3>1, <3>5
      <4>2. Place(t, j - 1) = Place(s, k - 1)
        BY <1>4, <4>1
      <4> QED
        BY <1>J, <1>3, <3>1, <3>2, <3>3, <3>5, <4>2
    <3> QED
      BY <3>4, <3>5
  <2> QED
    BY <1>2, <2>1, <2>2
<1>7. DOMAIN P = Elems(t) /\ DOMAIN Q = Elems(t)
  BY <1>1, <1>J
<1> QED
  BY <1>1, <1>6, <1>7, <1>J DEF Linked, t, m

\* The node is made.
Made(L, n, w, x) ==
  [L EXCEPT !.size = @ + 1, !.prev = With(@, n, Null), !.next = With(@, n, w), !.extra = With(@, n, x)]

LEMMA FieldsMade ==
  ASSUME NEW h, NEW t, NEW z, NEW p, NEW q, NEW e, NEW L, L = Fields(h, t, z, p, q, e), NEW n, NEW w, NEW x
  PROVE  Made(L, n, w, x) = Fields(h, t, z + 1, With(p, n, Null), With(q, n, w), With(e, n, x))
<1> DEFINE R == Made(L, n, w, x)
           P == With(p, n, Null)
           Q == With(q, n, w)
           E == With(e, n, x)
           Z == z + 1
<1>1. L.size = z /\ L.prev = p /\ L.next = q /\ L.extra = e
  BY DEF Fields
<1>2. R = [L EXCEPT !.size = Z, !.prev = P, !.next = Q, !.extra = E]
  BY <1>1 DEF Made
<1> HIDE DEF P, Q, E, Z, R
<1>3. R = Fields(h, t, Z, P, Q, E)
  BY <1>2 DEF Fields
<1> QED
  BY <1>3 DEF P, Q, E, Z, R

\* emplace_one(where) puts its node before where, or at the end: on a list of any length, at
\* every position, it does to the links, the ends, the size and the flags what inserting does
\* to the sequence of the nodes.
THEOREM EmplaceOneInserts ==
  ASSUME NEW L, NEW s, Spells(L, s), NEW i \in 1 .. Len(s) + 1, NEW n \in Nodes, n \notin Elems(s), NEW x
  PROVE  Spells(EmplaceOne(L, Place(s, i), n, x), Ins(s, i, n))
         /\ EmplaceOne(L, Place(s, i), n, x).extra = With(L.extra, n, x)
<1> DEFINE m == Len(s)
           p == L.prev
           q == L.next
           e == L.extra
           w == Place(s, i)
           t == Ins(s, i, n)
           R == EmplaceOne(L, w, n, x)
<1>1. /\ s \in Seq(Nodes) /\ Distinct(s) /\ Linked(p, q, s) /\ DOMAIN e = Elems(s)
      /\ L = Fields(Place(s, 1), Place(s, m), m, p, q, e)
  BY DEF Spells
<1>2. m \in Nat /\ i \in 1 .. m + 1 /\ i \in Int /\ DOMAIN s = 1 .. m
      /\ \A j \in 1 .. m : s[j] \in Nat \ {Null} /\ s[j] # n /\ s[j] \in Elems(s)
  BY <1>1 DEF Elems, Nodes
<1>3. \A j, k \in 1 .. m : s[j] = s[k] => j = k
  BY <1>1, <1>2 DEF Distinct
<1>4. /\ t \in Seq(Nodes) /\ Len(t) = m + 1 /\ Distinct(t) /\ Elems(t) = Elems(s) \cup {n}
      /\ \A j \in 1 .. m : j < i => t[j] = s[j]
      /\ \A j \in 1 .. m : j >= i => t[j + 1] = s[j]
      /\ t[i] = n
  <2>1. /\ s \in Seq(Nodes) /\ i \in 1 .. Len(s) + 1 /\ n \in Nodes
        /\ Distinct(s) /\ n \notin Elems(s)
    BY <1>1
  <2>2. Longer(Ins(s, i, n), s, i, n)
    BY ONLY <2>1, InsFacts
  <2> QED
    BY ONLY <2>2 DEF Longer
<1>5. /\ DOMAIN p = Elems(s) /\ DOMAIN q = Elems(s)
      /\ p = [y \in Elems(s) |-> p[y]] /\ q = [y \in Elems(s) |-> q[y]]
      /\ \A j \in 1 .. m : p[s[j]] = Place(s, j - 1) /\ q[s[j]] = Place(s, j + 1)
  BY <1>1 DEF Linked
<1> DEFINE p0 == With(p, n, Null)
           q0 == With(q, n, w)
           e0 == With(e, n, x)
<1>h. L.prev = p /\ w = Place(s, i)
  OBVIOUS
<1> HIDE DEF p, q, e, w
<1>6. /\ p0 = [y \in Elems(s) \cup {n} |-> p0[y]] /\ q0 = [y \in Elems(s) \cup {n} |-> q0[y]]
      /\ DOMAIN e0 = Elems(s) \cup {n}
      /\ p0[n] = Null /\ q0[n] = w
      /\ \A j \in 1 .. m : p0[s[j]] = p[s[j]] /\ q0[s[j]] = q[s[j]]
  BY <1>1, <1>2, <1>5 DEF With
<1> DEFINE new == Made(L, n, w, x)
<1>n. R = IF L.head = Null THEN [new EXCEPT !.head = n, !.tail = n]
          ELSE IF w = Null THEN [new EXCEPT !.next[L.tail] = n, !.prev[n] = L.tail, !.tail = n]
          ELSE [new EXCEPT !.prev = [@ EXCEPT ![n] = p[w], ![w] = n], !.next = Set(@, p[w], n),
                           !.head = IF L.head = w THEN n ELSE @]
  BY DEF EmplaceOne, Made, p
<1>7. new = Fields(Place(s, 1), Place(s, m), m + 1, p0, q0, e0)
  <2>1. L = Fields(Place(s, 1), Place(s, m), m, p, q, e)
    BY <1>1
  <2> QED
    BY ONLY <2>1, FieldsMade
<1>8. L.head = Place(s, 1) /\ L.tail = Place(s, m)
  BY <1>1 DEF Fields
<1>g. SUFFICES Spells(R, t) /\ R.extra = e0
  BY DEF e0, e, w
<1> HIDE DEF p0, q0, e0, new, R, t
\* It is enough to find the links and the ends of the result.
<1>9. ASSUME NEW P, NEW Q, Joined(P, Q, p, q, s, i, n), R = Fields(t[1], t[m + 1], m + 1, P, Q, e0)
      PROVE  Spells(R, t) /\ R.extra = e0
  <2>1. Linked(P, Q, t)
    <3>1. /\ s \in Seq(Nodes) /\ i \in 1 .. Len(s) + 1 /\ n \in Nodes
          /\ Distinct(s) /\ n \notin Elems(s)
      BY <1>1
    <3> QED
      BY ONLY <1>1, <1>9, <3>1, InsLinked DEF t
  <2>2. R.prev = P /\ R.next = Q /\ R.extra = e0
    BY <1>9 DEF Fields
  <2>3. Place(t, 1) = t[1] /\ Place(t, Len(t)) = t[m + 1]
    BY <1>2, <1>4 DEF Place
  <2> QED
    BY ONLY <1>4, <1>6, <1>9, <2>1, <2>2, <2>3 DEF Spells
<1>10. CASE m = 0
  <2>1. i = 1 /\ w = Null /\ Place(s, 1) = Null /\ Place(s, m) = Null /\ Place(s, i - 1) = Null
    BY <1>2, <1>10 DEF Place, w
  <2>2. R = Fields(n, n, m + 1, p0, q0, e0)
    BY <1>7, <1>8, <1>n, <2>1 DEF Fields
  <2>3. t[1] = n /\ t[m + 1] = n
    BY <1>4, <1>10, <2>1
  <2>4. \A j \in 1 .. m : FALSE
    BY <1>10
  <2>5. Joined(p0, q0, p, q, s, i, n)
    BY <1>6, <1>h, <2>1, <2>4 DEF Joined
  <2> QED
    BY <1>9, <2>2, <2>3, <2>5
<1>11. CASE m # 0 /\ i = m + 1
  <2>1. w = Null /\ m \in 1 .. m /\ 1 \in 1 .. m /\ Place(s, 1) = s[1] /\ Place(s, m) = s[m] /\ i - 1 = m
    BY <1>2, <1>11 DEF Place, w
  <2> DEFINE P == [p0 EXCEPT ![n] = s[m]]
             Q == [q0 EXCEPT ![s[m]] = n]
  <2>2. R = Fields(s[1], n, m + 1, P, Q, e0)
    <3>1. R = [new EXCEPT !.next[s[m]] = n, !.prev[n] = s[m], !.tail = n]
      BY <1>2, <1>8, <1>n, <2>1
    <3> QED
      BY ONLY <1>7, <2>1, <3>1 DEF Fields
  <2>3. t[1] = s[1] /\ t[m + 1] = n
    BY <1>2, <1>4, <1>11, <2>1
  <2>4. /\ P = [y \in Elems(s) \cup {n} |-> P[y]] /\ Q = [y \in Elems(s) \cup {n} |-> Q[y]]
        /\ P[n] = s[m] /\ Q[n] = Null
    BY <1>2, <1>6, <2>1
  <2>5. \A j \in 1 .. m : P[s[j]] = p[s[j]] /\ Q[s[j]] = IF j = m THEN n ELSE q[s[j]]
    BY <1>2, <1>3, <1>6, <2>1
  <2>6. \A j \in 1 .. m : j # i
    BY <1>2, <1>11
  <2> HIDE DEF P, Q
  <2>7. Joined(P, Q, p, q, s, i, n)
    BY <1>h, <2>1, <2>4, <2>5, <2>6 DEF Joined
  <2> QED
    BY <1>9, <2>2, <2>3, <2>7
<1>12. CASE i \in 1 .. m
  <2>1. w = s[i] /\ 1 \in 1 .. m /\ m \in 1 .. m /\ Place(s, 1) = s[1] /\ Place(s, m) = s[m]
        /\ w # Null /\ s[1] # Null
    BY <1>2, <1>12 DEF Place, w
  <2> DEFINE left == Place(s, i - 1)
             P == [p0 EXCEPT ![n] = left, ![w] = n]
             Q == Set(q0, left, n)
             h == IF s[1] = w THEN n ELSE s[1]
  <2>2. L.prev[w] = left
    BY <1>5, <1>12, <1>h, <2>1
  <2>3. R = Fields(h, s[m], m + 1, P, Q, e0)
    <3>1. new = Fields(s[1], s[m], m + 1, p0, q0, e0)
      BY <1>7, <2>1
    <3>2. new.prev = p0 /\ new.next = q0 /\ new.head = s[1]
      BY <3>1 DEF Fields
    <3>3. R = [new EXCEPT !.prev = P, !.next = Q, !.head = h]
      BY ONLY <1>8, <1>n, <1>h, <2>1, <2>2, <3>2
    <3> HIDE DEF P, Q, h
    <3> QED
      BY ONLY <3>1, <3>3 DEF Fields
  <2>4. t[1] = h /\ t[m + 1] = s[m]
    <3>1. i = 1 \/ 1 < i
      BY <1>2
    <3>2. m >= i
      BY <1>2, <1>12
    <3> QED
      BY <1>3, <1>4, <1>12, <2>1, <3>1, <3>2
  <2>5. P = [y \in Elems(s) \cup {n} |-> P[y]] /\ P[n] = left
    BY <1>2, <1>6, <1>12, <2>1
  <2>6. \A j \in 1 .. m : P[s[j]] = IF j = i THEN n ELSE p[s[j]]
    <3>1. p0 = [y \in Elems(s) \cup {n} |-> p0[y]] /\ w \in Elems(s) /\ w # n
      BY <1>2, <1>6, <1>12, <2>1
    <3> HIDE DEF left
    <3>2. \A y \in Elems(s) : P[y] = IF y = w THEN n ELSE p0[y]
      BY <3>1
    <3> HIDE DEF P
    <3>3. \A j \in 1 .. m : s[j] \in Elems(s) /\ (s[j] = w <=> j = i) /\ p0[s[j]] = p[s[j]]
      <4>1. \A j \in 1 .. m : s[j] = w <=> j = i
        BY ONLY <1>3, <1>12, <2>1
      <4>2. \A j \in 1 .. m : p0[s[j]] = p[s[j]]
        BY ONLY <1>6
      <4> QED
        BY ONLY <1>2, <4>1, <4>2
    <3> QED
      BY ONLY <3>2, <3>3
  <2>7. /\ Q = [y \in Elems(s) \cup {n} |-> Q[y]] /\ Q[n] = w
        /\ \A j \in 1 .. m : Q[s[j]] = IF j = i - 1 THEN n ELSE q[s[j]]
    <3>1. CASE i = 1
      <4>1. left = Null /\ \A j \in 1 .. m : j # i - 1
        BY <3>1 DEF Place
      <4> QED
        BY <1>6, <4>1 DEF Set
    <3>2. CASE i # 1
      <4>1. i - 1 \in 1 .. m /\ left = s[i - 1] /\ left # Null /\ left \in Elems(s) /\ left # n
        BY <1>2, <1>12, <3>2 DEF Place
      <4>2. Q = [q0 EXCEPT ![left] = n]
        BY <4>1 DEF Set
      <4> HIDE DEF left, Q
      <4> QED
        BY <1>2, <1>3, <1>6, <4>1, <4>2
    <3> QED
      BY <3>1, <3>2
  <2> HIDE DEF P, Q, h
  <2>8. Joined(P, Q, p, q, s, i, n)
    BY <1>h, <2>5, <2>6, <2>7 DEF Joined
  <2> QED
    BY <1>9, <2>3, <2>4, <2>8
<1>13. m = 0 \/ (m # 0 /\ i = m + 1) \/ i \in 1 .. m
  BY <1>2
<1> QED
  BY <1>10, <1>11, <1>12, <1>13

\* The list that pop_one leaves, from the fields of the one it was given.
LEMMA FieldsPopped ==
  ASSUME NEW h, NEW t, NEW z, NEW p, NEW q, NEW e, NEW L, L = Fields(h, t, z, p, q, e), NEW w, h # Null, w # Null
  PROVE  /\ PopOne(L, w).end = "ok"
         /\ PopOne(L, w).list = Fields(IF h = w THEN q[w] ELSE h, IF t = w THEN p[w] ELSE t, z - 1,
                                       Without(Set(p, q[w], p[w]), w), Without(Set(q, p[w], q[w]), w), Without(e, w))
<1> DEFINE R == PopOne(L, w).list
           H == IF h = w THEN q[w] ELSE h
           T == IF t = w THEN p[w] ELSE t
           P == Without(Set(p, q[w], p[w]), w)
           Q == Without(Set(q, p[w], q[w]), w)
           E == Without(e, w)
           Z == z - 1
<1>1. L.head = h /\ L.tail = t /\ L.size = z /\ L.prev = p /\ L.next = q /\ L.extra = e
  BY DEF Fields
<1>2. PopOne(L, w).end = "ok"
  BY <1>1 DEF PopOne
<1>3. R = [L EXCEPT !.next = Q, !.prev = P, !.extra = E, !.head = H, !.tail = T, !.size = Z]
  BY <1>1 DEF PopOne
<1> HIDE DEF R, H, T, P, Q, E, Z
<1>4. R = Fields(H, T, Z, P, Q, E)
  BY <1>3 DEF Fields
<1> QED
  BY <1>2, <1>4 DEF R, H, T, P, Q, E, Z

\* pop_one deletes its node and nothing else, whichever node of a list of whatever length it
\* is given: the links, the ends, the size and the flags are those of the sequence without it.
THEOREM PopOneRemoves ==
  ASSUME NEW L, NEW s, Spells(L, s), NEW i \in 1 .. Len(s)
  PROVE  /\ PopOne(L, s[i]).end = "ok" /\ Spells(PopOne(L, s[i]).list, Del(s, i))
         /\ PopOne(L, s[i]).list.extra = Without(L.extra, s[i])
<1> DEFINE m == Len(s)
           p == L.prev
           q == L.next
           e == L.extra
           w == s[i]
           t == Del(s, i)
           R == PopOne(L, w).list
           left == Place(s, i - 1)
           right == Place(s, i + 1)
<1>1. /\ s \in Seq(Nodes) /\ Distinct(s) /\ Linked(p, q, s) /\ DOMAIN e = Elems(s)
      /\ L = Fields(Place(s, 1), Place(s, m), m, p, q, e)
  BY DEF Spells
<1>2. m \in Nat /\ i \in 1 .. m /\ i \in Int /\ DOMAIN s = 1 .. m /\ 1 \in 1 .. m /\ m \in 1 .. m
      /\ \A j \in 1 .. m : s[j] \in Nat \ {Null} /\ s[j] \in Elems(s)
  BY <1>1 DEF Elems, Nodes
<1>3. \A j, k \in 1 .. m : s[j] = s[k] => j = k
  BY <1>1, <1>2 DEF Distinct
<1>4. /\ t \in Seq(Nodes) /\ Len(t) = m - 1 /\ Distinct(t) /\ Elems(t) = Elems(s) \ {w}
      /\ \A j \in 1 .. m : j < i => t[j] = s[j]
      /\ \A j \in 1 .. m : j > i => t[j - 1] = s[j]
  <2>1. s \in Seq(Nodes) /\ i \in 1 .. Len(s) /\ Distinct(s)
    BY <1>1
  <2>2. Shorter(Del(s, i), s, i)
    BY ONLY <2>1, DelFacts
  <2> QED
    BY ONLY <2>2 DEF Shorter
<1>5. /\ DOMAIN p = Elems(s) /\ DOMAIN q = Elems(s)
      /\ p = [y \in Elems(s) |-> p[y]] /\ q = [y \in Elems(s) |-> q[y]]
      /\ \A j \in 1 .. m : p[s[j]] = Place(s, j - 1) /\ q[s[j]] = Place(s, j + 1)
  BY <1>1 DEF Linked
<1>6. p[w] = left /\ q[w] = right /\ w # Null /\ w \in Elems(s) /\ Place(s, 1) = s[1] /\ Place(s, m) = s[m] /\ s[1] # Null
  BY <1>2, <1>5 DEF Place
<1> DEFINE P == Without(Set(p, right, left), w)
           Q == Without(Set(q, left, right), w)
           h == IF s[1] = w THEN right ELSE s[1]
           z == IF s[m] = w THEN left ELSE s[m]
<1>g. SUFFICES PopOne(L, w).end = "ok" /\ Spells(R, t) /\ R.extra = Without(e, w)
  OBVIOUS
<1>h. w = s[i]
  OBVIOUS
<1> HIDE DEF p, q, e, w
<1>7. PopOne(L, w).end = "ok" /\ R = Fields(h, z, m - 1, P, Q, Without(e, w))
  <2>1. L = Fields(s[1], s[m], m, p, q, e) /\ s[1] # Null /\ w # Null
    BY <1>1, <1>6
  <2>2. /\ PopOne(L, w).end = "ok"
        /\ PopOne(L, w).list = Fields(IF s[1] = w THEN q[w] ELSE s[1], IF s[m] = w THEN p[w] ELSE s[m], m - 1,
                                      Without(Set(p, q[w], p[w]), w), Without(Set(q, p[w], q[w]), w), Without(e, w))
    BY ONLY <2>1, FieldsPopped, SMTT(30)
  <2> QED
    BY ONLY <1>6, <2>2
\* A link that is set, in a list that loses w.
<1> DEFINE Links(f) == f = [y \in Elems(s) |-> f[y]]
           Relinked(g, f, k, v) ==
             /\ g = [y \in Elems(s) \ {w} |-> g[y]]
             /\ \A j \in 1 .. m : j # i => g[s[j]] = IF j = k THEN v ELSE f[s[j]]
<1>8. ASSUME NEW f, Links(f), NEW k \in Int, k # i, NEW v
      PROVE  Relinked(Without(Set(f, Place(s, k), v), w), f, k, v)
  <2> DEFINE f1 == Set(f, Place(s, k), v)
             g == Without(f1, w)
  <2>1. f1 = [y \in Elems(s) |-> f1[y]] /\ \A j \in 1 .. m : f1[s[j]] = IF j = k THEN v ELSE f[s[j]]
    <3>1. CASE k \in 1 .. m
      <4>1. Place(s, k) = s[k] /\ s[k] # Null /\ s[k] \in Elems(s)
        BY <1>2, <3>1 DEF Place
      <4>2. f1 = [f EXCEPT ![s[k]] = v]
        BY <4>1 DEF Set
      <4>3. f1 = [y \in Elems(s) |-> f1[y]] /\ \A y \in Elems(s) : f1[y] = IF y = s[k] THEN v ELSE f[y]
        BY ONLY <1>8, <4>1, <4>2
      <4> HIDE DEF f1
      <4>4. \A j \in 1 .. m : s[j] \in Elems(s) /\ (s[j] = s[k] <=> j = k)
        BY ONLY <1>2, <1>3, <3>1
      <4> QED
        BY ONLY <4>3, <4>4
    <3>2. CASE k \notin 1 .. m
      <4>1. f1 = f
        BY <3>2 DEF Place, Set
      <4> QED
        BY <1>8, <3>2, <4>1
    <3> QED
      BY <3>1, <3>2
  <2> HIDE DEF f1
  <2>2. g = [y \in Elems(s) \ {w} |-> g[y]] /\ \A y \in Elems(s) \ {w} : g[y] = f1[y]
    <3>1. DOMAIN f1 = Elems(s)
      BY ONLY <2>1
    <3> QED
      BY ONLY <3>1 DEF Without
  <2>3. \A j \in 1 .. m : j # i => s[j] \in Elems(s) \ {w}
    BY ONLY <1>2, <1>3, <1>h
  <2> HIDE DEF g
  <2> QED
    BY ONLY <2>1, <2>2, <2>3 DEF g, f1
<1>9. Parted(P, Q, p, q, s, i)
  <2>1. i + 1 \in Int /\ i + 1 # i /\ i - 1 \in Int /\ i - 1 # i
    BY ONLY <1>2
  <2>2. Links(p) /\ Links(q)
    BY ONLY <1>5
  <2> HIDE DEF Links, Relinked
  <2>3. Relinked(P, p, i + 1, left) /\ Relinked(Q, q, i - 1, right)
    BY ONLY <1>8, <2>1, <2>2
  <2> HIDE DEF P, Q
  <2> QED
    BY ONLY <1>h, <2>3 DEF Parted, Relinked
<1> HIDE DEF P, Q, R
<1>10. Linked(P, Q, t)
  <2>1. s \in Seq(Nodes) /\ i \in 1 .. Len(s) /\ Distinct(s) /\ Linked(p, q, s)
    BY <1>1
  <2> QED
    BY ONLY <1>9, <2>1, DelLinked
<1>11. h = Place(t, 1) /\ z = Place(t, m - 1)
  <2> HIDE DEF t, m
  <2>1. h = Place(t, 1)
    <3>1. CASE i = 1
      <4>1. s[1] = w
        BY <1>h, <3>1
      <4>2. CASE m = 1
        <5>1. 2 \notin 1 .. Len(s) /\ 1 \notin 1 .. Len(t) /\ i + 1 = 2
          BY ONLY <1>4, <3>1, <4>2 DEF m
        <5> QED
          BY ONLY <4>1, <5>1 DEF Place
      <4>3. CASE m # 1
        <5>1. 2 \in 1 .. m /\ 2 > i /\ 2 - 1 = 1 /\ 1 \in 1 .. m - 1 /\ i + 1 = 2
          BY ONLY <1>2, <3>1, <4>3
        <5>2. t[1] = s[2]
          BY ONLY <1>4, <5>1
        <5> QED
          BY ONLY <1>4, <4>1, <5>1, <5>2 DEF Place, m
      <4> QED
        BY <4>2, <4>3
    <3>2. CASE i # 1
      <4>1. 1 < i /\ 1 \in 1 .. m - 1
        BY ONLY <1>2, <3>2
      <4>2. s[1] # w /\ t[1] = s[1]
        BY ONLY <1>2, <1>3, <1>4, <1>h, <3>2, <4>1
      <4> QED
        BY ONLY <1>4, <4>1, <4>2 DEF Place
    <3> QED
      BY <3>1, <3>2
  <2>2. z = Place(t, m - 1)
    <3>1. CASE i = m
      <4>1. s[m] = w
        BY <1>h, <3>1
      <4>2. CASE m = 1
        <5>1. i - 1 \notin 1 .. Len(s) /\ m - 1 \notin 1 .. Len(t)
          BY ONLY <1>4, <3>1, <4>2 DEF m
        <5> QED
          BY ONLY <4>1, <5>1 DEF Place
      <4>3. CASE m # 1
        <5>1. m - 1 \in 1 .. m /\ m - 1 < i /\ m - 1 \in 1 .. m - 1 /\ i - 1 = m - 1
          BY ONLY <1>2, <3>1, <4>3
        <5>2. t[m - 1] = s[m - 1]
          BY ONLY <1>4, <5>1
        <5> QED
          BY ONLY <1>4, <4>1, <5>1, <5>2 DEF Place, m
      <4> QED
        BY <4>2, <4>3
    <3>2. CASE i # m
      <4>1. m > i /\ m - 1 \in 1 .. m - 1
        BY ONLY <1>2, <3>2
      <4>2. s[m] # w /\ t[m - 1] = s[m]
        BY ONLY <1>2, <1>3, <1>4, <1>h, <3>2, <4>1
      <4> QED
        BY ONLY <1>4, <4>1, <4>2 DEF Place
    <3> QED
      BY <3>1, <3>2
  <2> QED
    BY <2>1, <2>2
<1>12. DOMAIN Without(e, w) = Elems(t)
  BY <1>1, <1>4 DEF Without
<1>13. R.prev = P /\ R.next = Q /\ R.extra = Without(e, w)
  BY ONLY <1>7 DEF Fields
<1> HIDE DEF t, h, z
<1>14. Spells(R, t)
  BY ONLY <1>4, <1>7, <1>10, <1>11, <1>12, <1>13 DEF Spells
<1> QED
  BY ONLY <1>7, <1>13, <1>14

\* Mark changes a flag and no link.
LEMMA MarkSpells ==
  ASSUME NEW L, NEW s, Spells(L, s), NEW o \in Elems(s), NEW x
  PROVE  Spells(Mark(L, o, x), s)
<1> DEFINE h == Place(s, 1)
           t == Place(s, Len(s))
           z == Len(s)
           p == L.prev
           q == L.next
           e == L.extra
           E == [e EXCEPT ![o] = x]
           R == Mark(L, o, x)
<1>1. L = Fields(h, t, z, p, q, e) /\ DOMAIN e = Elems(s)
  BY DEF Spells
<1>2. R = [L EXCEPT !.extra = E]
  BY DEF Mark
<1>3. DOMAIN E = Elems(s)
  BY <1>1
<1> HIDE DEF h, t, z, p, q, e, E, R
<1>4. R = Fields(h, t, z, p, q, E)
  BY ONLY <1>1, <1>2 DEF Fields
<1>5. R.prev = p /\ R.next = q /\ R.extra = E
  BY ONLY <1>4 DEF Fields
<1>6. Spells(R, s)
  <2>1. s \in Seq(Nodes) /\ Distinct(s) /\ Linked(p, q, s)
    BY DEF Spells, p, q
  <2> QED
    BY ONLY <1>3, <1>4, <1>5, <2>1 DEF Spells, h, t, z
<1> QED
  BY <1>6 DEF R

\* The destructor's walk from begin() to end() deletes every node of the list.
THEOREM DestructorDeletesAll ==
  ASSUME NEW L, NEW s, Spells(L, s)
  PROVE  Deleted(L) = Elems(s)
<1> DEFINE m == Len(s)
           IsWalk(f) == f = [k \in 0 .. L.size |->
                               IF k = 0 THEN L.head ELSE IF f[k - 1] = Null THEN Null ELSE Succ(L, f[k - 1])]
           g == [k \in 0 .. L.size |-> Place(s, k + 1)]
           at == CHOOSE f : IsWalk(f)
<1>1. /\ s \in Seq(Nodes) /\ L.size = m /\ L.head = Place(s, 1) /\ m \in Nat /\ DOMAIN s = 1 .. m
      /\ \A i \in 1 .. m : L.next[s[i]] = Place(s, i + 1) /\ s[i] # Null
  <2>1. s \in Seq(Nodes) /\ L = Fields(Place(s, 1), Place(s, m), m, L.prev, L.next, L.extra) /\ Linked(L.prev, L.next, s)
    BY DEF Spells
  <2>2. L.size = m /\ L.head = Place(s, 1)
    BY ONLY <2>1 DEF Fields
  <2>3. m \in Nat /\ DOMAIN s = 1 .. m /\ \A i \in 1 .. m : s[i] # Null
    BY ONLY <2>1 DEF Nodes
  <2> QED
    BY ONLY <2>1, <2>2, <2>3 DEF Linked
<1>2. ASSUME NEW k \in Nat, k # 0
      PROVE  Place(s, k + 1) = IF Place(s, k) = Null THEN Null ELSE Succ(L, Place(s, k))
  <2>1. CASE k \in 1 .. m
    BY <1>1, <2>1 DEF Place, Succ
  <2>2. CASE k \notin 1 .. m
    <3>1. k + 1 \notin 1 .. m
      BY ONLY <1>1, <1>2, <2>2
    <3> QED
      BY <2>2, <3>1 DEF Place
  <2> QED
    BY <2>1, <2>2
<1>3. IsWalk(g)
  <2>1. ASSUME NEW k \in 0 .. L.size
        PROVE  g[k] = IF k = 0 THEN L.head ELSE IF g[k - 1] = Null THEN Null ELSE Succ(L, g[k - 1])
    <3>1. CASE k = 0
      BY ONLY <1>1, <2>1, <3>1
    <3>2. CASE k # 0
      <4>1. k \in Nat /\ k - 1 \in 0 .. L.size /\ (k - 1) + 1 = k
        BY ONLY <1>1, <2>1, <3>2
      <4>2. g[k - 1] = Place(s, k) /\ g[k] = Place(s, k + 1)
        BY ONLY <2>1, <4>1
      <4> HIDE DEF g
      <4> QED
        BY ONLY <1>2, <3>2, <4>1, <4>2
    <3> QED
      BY <3>1, <3>2
  <2> HIDE DEF m
  <2>2. g = [k \in 0 .. L.size |-> g[k]]
    OBVIOUS
  <2> HIDE DEF g
  <2> QED
    BY ONLY <2>1, <2>2
<1> HIDE DEF g
<1>4. IsWalk(at)
  <2> HIDE DEF IsWalk
  <2> QED
    BY <1>3
<1>5. Deleted(L) = {at[k] : k \in 0 .. L.size} \ {Null}
  BY DEF Deleted
<1> HIDE DEF at
<1>6. \A k \in Nat : k <= m => at[k] = Place(s, k + 1)
  <2> DEFINE S == {k \in Nat : k <= m => at[k] = Place(s, k + 1)}
  <2>0. ASSUME NEW k \in 0 .. m
        PROVE  at[k] = IF k = 0 THEN L.head ELSE IF at[k - 1] = Null THEN Null ELSE Succ(L, at[k - 1])
    BY ONLY <1>1, <1>4, <2>0
  <2> HIDE DEF m
  <2>1. 0 \in S
    <3>1. 0 \in 0 .. m /\ 0 + 1 = 1
      BY ONLY <1>1
    <3> QED
      BY ONLY <1>1, <2>0, <3>1
  <2>2. ASSUME NEW k \in Nat, k \in S PROVE k + 1 \in S
    <3> SUFFICES ASSUME k + 1 <= m PROVE at[k + 1] = Place(s, (k + 1) + 1)
      OBVIOUS
    <3>1. k + 1 \in 0 .. m /\ k + 1 # 0 /\ (k + 1) - 1 = k /\ k <= m /\ k + 1 \in Nat
      BY ONLY <1>1, <2>2, k + 1 <= m
    <3>2. at[k] = Place(s, k + 1)
      BY ONLY <2>2, <3>1
    <3>3. at[k + 1] = IF at[k] = Null THEN Null ELSE Succ(L, at[k])
      BY ONLY <2>0, <3>1
    <3> QED
      BY ONLY <1>2, <3>1, <3>2, <3>3
  <2> HIDE DEF S
  <2>3. \A k \in Nat : k \in S
    BY ONLY <2>1, <2>2, SetInduction
  <2> QED
    BY ONLY <2>3 DEF S
<1> HIDE DEF m
<1>7. \A y : y \in Deleted(L) <=> y \in Elems(s)
  <2>1. ASSUME NEW y, y \in Deleted(L) PROVE y \in Elems(s)
    <3>1. PICK k \in 0 .. m : y = at[k] /\ y # Null
      BY ONLY <1>1, <1>5, <2>1
    <3>2. y = Place(s, k + 1)
      BY ONLY <1>1, <1>6, <3>1
    <3>3. k + 1 \in 1 .. m /\ y = s[k + 1]
      BY ONLY <3>1, <3>2 DEF Place, m
    <3> QED
      BY ONLY <1>1, <3>3 DEF Elems
  <2>2. ASSUME NEW y, y \in Elems(s) PROVE y \in Deleted(L)
    <3>1. PICK i \in 1 .. m : y = s[i]
      BY ONLY <1>1, <2>2 DEF Elems
    <3>2. i - 1 \in 0 .. m /\ i - 1 \in Nat /\ i - 1 <= m /\ (i - 1) + 1 = i
      BY ONLY <1>1, <3>1
    <3>3. at[i - 1] = y /\ y # Null
      BY ONLY <1>1, <1>6, <3>1, <3>2 DEF Place, m
    <3> QED
      BY ONLY <1>1, <1>5, <3>2, <3>3
  <2> QED
    BY ONLY <2>1, <2>2
<1> QED
  BY ONLY <1>7

\* push_front and push_back, pop_front and pop_back work at the two ends; on the empty list
\* the first of the pops throws and the second reads through nullptr.
THEOREM EndsOfTheList ==
  ASSUME NEW L, NEW s, Spells(L, s)
  PROVE  /\ \A n \in Nodes \ Elems(s), x \in BOOLEAN :
              /\ Spells(PushFront(L, n, x), Ins(s, 1, n))
              /\ Spells(PushBack(L, n, x), Ins(s, Len(s) + 1, n))
         /\ s # <<>> => /\ PopFront(L).end = "ok" /\ Spells(PopFront(L).list, Del(s, 1))
                        /\ PopBack(L).end = "ok" /\ Spells(PopBack(L).list, Del(s, Len(s)))
         /\ s = <<>> => PopFront(L).end = "threw" /\ PopBack(L).end = "crashed"
<1> DEFINE m == Len(s)
<1>1. /\ s \in Seq(Nodes) /\ L.head = Place(s, 1) /\ L.tail = Place(s, m)
      /\ m \in Nat /\ \A i \in 1 .. m : s[i] # Null
  <2>1. s \in Seq(Nodes) /\ L = Fields(Place(s, 1), Place(s, m), m, L.prev, L.next, L.extra)
    BY DEF Spells
  <2>2. m \in Nat /\ \A i \in 1 .. m : s[i] # Null
    BY ONLY <2>1 DEF Nodes
  <2> QED
    BY ONLY <2>1, <2>2 DEF Fields
<1>2. ASSUME NEW n \in Nodes \ Elems(s), NEW x \in BOOLEAN
      PROVE  Spells(PushFront(L, n, x), Ins(s, 1, n)) /\ Spells(PushBack(L, n, x), Ins(s, m + 1, n))
  <2>1. 1 \in 1 .. Len(s) + 1 /\ Len(s) + 1 \in 1 .. Len(s) + 1 /\ Place(s, m + 1) = Null
    BY <1>1 DEF Place
  <2>2. n \in Nodes /\ n \notin Elems(s)
    OBVIOUS
  <2>3. Spells(EmplaceOne(L, Place(s, 1), n, x), Ins(s, 1, n))
    BY <2>1, <2>2, EmplaceOneInserts
  <2>4. Spells(EmplaceOne(L, Place(s, m + 1), n, x), Ins(s, m + 1, n))
    BY <2>1, <2>2, EmplaceOneInserts
  <2> QED
    BY <1>1, <2>1, <2>3, <2>4 DEF PushFront, PushBack
<1>3. ASSUME s # <<>>
      PROVE  /\ PopFront(L).end = "ok" /\ Spells(PopFront(L).list, Del(s, 1))
             /\ PopBack(L).end = "ok" /\ Spells(PopBack(L).list, Del(s, m))
  <2>1. 1 \in 1 .. Len(s) /\ Len(s) \in 1 .. Len(s)
    BY <1>1, <1>3
  <2>2. L.head = s[1] /\ L.tail = s[m] /\ L.tail # Null
    BY <1>1, <2>1 DEF Place
  <2>3. PopOne(L, s[1]).end = "ok" /\ Spells(PopOne(L, s[1]).list, Del(s, 1))
    BY <2>1, PopOneRemoves
  <2>4. PopOne(L, s[m]).end = "ok" /\ Spells(PopOne(L, s[m]).list, Del(s, m))
    BY <2>1, PopOneRemoves
  <2> QED
    BY <2>2, <2>3, <2>4 DEF PopFront, PopBack
<1>4. ASSUME s = <<>> PROVE PopFront(L).end = "threw" /\ PopBack(L).end = "crashed"
  <2>1. L.head = Null /\ L.tail = Null
    BY <1>1, <1>4 DEF Place
  <2> QED
    BY <2>1 DEF PopFront, PopOne, PopBack
<1> QED
  BY <1>2, <1>3, <1>4

-----------------------------------------------------------------------------
(* The pool's own list. *)

Ids(n) == [i \in 1 .. n |-> i]

\* The buffer is the list of the objects in the order in which they were made, and the
\* destructor of the pool deletes all of them, the ones that are lent included.
BufferWhole == Spells(buffer, Ids(buffer.size)) /\ Deleted(buffer) = Created

LEMMA IdsFacts ==
  ASSUME NEW n \in Nat
  PROVE  /\ Ids(n) \in Seq(Nodes) /\ Len(Ids(n)) = n /\ Elems(Ids(n)) = 1 .. n
         /\ Ins(Ids(n), n + 1, n + 1) = Ids(n + 1)
<1>1. Ids(n) \in Seq(Nodes) /\ Len(Ids(n)) = n /\ Elems(Ids(n)) = 1 .. n
  BY DEF Ids, Nodes, Null, Elems
<1>2. Ins(Ids(n), n + 1, n + 1) = Ids(n + 1)
  BY <1>1 DEF Ids, Ins
<1> QED
  BY <1>1, <1>2

\* new_obj_to_buffer
LEMMA NewObjSpells ==
  ASSUME NEW n \in Nat, NEW b, Spells(b, Ids(n))
  PROVE  Spells(NewObj(b), Ids(n + 1)) /\ NewObj(b).tail = n + 1 /\ NewObj(b).size = n + 1
<1>1. b.size = n
  <2>1. b = Fields(Place(Ids(n), 1), Place(Ids(n), Len(Ids(n))), Len(Ids(n)), b.prev, b.next, b.extra)
    BY DEF Spells
  <2>2. b.size = Len(Ids(n))
    BY ONLY <2>1 DEF Fields
  <2> QED
    BY <2>2, IdsFacts
<1>2. n + 1 \in Nodes \ Elems(Ids(n)) /\ Len(Ids(n)) = n
  <2>1. Elems(Ids(n)) = 1 .. n /\ Len(Ids(n)) = n
    BY IdsFacts
  <2>2. n + 1 \in Nodes /\ n + 1 \notin 1 .. n
    BY DEF Nodes, Null
  <2> QED
    BY <2>1, <2>2
<1>3. Spells(PushBack(b, n + 1, TRUE), Ins(Ids(n), n + 1, n + 1))
  BY <1>2, EndsOfTheList
<1>4. Spells(NewObj(b), Ids(n + 1))
  BY <1>1, <1>3, IdsFacts DEF NewObj
<1> DEFINE c == NewObj(b)
<1>5. c = Fields(Place(Ids(n + 1), 1), Place(Ids(n + 1), Len(Ids(n + 1))), Len(Ids(n + 1)), c.prev, c.next, c.extra)
  BY <1>4 DEF Spells
<1> HIDE DEF c
<1>6. c.tail = Place(Ids(n + 1), Len(Ids(n + 1))) /\ c.size = Len(Ids(n + 1))
  BY ONLY <1>5 DEF Fields
<1>7. Len(Ids(n + 1)) = n + 1 /\ n + 1 \in 1 .. n + 1 /\ Ids(n + 1)[n + 1] = n + 1
  <2>1. n + 1 \in Nat
    OBVIOUS
  <2>2. Len(Ids(n + 1)) = n + 1
    BY <2>1, IdsFacts
  <2> QED
    BY <2>2 DEF Ids
<1>8. c.tail = n + 1 /\ c.size = n + 1
  BY ONLY <1>6, <1>7 DEF Place
<1> QED
  BY <1>4, <1>8 DEF c

\* A step makes an object, marks one of its own, or both.
LEMMA BufferStep ==
  ASSUME IInv, [Next]_vars
  PROVE  \/ buffer' = buffer
         \/ buffer' = NewObj(buffer)
         \/ \E o \in Created, x \in BOOLEAN : buffer' = Mark(buffer, o, x)
         \/ buffer' = Mark(NewObj(buffer), NewObj(buffer).tail, FALSE)
<1>1. ASSUME NEW t \in Thread, DoTryBorrow(t)
      PROVE  \/ \E o \in Created, x \in BOOLEAN : buffer' = Mark(buffer, o, x)
             \/ buffer' = Mark(NewObj(buffer), NewObj(buffer).tail, FALSE)
  <2>1. free_list # <<>> => Head(free_list) \in Created
    <3>1. free_list \in Seq(Created)
      BY Facts
    <3> QED
      BY <3>1
  <2> QED
    BY <1>1, <2>1 DEF DoTryBorrow
<1>2. ASSUME NEW t \in Thread, ReleaseOne(t)
      PROVE  \E o \in Created, x \in BOOLEAN : buffer' = Mark(buffer, o, x)
  <2>1. hold[t] \in Created
    BY <1>2 DEF IInv, StateOK, PoolSound, ReleaseOne
  <2> QED
    BY <1>2, <2>1 DEF ReleaseOne
<1>3. CASE FillFull
  BY <1>3 DEF FillFull
<1>4. ASSUME NEW t \in Thread, Step(t) \/ SpuriousWakeup(t)
      PROVE  buffer' = buffer \/ DoTryBorrow(t) \/ ReleaseOne(t)
  BY <1>4 DEF Step, TryBorrowOne, BorrowOne, Wait, SpuriousWakeup, NotifyOne, Lend, Move
<1>5. CASE UNCHANGED vars
  BY <1>5 DEF vars
<1> QED
  BY <1>1, <1>2, <1>3, <1>4, <1>5 DEF Next

\* The buffer of a pool of any size, lent from by any number of threads, stays one list of
\* all its objects, so that the destructor deletes every object once made and no other.
THEOREM PoolDeletesAll == Spec => []BufferWhole
<1> DEFINE Whole == Spells(buffer, Ids(buffer.size))
<1>1. Init => IInv /\ Whole
  <2> SUFFICES ASSUME Init PROVE Whole
    BY InitPool
  <2>1. buffer = EmptyList
    BY DEF Init
  <2>2. Ids(0) = <<>> /\ Elems(Ids(0)) = {} /\ Ids(0) \in Seq(Nodes)
    <3>1. Len(Ids(0)) = 0 /\ Elems(Ids(0)) = 1 .. 0 /\ Ids(0) \in Seq(Nodes)
      BY IdsFacts
    <3>2. 1 .. 0 = {}
      OBVIOUS
    <3> QED
      BY ONLY <3>1, <3>2
  <2>3. buffer.size = 0 /\ buffer = Fields(Null, Null, 0, buffer.prev, buffer.next, buffer.extra)
        /\ buffer.prev = <<>> /\ buffer.next = <<>> /\ buffer.extra = <<>>
    BY <2>1 DEF EmptyList, Fields
  <2>4. Linked(<<>>, <<>>, <<>>) /\ Distinct(<<>>) /\ Place(<<>>, 1) = Null /\ Place(<<>>, Len(<<>>)) = Null
        /\ Elems(<<>>) = {} /\ DOMAIN <<>> = {} /\ Len(<<>>) = 0
    BY DEF Linked, Distinct, Elems, Place
  <2> QED
    BY <2>2, <2>3, <2>4 DEF Spells
<1>2. IInv /\ Whole /\ [Next]_vars => IInv' /\ Whole'
  <2> SUFFICES ASSUME IInv, Whole, [Next]_vars PROVE Whole'
    BY PoolStep
  <2> DEFINE n == buffer.size
  <2>1. n \in Nat /\ Created = 1 .. n /\ Spells(buffer, Ids(n))
    BY Facts DEF Created
  <2> HIDE DEF n
  <2>2. Spells(NewObj(buffer), Ids(n + 1)) /\ NewObj(buffer).tail = n + 1 /\ NewObj(buffer).size = n + 1
    BY <2>1, NewObjSpells
  <2>3. ASSUME NEW k \in Nat, Spells(buffer', Ids(k)) PROVE Whole'
    <3> DEFINE b == buffer'
    <3>1. b = Fields(Place(Ids(k), 1), Place(Ids(k), Len(Ids(k))), Len(Ids(k)), b.prev, b.next, b.extra)
      BY <2>3 DEF Spells
    <3>2. b.size = Len(Ids(k))
      BY ONLY <3>1 DEF Fields
    <3>3. buffer'.size = k
      BY <3>2, IdsFacts
    <3> QED
      BY <2>3, <3>3
  <2>4. CASE buffer' = buffer
    BY <2>1, <2>3, <2>4
  <2>5. CASE buffer' = NewObj(buffer)
    BY <2>1, <2>2, <2>3, <2>5
  <2>6. CASE \E o \in Created, x \in BOOLEAN : buffer' = Mark(buffer, o, x)
    <3>1. PICK o \in Created, x \in BOOLEAN : buffer' = Mark(buffer, o, x)
      BY <2>6
    <3>2. o \in Elems(Ids(n))
      BY <2>1, <3>1, IdsFacts
    <3> QED
      BY <2>1, <2>3, <3>1, <3>2, MarkSpells
  <2>7. CASE buffer' = Mark(NewObj(buffer), NewObj(buffer).tail, FALSE)
    <3>1. n + 1 \in Nat /\ n + 1 \in 1 .. n + 1
      BY <2>1
    <3>2. NewObj(buffer).tail \in Elems(Ids(n + 1))
      BY <2>2, <3>1, IdsFacts
    <3> QED
      BY <2>2, <2>3, <2>7, <3>1, <3>2, MarkSpells
  <2> HIDE DEF Whole
  <2> QED
    BY <2>4, <2>5, <2>6, <2>7, BufferStep
<1>3. IInv /\ Whole => BufferWhole
  <2> SUFFICES ASSUME IInv, Whole PROVE BufferWhole
    OBVIOUS
  <2>1. buffer.size \in Nat
    BY Facts
  <2>2. Deleted(buffer) = Elems(Ids(buffer.size))
    BY DestructorDeletesAll
  <2> QED
    BY <2>1, <2>2, IdsFacts DEF BufferWhole, Created
<1> QED
  BY <1>1, <1>2, <1>3, PTL DEF Spec
=============================================================================
