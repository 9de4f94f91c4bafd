-------------------------- MODULE SessionThreadsProofs --------------------------
(***************************************************************************)
(* Theorems about SessionThreads.  What a thread does until it is back at  *)
(* the head of its loop is a path: with the mutexes it holds and the       *)
(* threads it has waited for at its start, each operation is one it may do *)
(* then (May), and changes what it has (After).  What is allowed is the    *)
(* order of the mutexes: a thread waits only for what ranks above all that *)
(* it holds.  The threads' programs are paths, put together from shorter   *)
(* ones, and every step takes the first operation off one of them.         *)
(***************************************************************************)
EXTENDS SessionThreads, SequenceTheorems, WellFoundedInduction, TLAPS

Verbs == {"lock", "use", "unlock", "join", "stop", "look", "receive", "heed", "clear",
          "close", "restore", "stopped", "end", "exit"}
Objects == Mutexes \cup Threads \cup {"adapter", "thread", "process"}
Ops == Verbs \X Objects

\* What a thread can have: the mutexes it holds, and the threads it has seen
\* the end of.  Nobody keeps the state's mutex.
Held == Mutexes \ {"state"}
Things == Held \cup Threads

\* The order in which mutexes are taken.
Rank(m) ==
    IF m = "session" THEN 1
    ELSE IF m = "leases" THEN 3
    ELSE IF m = "bad" THEN 4
    ELSE IF m = "warn" THEN 5
    ELSE IF m = "state" THEN 7
    ELSE 6

\* What an operation waits for ranks so high; a server's end ranks above the
\* session, which is held while a stop waits for it.
Limit(o) ==
    IF o[1] \in {"lock", "use"} THEN Rank(o[2])
    ELSE IF o[1] = "join" THEN IF o[2] = "renderer" THEN 0 ELSE 2
    ELSE 8

\* t may do o when it has A.
May(t, o, A) ==
    /\ o \in Ops
    /\ \A m \in A \cap Mutexes : Rank(m) < Limit(o)
    /\ o[1] = "lock" => o[2] \in Held
    /\ o[1] = "use" => o[2] \in Mutexes
    /\ o[1] = "unlock" => o[2] \in A \cap Mutexes
    /\ o[1] = "join" => \/ t = "main" /\ o[2] = "renderer"
                        \/ t \in {"main", "renderer"} /\ o[2] \in Servers
    /\ o[1] = "restore" => Servers \subseteq A
    /\ o[1] \in {"stop", "look"} => t \in {"main", "renderer"} /\ A = {"session"}
    /\ o[1] \in {"end", "heed"} => A \cap Mutexes = {}
    /\ t \in Servers /\ o[1] \in {"lock", "use"} => o[2] # "session"

\* What t has when it has done o.
After(o, A) ==
    IF o[1] \in {"lock", "join"} THEN A \cup {o[2]}
    ELSE IF o[1] = "unlock" THEN A \ {o[2]}
    ELSE IF o[1] = "restore" THEN A \ Servers
    ELSE IF o[1] = "end" THEN {}
    ELSE A

\* What t has before each operation of w, and after the last.
Follows(t, A, w, B, h) ==
    /\ h \in [1 .. Len(w) + 1 -> SUBSET Things]
    /\ h[1] = A /\ h[Len(w) + 1] = B
    /\ \A i \in 1 .. Len(w) : May(t, w[i], h[i]) /\ h[i + 1] = After(w[i], h[i])

\* With A, t can do w and has B then.
Path(t, A, w, B) == w \in Seq(Ops) /\ \E h : Follows(t, A, w, B, h)

-----------------------------------------------------------------------------
(* Paths.                                                                  *)

\* A nonempty set of naturals has a least element.
LEMMA NatMin ==
    ASSUME NEW T, T \subseteq Nat, T # {}
    PROVE  Min(T) \in T /\ \A y \in T : Min(T) <= y
<1>1. \E x \in T : \A y \in T : ~ (<<y, x>> \in OpToRel(<, Nat))
  BY WFMin, NatLessThanWellFounded
<1>2. \E x \in T : \A y \in T : ~ (y < x)
  BY <1>1 DEF OpToRel
<1>3. \E x \in T : \A y \in T : x <= y
  BY <1>2
<1>4. QED
  BY <1>3 DEF Min

\* An operation leaves a thread with things it can have.
LEMMA AfterThings ==
    ASSUME NEW t, NEW o, NEW A \in SUBSET Things, May(t, o, A)
    PROVE  After(o, A) \in SUBSET Things
<1>1. o[1] = "lock" => o[2] \in Things
  BY DEF May, Things
<1>2. o[1] = "join" => o[2] \in Things
  BY DEF May, Things, Threads, Servers
<1>3. QED
  BY <1>1, <1>2 DEF After

\* Nothing is a path from any set to itself.
LEMMA PathEmpty ==
    ASSUME NEW t, NEW A \in SUBSET Things
    PROVE  Path(t, A, <<>>, A)
<1> DEFINE h == [i \in 1 .. 1 |-> A]
<1>1. <<>> \in Seq(Ops) /\ Len(<<>>) = 0
  BY EmptySeq
<1>2. Follows(t, A, <<>>, A, h)
  BY <1>1 DEF Follows
<1>3. QED
  BY <1>1, <1>2 DEF Path

\* One operation.
LEMMA PathOne ==
    ASSUME NEW t, NEW A \in SUBSET Things, NEW o, May(t, o, A)
    PROVE  Path(t, A, <<o>>, After(o, A))
<1> DEFINE B == After(o, A)
           h == [i \in 1 .. 2 |-> IF i = 1 THEN A ELSE B]
           w == <<o>>
<1>1. o \in Ops /\ B \in SUBSET Things
  BY AfterThings DEF May
<1>2. w \in Seq(Ops) /\ Len(w) = 1 /\ w[1] = o
  BY <1>1
<1> HIDE DEF w, B
<1>3. h \in [1 .. Len(w) + 1 -> SUBSET Things]
  BY <1>1, <1>2
<1>4. h[1] = A /\ h[Len(w) + 1] = B
  BY <1>2
<1>5. \A i \in 1 .. Len(w) : i = 1
  BY <1>2
<1>6. May(t, w[1], h[1]) /\ h[1 + 1] = After(w[1], h[1])
  BY <1>2 DEF B
<1>7. Follows(t, A, w, B, h)
  BY <1>3, <1>4, <1>5, <1>6 DEF Follows
<1>8. Path(t, A, w, B)
  BY <1>2, <1>7 DEF Path
<1>9. QED
  BY <1>8 DEF w, B

\* One path after the other.
LEMMA PathCat ==
    ASSUME NEW t, NEW A, NEW B, NEW C, NEW v, NEW w,
           Path(t, A, v, B), Path(t, B, w, C)
    PROVE  Path(t, A, v \o w, C)
<1>1. PICK f : Follows(t, A, v, B, f)
  BY DEF Path
<1>2. PICK g : Follows(t, B, w, C, g)
  BY DEF Path
<1> DEFINE x == v \o w
           n == Len(v)
           h == [i \in 1 .. Len(x) + 1 |-> IF i <= n THEN f[i] ELSE g[i - n]]
<1>3. /\ v \in Seq(Ops) /\ w \in Seq(Ops) /\ x \in Seq(Ops) /\ n \in Nat /\ Len(w) \in Nat
      /\ Len(x) = n + Len(w)
      /\ \A i \in 1 .. Len(x) : x[i] = IF i <= n THEN v[i] ELSE w[i - n]
  BY ConcatProperties DEF Path
<1>4. /\ f \in [1 .. n + 1 -> SUBSET Things] /\ f[1] = A /\ f[n + 1] = B
      /\ \A i \in 1 .. n : May(t, v[i], f[i]) /\ f[i + 1] = After(v[i], f[i])
  BY <1>1 DEF Follows
<1>5. /\ g \in [1 .. Len(w) + 1 -> SUBSET Things] /\ g[1] = B /\ g[Len(w) + 1] = C
      /\ \A i \in 1 .. Len(w) : May(t, w[i], g[i]) /\ g[i + 1] = After(w[i], g[i])
  BY <1>2 DEF Follows
<1>6. n \in Nat /\ Len(w) \in Nat /\ Len(x) = n + Len(w)
  BY <1>3
<1>7. \A i \in 1 .. Len(x) + 1 :
         /\ i <= n => h[i] = f[i]
         /\ \A j \in 1 .. Len(w) + 1 : i = n + j => h[i] = g[j]
  <2>1. ASSUME NEW i \in 1 .. Len(x) + 1, NEW j \in 1 .. Len(w) + 1, i = n + j
        PROVE  h[i] = g[j]
    <3>1. ~(i <= n) /\ i - n = j
      BY <1>6, <2>1
    <3>2. h[i] = g[i - n]
      BY <3>1
    <3>3. QED BY <3>1, <3>2
  <2>2. QED BY <2>1
<1> HIDE DEF x, n
<1>8. h \in [1 .. Len(x) + 1 -> SUBSET Things] /\ h[1] = A /\ h[Len(x) + 1] = C
  <2>1. ASSUME NEW i \in 1 .. Len(x) + 1
        PROVE  h[i] \in SUBSET Things
    <3>1. CASE i <= n
      <4>1. i \in 1 .. n + 1
        BY <1>6, <3>1
      <4>2. QED BY <1>4, <1>7, <3>1, <4>1
    <3>2. CASE i > n
      <4>1. PICK j \in 1 .. Len(w) + 1 : i = n + j
        <5>1. i - n \in 1 .. Len(w) + 1
          BY <1>6, <3>2
        <5>2. i = n + (i - n)
          BY <1>6
        <5>3. QED BY <5>1, <5>2
      <4>2. h[i] = g[j]
        BY <1>7, <4>1
      <4>3. QED BY <1>5, <4>2
    <3>3. QED BY <1>6, <3>1, <3>2
  <2>2. h[1] = A
    <3>1. 1 \in 1 .. Len(x) + 1
      BY <1>6
    <3>2. CASE 1 <= n
      BY <1>4, <1>7, <3>1, <3>2
    <3>3. CASE n = 0
      <4>1. 1 = n + 1 /\ 1 \in 1 .. Len(w) + 1
        BY <1>6, <3>3
      <4>2. h[1] = g[1]
        BY <1>7, <3>1, <4>1
      <4>3. QED BY <1>4, <1>5, <3>3, <4>2
    <3>4. QED BY <1>6, <3>2, <3>3
  <2>3. h[Len(x) + 1] = C
    <3>1. /\ Len(x) + 1 \in 1 .. Len(x) + 1 /\ Len(w) + 1 \in 1 .. Len(w) + 1
          /\ Len(x) + 1 = n + (Len(w) + 1)
      BY <1>6
    <3>2. h[Len(x) + 1] = g[Len(w) + 1]
      BY <1>7, <3>1
    <3>3. QED BY <1>5, <3>1, <3>2
  <2>4. h \in [1 .. Len(x) + 1 -> SUBSET Things]
    BY <2>1
  <2>5. QED BY <2>2, <2>3, <2>4
<1> HIDE DEF h
<1>9. ASSUME NEW i \in 1 .. Len(x)
      PROVE  May(t, x[i], h[i]) /\ h[i + 1] = After(x[i], h[i])
  <2>1. i \in 1 .. Len(x) + 1 /\ i + 1 \in 1 .. Len(x) + 1
    BY <1>6
  <2>2. CASE i <= n
    <3>1. i \in 1 .. n
      BY <1>6, <2>2
    <3>2. x[i] = v[i]
      BY <1>3, <2>2
    <3>3. h[i] = f[i]
      BY <1>7, <2>1, <2>2
    <3>4. h[i + 1] = f[i + 1]
      <4>1. CASE i + 1 <= n
        BY <1>7, <2>1, <4>1
      <4>2. CASE i = n
        <5>1. i + 1 = n + 1 /\ 1 \in 1 .. Len(w) + 1
          BY <1>6, <4>2
        <5>2. h[i + 1] = g[1]
          BY <1>7, <2>1, <5>1
        <5>3. QED BY <1>4, <1>5, <4>2, <5>2
      <4>3. QED BY <1>6, <2>2, <4>1, <4>2
    <3>5. QED BY <1>4, <3>1, <3>2, <3>3, <3>4
  <2>3. CASE i > n
    <3>1. PICK j \in 1 .. Len(w) : i = n + j
      <4>1. i - n \in 1 .. Len(w) /\ i = n + (i - n)
        BY <1>6, <2>3
      <4>2. QED BY <4>1
    <3>2. /\ j \in 1 .. Len(w) + 1 /\ j + 1 \in 1 .. Len(w) + 1
          /\ i + 1 = n + (j + 1) /\ i - n = j
      BY <1>6, <3>1
    <3>3. x[i] = w[j]
      <4>1. x[i] = IF i <= n THEN v[i] ELSE w[i - n]
        BY <1>3
      <4>2. ~(i <= n)
        BY <1>6, <2>3
      <4>3. x[i] = w[i - n]
        BY <4>1, <4>2
      <4>4. QED BY <3>2, <4>3
    <3>4. h[i] = g[j] /\ h[i + 1] = g[j + 1]
      BY <1>7, <2>1, <3>1, <3>2
    <3>5. QED BY <1>5, <3>1, <3>3, <3>4
  <2>4. QED BY <1>6, <2>2, <2>3
<1>10. Follows(t, A, x, C, h)
  BY <1>8, <1>9 DEF Follows
<1>11. Path(t, A, x, C)
  BY <1>3, <1>10 DEF Path
<1>12. QED
  BY <1>11 DEF x

\* The first operations of a path may be done, and what remains is a path from
\* what the thread has after them.
LEMMA PathSplit ==
    ASSUME NEW t, NEW A, NEW w, NEW B, NEW h, w \in Seq(Ops), Follows(t, A, w, B, h),
           NEW n \in 0 .. Len(w)
    PROVE  Path(t, h[n + 1], SubSeq(w, n + 1, Len(w)), B)
<1> DEFINE v == SubSeq(w, n + 1, Len(w))
           g == [i \in 1 .. Len(v) + 1 |-> h[i + n]]
<1>1. /\ v \in Seq(Ops) /\ Len(v) = Len(w) - n /\ Len(w) \in Nat
      /\ \A i \in 1 .. Len(v) : v[i] = w[i + n]
  OBVIOUS
<1>2. /\ h \in [1 .. Len(w) + 1 -> SUBSET Things] /\ h[Len(w) + 1] = B
      /\ \A i \in 1 .. Len(w) : May(t, w[i], h[i]) /\ h[i + 1] = After(w[i], h[i])
  BY DEF Follows
<1> HIDE DEF v
<1>3. g \in [1 .. Len(v) + 1 -> SUBSET Things]
  BY <1>1, <1>2
<1>4. g[1] = h[n + 1] /\ g[Len(v) + 1] = B
  BY <1>1, <1>2
<1>5. ASSUME NEW i \in 1 .. Len(v)
      PROVE  May(t, v[i], g[i]) /\ g[i + 1] = After(v[i], g[i])
  <2>1. i + n \in 1 .. Len(w) /\ g[i] = h[i + n] /\ g[i + 1] = h[(i + n) + 1]
    BY <1>1
  <2>2. QED BY <1>1, <1>2, <2>1
<1>6. Follows(t, h[n + 1], v, B, g)
  BY <1>3, <1>4, <1>5 DEF Follows
<1>7. Path(t, h[n + 1], v, B)
  BY <1>1, <1>6 DEF Path
<1>8. QED
  BY <1>7 DEF v

\* The next operation of a thread.
LEMMA PathHead ==
    ASSUME NEW t, NEW A, NEW w, NEW B, Path(t, A, w, B), w # <<>>
    PROVE  /\ Head(w) \in Ops /\ May(t, Head(w), A) /\ A \in SUBSET Things
           /\ Path(t, After(Head(w), A), Tail(w), B)
<1>1. PICK h : Follows(t, A, w, B, h)
  BY DEF Path
<1>2. w \in Seq(Ops) /\ 1 \in 1 .. Len(w) /\ Head(w) = w[1] /\ Tail(w) = SubSeq(w, 2, Len(w))
  <2>1. w \in Seq(Ops)
    BY DEF Path
  <2>2. Len(w) \in Nat /\ Len(w) # 0
    BY <2>1
  <2>3. Tail(w) = SubSeq(w, 2, Len(w))
    BY <2>1, TailIsSubSeq
  <2>4. QED BY <2>1, <2>2, <2>3
<1>3. /\ h[1] = A /\ A \in SUBSET Things
      /\ May(t, w[1], A) /\ h[1 + 1] = After(w[1], A)
  <2>1. 1 \in 1 .. Len(w) + 1
    BY <1>2
  <2>2. QED BY <1>1, <1>2, <2>1 DEF Follows
<1>4. Path(t, h[1 + 1], SubSeq(w, 1 + 1, Len(w)), B)
  BY <1>1, <1>2, PathSplit
<1>5. Path(t, h[1 + 1], Tail(w), B)
  <2>1. 1 + 1 = 2
    OBVIOUS
  <2>2. Tail(w) = SubSeq(w, 1 + 1, Len(w))
    BY <1>2, <2>1
  <2>3. QED BY <1>4, <2>2
<1>6. Head(w) \in Ops
  BY <1>2, <1>3 DEF May
<1>7. Path(t, After(Head(w), A), Tail(w), B)
  BY <1>2, <1>3, <1>5
<1>8. QED
  BY <1>2, <1>3, <1>6, <1>7

\* What the first n operations of w are about.
Released(w, n) == {w[i][2] : i \in 1 .. n}

\* A thread goes on behind the releases it starts with, without what it has
\* released.
LEMMA PathReleases ==
    ASSUME NEW t, NEW A, NEW w, NEW B, Path(t, A, w, B),
           NEW n \in 0 .. Len(w), \A i \in 1 .. n : w[i][1] = "unlock"
    PROVE  /\ Released(w, n) \subseteq A \cap Mutexes
           /\ Path(t, A \ Released(w, n), SubSeq(w, n + 1, Len(w)), B)
<1>1. PICK h : Follows(t, A, w, B, h)
  BY DEF Path
<1>2. w \in Seq(Ops) /\ Len(w) \in Nat
  BY DEF Path
<1>3. \A i \in 1 .. Len(w) : May(t, w[i], h[i]) /\ h[i + 1] = After(w[i], h[i])
  BY <1>1 DEF Follows
<1> DEFINE Gone(k) == Released(w, k)
           Bad == {k \in 0 .. n : h[k + 1] # A \ Gone(k)}
<1>4. ASSUME Bad # {} PROVE FALSE
  <2>1. PICK k \in Bad : \A j \in Bad : k <= j
    <3>1. Bad \subseteq Nat
      BY <1>2
    <3>2. QED BY <1>4, <3>1, NatMin
  <2>2. CASE k = 0
    <3>1. Gone(0) = {}
      BY DEF Released
    <3>2. h[0 + 1] = A
      BY <1>1 DEF Follows
    <3>3. QED BY <2>1, <2>2, <3>1, <3>2
  <2>3. CASE k # 0
    <3>1. k - 1 \in 0 .. n /\ k \in 1 .. n /\ k \in 1 .. Len(w) /\ k - 1 + 1 = k
      BY <1>2, <2>1, <2>3
    <3>2. k - 1 \notin Bad
      <4>1. ~(k <= k - 1)
        BY <3>1
      <4>2. QED BY <2>1, <4>1
    <3>3. h[k] = A \ Gone(k - 1)
      BY <3>1, <3>2
    <3>4. h[k + 1] = h[k] \ {w[k][2]}
      BY <1>3, <3>1 DEF After
    <3>5. Gone(k) = Gone(k - 1) \cup {w[k][2]}
      <4>1. 1 .. k = (1 .. k - 1) \cup {k}
        BY <3>1
      <4>2. QED BY <4>1 DEF Released
    <3>6. h[k + 1] = A \ Gone(k)
      BY <3>3, <3>4, <3>5
    <3>7. QED BY <2>1, <3>6
  <2>4. QED BY <2>2, <2>3
<1>5. \A k \in 0 .. n : h[k + 1] = A \ Gone(k)
  BY <1>4
<1>6. ASSUME NEW i \in 1 .. n PROVE w[i][2] \in A \cap Mutexes
  <2>1. i - 1 \in 0 .. n /\ i \in 1 .. Len(w) /\ i - 1 + 1 = i
    BY <1>2
  <2>2. h[i - 1 + 1] = A \ Gone(i - 1)
    BY <1>5, <2>1
  <2>3. w[i][2] \in h[i] \cap Mutexes
    BY <1>3, <2>1 DEF May
  <2>4. QED BY <2>1, <2>2, <2>3
<1>7. h[n + 1] = A \ Gone(n)
  BY <1>5, <1>2
<1>8. Path(t, h[n + 1], SubSeq(w, n + 1, Len(w)), B)
  BY <1>1, <1>2, PathSplit
<1>9. Released(w, n) \subseteq A \cap Mutexes
  BY <1>6 DEF Released
<1>10. QED
  BY <1>7, <1>8, <1>9

\* Whoever holds a mutex and ends without it releases it on the way.
LEMMA PathGivesBack ==
    ASSUME NEW t, NEW A, NEW w, Path(t, A, w, {}), NEW m \in A \cap Mutexes
    PROVE  Contains(w, Unlock(m))
<1>1. PICK h : Follows(t, A, w, {}, h)
  BY DEF Path
<1>2. w \in Seq(Ops) /\ Len(w) \in Nat
  BY DEF Path
<1>3. /\ h[1] = A /\ h[Len(w) + 1] = {}
      /\ \A i \in 1 .. Len(w) : May(t, w[i], h[i]) /\ h[i + 1] = After(w[i], h[i])
  BY <1>1 DEF Follows
<1> DEFINE Lost == {k \in 1 .. Len(w) + 1 : m \notin h[k]}
<1>4. PICK k \in Lost : \A j \in Lost : k <= j
  <2>1. Lost \subseteq Nat /\ Len(w) + 1 \in Lost
    BY <1>2, <1>3
  <2>2. QED BY <2>1, NatMin
<1>5. k - 1 \in 1 .. Len(w) /\ k - 1 + 1 = k
  <2>1. k # 1
    BY <1>3, <1>4
  <2>2. QED BY <1>2, <1>4, <2>1
<1> DEFINE o == w[k - 1]
           H == h[k - 1]
<1>6. m \in H
  BY <1>4, <1>5
<1>7. m \notin After(o, H) /\ May(t, o, H)
  BY <1>3, <1>4, <1>5
<1> HIDE DEF o, H
<1>8. o[1] = "unlock" /\ o[2] = m
  <2>1. m \notin Servers
    BY DEF Mutexes, Sockets, Socket, Servers
  <2>2. o[1] # "end"
    BY <1>6, <1>7 DEF May
  <2>3. QED
    BY <1>6, <1>7, <2>1, <2>2 DEF After
<1>9. o = Unlock(m)
  BY <1>7, <1>8 DEF May, Ops, Unlock
<1>10. QED
  BY <1>5, <1>9 DEF Contains, o

-----------------------------------------------------------------------------
(* The threads' programs are paths.                                        *)

\* t may do o when it has A, and has B then.
Does(t, o, A, B) == A \in SUBSET Things /\ May(t, o, A) /\ After(o, A) = B

\* One operation, said by Does.
LEMMA PathDoes ==
    ASSUME NEW t, NEW o, NEW A, NEW B, Does(t, o, A, B)
    PROVE  Path(t, A, <<o>>, B)
  BY PathOne DEF Does

\* A sequence of two is two sequences of one.
LEMMA PairCat ==
    ASSUME NEW S, NEW a \in S, NEW b \in S
    PROVE  <<a, b>> = <<a>> \o <<b>>
<1>1. <<a, b>> \in Seq(S) /\ <<a>> \in Seq(S) /\ <<b>> \in Seq(S)
  OBVIOUS
<1>2. Len(<<a, b>>) = 2 /\ Len(<<a>>) = 1 /\ Len(<<b>>) = 1
  OBVIOUS
<1>3. <<a>> \o <<b>> \in Seq(S) /\ Len(<<a>> \o <<b>>) = 2
  BY <1>1, <1>2
<1>4. (<<a>> \o <<b>>)[1] = a /\ (<<a>> \o <<b>>)[2] = b
  BY <1>1, <1>2
<1>5. \A i \in 1 .. 2 : i = 1 \/ i = 2
  OBVIOUS
<1>6. \A i \in 1 .. 2 : <<a, b>>[i] = (<<a>> \o <<b>>)[i]
  BY <1>4, <1>5
<1>7. QED
  BY <1>1, <1>2, <1>3, <1>6, SeqEqual

\* Sequences written out, of two to five operations.
LEMMA PathTwo ==
    ASSUME NEW t, NEW A, NEW B, NEW C, NEW a, NEW b,
           Does(t, a, A, B), Does(t, b, B, C)
    PROVE  Path(t, A, <<a, b>>, C)
<1>1. Path(t, A, <<a>>, B) /\ Path(t, B, <<b>>, C) /\ a \in Ops /\ b \in Ops
  BY PathOne DEF Does, May
<1>2. Path(t, A, <<a>> \o <<b>>, C)
  BY <1>1, PathCat
<1>3. <<a, b>> = <<a>> \o <<b>>
  BY <1>1, PairCat
<1>4. QED BY <1>2, <1>3

\* Three operations, likewise.
LEMMA PathThree ==
    ASSUME NEW t, NEW A, NEW B, NEW C, NEW D, NEW a, NEW b, NEW c,
           Does(t, a, A, B), Does(t, b, B, C), Does(t, c, C, D)
    PROVE  Path(t, A, <<a, b, c>>, D)
<1>1. Path(t, A, <<a>>, B) /\ Path(t, B, <<b, c>>, D)
  BY PathOne, PathTwo DEF Does
<1>2. Path(t, A, <<a>> \o <<b, c>>, D)
  BY <1>1, PathCat
<1>3. <<a, b, c>> = <<a>> \o <<b, c>>
  OBVIOUS
<1>4. QED BY <1>2, <1>3

\* Five operations, likewise.
LEMMA PathFive ==
    ASSUME NEW t, NEW A, NEW B, NEW C, NEW D, NEW E, NEW F,
           NEW a, NEW b, NEW c, NEW d, NEW e,
           Does(t, a, A, B), Does(t, b, B, C), Does(t, c, C, D), Does(t, d, D, E),
           Does(t, e, E, F)
    PROVE  Path(t, A, <<a, b, c, d, e>>, F)
<1>1. Path(t, A, <<a, b>>, C) /\ Path(t, C, <<c, d, e>>, F)
  BY PathTwo, PathThree
<1>2. Path(t, A, <<a, b>> \o <<c, d, e>>, F)
  BY <1>1, PathCat
<1>3. <<a, b, c, d, e>> = <<a, b>> \o <<c, d, e>>
  OBVIOUS
<1>4. QED BY <1>2, <1>3

\* Anything may be held while the state is used.
LEMMA UsesState ==
    ASSUME NEW t, NEW A \in SUBSET Things
    PROVE  Does(t, Use("state"), A, A) /\ Path(t, A, Emit, A) /\ Path(t, A, LeaseChanged, A)
<1>1. \A m \in A \cap Mutexes : Rank(m) < 7
  <2>1. ASSUME NEW m \in A \cap Mutexes PROVE Rank(m) < 7
    <3>1. m # "state"
      <4>1. "state" \notin Things
        BY DEF Things, Held, Threads, Servers
      <4>2. QED BY <4>1
    <3>2. QED BY <3>1 DEF Rank
  <2>2. QED BY <2>1
<1>2. Limit(Use("state")) = 7
  BY DEF Limit, Rank, Use
<1>3. "state" \in Mutexes /\ Use("state") \in Ops
  BY DEF Mutexes, Use, Ops, Verbs, Objects
<1>4. May(t, Use("state"), A)
  BY <1>1, <1>2, <1>3 DEF May, Use
<1>5. After(Use("state"), A) = A
  BY DEF After, Use
<1>6. Path(t, A, <<Use("state")>>, A)
  BY <1>4, <1>5, PathOne
<1>7. QED BY <1>4, <1>5, <1>6 DEF Does, Emit, LeaseChanged

\* A mutex that ranks above all that is held can be taken, used and released.
LEMMA TakesNext ==
    ASSUME NEW t, NEW A \in SUBSET Things, NEW m \in Held,
           \A k \in A \cap Mutexes : Rank(k) < Rank(m),
           t \in Servers => m # "session"
    PROVE  /\ Does(t, Lock(m), A, A \cup {m}) /\ Does(t, Unlock(m), A \cup {m}, A)
           /\ Does(t, Use(m), A, A)
<1>1. m \in Mutexes /\ m \notin A /\ A \cup {m} \in SUBSET Things
      /\ Rank(m) \in Nat
  BY DEF Held, Things, Rank
<1>2. Lock(m) \in Ops /\ Use(m) \in Ops /\ Unlock(m) \in Ops
  BY <1>1 DEF Lock, Use, Unlock, Ops, Verbs, Objects
<1>3. /\ Lock(m)[1] = "lock" /\ Lock(m)[2] = m
      /\ Use(m)[1] = "use" /\ Use(m)[2] = m
      /\ Unlock(m)[1] = "unlock" /\ Unlock(m)[2] = m
  BY DEF Lock, Use, Unlock
<1>4. May(t, Lock(m), A) /\ After(Lock(m), A) = A \cup {m}
  BY <1>2, <1>3 DEF May, After, Limit
<1>5. May(t, Use(m), A) /\ After(Use(m), A) = A
  BY <1>1, <1>2, <1>3 DEF May, After, Limit
<1>6. \A k \in (A \cup {m}) \cap Mutexes : Rank(k) < 8
  BY DEF Rank
<1>7. May(t, Unlock(m), A \cup {m})
  BY <1>1, <1>2, <1>3, <1>6 DEF May, Limit
<1>8. After(Unlock(m), A \cup {m}) = A
  BY <1>1, <1>3 DEF After
<1>9. QED
  BY <1>1, <1>4, <1>5, <1>7, <1>8 DEF Does

\* Operations that wait for nothing, and those that need something or nothing
\* to be held.
LEMMA SimpleOps ==
    ASSUME NEW t, NEW A \in SUBSET Things
    PROVE  /\ \A o \in Ops : o[1] \in {"receive", "close", "clear", "stopped", "exit"}
                              => Does(t, o, A, A)
           /\ A \cap Mutexes = {} => Does(t, End, A, {})
           /\ t \in {"main", "renderer"} =>
                 /\ Does(t, CallStop, {"session"}, {"session"})
                 /\ Does(t, Look, {"session"}, {"session"})
           /\ t = "main" /\ A = {} => Does(t, Join("renderer"), A, {"renderer"})
<1>1. \A m \in A \cap Mutexes : Rank(m) < 8
  BY DEF Rank
<1>2. ASSUME NEW o \in Ops, o[1] \in {"receive", "close", "clear", "stopped", "exit"}
      PROVE  Does(t, o, A, A)
  BY <1>1, <1>2 DEF Does, May, After, Limit
<1>3. ASSUME A \cap Mutexes = {} PROVE Does(t, End, A, {})
  <2>1. End \in Ops /\ End[1] = "end"
    BY DEF End, Ops, Verbs, Objects
  <2>2. QED BY <1>3, <2>1 DEF Does, May, After, Limit
<1>4. ASSUME t \in {"main", "renderer"}, NEW o \in {CallStop, Look}
      PROVE  Does(t, o, {"session"}, {"session"})
  <2>1. o \in Ops /\ o[1] \in {"stop", "look"}
    BY <1>4 DEF CallStop, Look, Ops, Verbs, Objects, Mutexes
  <2>2. {"session"} \in SUBSET Things
    BY DEF Things, Held, Mutexes
  <2>3. \A m \in {"session"} : Rank(m) < 8
    BY DEF Rank
  <2>4. t \notin Servers
    BY <1>4 DEF Servers
  <2>5. May(t, o, {"session"})
    BY <1>4, <2>1, <2>3, <2>4 DEF May, Limit
  <2>6. QED BY <2>1, <2>2, <2>5 DEF Does, After
<1>5. ASSUME t = "main", A = {} PROVE Does(t, Join("renderer"), A, {"renderer"})
  <2>1. Join("renderer") \in Ops /\ Join("renderer")[1] = "join"
        /\ Join("renderer")[2] = "renderer"
    BY DEF Join, Ops, Verbs, Objects, Threads
  <2>2. QED BY <1>5, <2>1 DEF Does, May, After
<1>6. QED
  BY <1>2, <1>3, <1>4, <1>5

\* A server may be waited for with no other mutex held than the session's.
LEMMA JoinsServer ==
    ASSUME NEW t \in {"main", "renderer"}, NEW A \in SUBSET Things,
           A \cap Mutexes \subseteq {"session"}, NEW s \in Servers
    PROVE  Does(t, Join(s), A, A \cup {s})
<1>1. Join(s) \in Ops /\ Join(s)[1] = "join" /\ Join(s)[2] = s
  BY DEF Join, Ops, Verbs, Objects, Threads
<1>2. s # "renderer" /\ t \notin Servers
  BY DEF Servers
<1>3. \A m \in A \cap Mutexes : Rank(m) < 2
  BY DEF Rank
<1>4. May(t, Join(s), A)
  BY <1>1, <1>2, <1>3 DEF May, Limit
<1>5. QED
  BY <1>1, <1>4 DEF Does, After

\* The mutexes and their order.
LEMMA MutexOrder ==
    /\ {"session", "leases", "bad", "warn"} \subseteq Held
    /\ Rank("session") = 1 /\ Rank("leases") = 3 /\ Rank("bad") = 4 /\ Rank("warn") = 5
    /\ \A s \in Servers : /\ Socket(s) \in Held /\ Socket(s) \in Mutexes
                           /\ Rank(Socket(s)) = 6 /\ Socket(s) # "session"
    /\ Held \subseteq Things /\ Held \subseteq Mutexes
  BY DEF Held, Mutexes, Things, Sockets, Socket, Rank

\* A listener: it holds its socket's mutex while it waits, and nothing else.
LEMMA ListeningPath ==
    ASSUME NEW s \in Servers, NEW w \in Listening(s)
    PROVE  Path(s, {}, w, {})
<1> DEFINE m == Socket(s)
<1>1. /\ m \in Held /\ {} \in SUBSET Things /\ {m} \in SUBSET Things
      /\ s \in Servers => m # "session"
  BY MutexOrder
<1> HIDE DEF m
<1>2. Does(s, Lock(m), {}, {} \cup {m}) /\ Does(s, Unlock(m), {} \cup {m}, {})
  BY <1>1, TakesNext
<1>3. Does(s, <<"receive", s>>, {m}, {m})
  <2>1. <<"receive", s>> \in Ops
    BY DEF Ops, Verbs, Objects, Threads
  <2>2. QED BY <1>1, <2>1, SimpleOps
<1>4. Path(s, {}, <<Lock(m), <<"receive", s>>, Unlock(m)>>, {})
  <2>1. {} \cup {m} = {m}
    OBVIOUS
  <2>2. QED BY <1>2, <1>3, <2>1, PathThree
<1>5. Path(s, {}, <<End>>, {})
  <2>1. Does(s, End, {}, {})
    BY SimpleOps
  <2>2. QED BY <2>1, PathDoes
<1>6. QED
  BY <1>4, <1>5 DEF Listening, m

\* The probes run with the table's mutexes held.
LEMMA ProbesPath ==
    ASSUME NEW w \in Probes \cup {<<>>}
    PROVE  Path("dhcp", {"leases", "bad"}, w, {"leases", "bad"})
<1> DEFINE A == {"leases", "bad"}
<1>1. A \in SUBSET Things /\ A \cup {"warn"} \in SUBSET Things
  BY MutexOrder
<1>2. Does("dhcp", Lock("warn"), A, A \cup {"warn"})
      /\ Does("dhcp", Unlock("warn"), A \cup {"warn"}, A)
  BY <1>1, MutexOrder, TakesNext
<1> HIDE DEF A
<1>3. /\ Path("dhcp", A, Emit, A) /\ Path("dhcp", A \cup {"warn"}, Emit, A \cup {"warn"})
      /\ Path("dhcp", A, <<>>, A)
  BY <1>1, UsesState, PathEmpty
<1>4. /\ Path("dhcp", A, <<Lock("warn")>>, A \cup {"warn"})
      /\ Path("dhcp", A \cup {"warn"}, <<Unlock("warn")>>, A)
  BY <1>2, PathDoes
<1>5. Path("dhcp", A, <<Lock("warn")>> \o Emit \o <<Unlock("warn")>> \o Emit, A)
  <2>1. Path("dhcp", A, <<Lock("warn")>> \o Emit, A \cup {"warn"})
    BY <1>3, <1>4, PathCat
  <2>2. Path("dhcp", A, <<Lock("warn")>> \o Emit \o <<Unlock("warn")>>, A)
    BY <1>4, <2>1, PathCat
  <2>3. QED BY <1>3, <2>2, PathCat
<1>6. QED
  BY <1>3, <1>5 DEF Probes, A

\* A DISCOVER: the table, then the declined addresses, then the answer.
LEMMA DiscoverPath ==
    ASSUME NEW p \in Probes \cup {<<>>}
    PROVE  Path("dhcp", {}, Discover(p), {})
<1> DEFINE L == {"leases"}
           A == {"leases", "bad"}
           start == <<Lock("leases"), Lock("bad")>>
           close == <<Unlock("bad"), Unlock("leases")>>
<1>1. /\ {} \in SUBSET Things /\ L \in SUBSET Things /\ A \in SUBSET Things
      /\ {} \cup {"leases"} = L /\ L \cup {"bad"} = A
  BY MutexOrder
<1>2. Does("dhcp", Lock("leases"), {}, L) /\ Does("dhcp", Unlock("leases"), L, {})
  BY <1>1, MutexOrder, TakesNext
<1>3. Does("dhcp", Lock("bad"), L, A) /\ Does("dhcp", Unlock("bad"), A, L)
  BY <1>1, MutexOrder, TakesNext
<1>4. Does("dhcp", Use("dhcp socket"), {}, {})
  <2>1. Socket("dhcp") = "dhcp socket" /\ "dhcp" \in Servers
    BY DEF Socket, Servers
  <2>2. QED BY <1>1, <2>1, MutexOrder, TakesNext
<1> HIDE DEF L, A
<1>5. Path("dhcp", {}, start, A) /\ Path("dhcp", A, close, {})
  BY <1>2, <1>3, PathTwo
<1> HIDE DEF start, close
<1>6. Path("dhcp", A, p, A)
  BY ProbesPath DEF A
<1>7. Path("dhcp", A, Emit, A) /\ Path("dhcp", A, LeaseChanged, A)
  BY <1>1, UsesState
<1>8. Path("dhcp", {}, SendReply, {})
  BY <1>4, PathDoes DEF SendReply
<1>9. Path("dhcp", {}, start \o p \o Emit \o LeaseChanged, A)
  <2>1. Path("dhcp", {}, start \o p, A)
    BY <1>5, <1>6, PathCat
  <2>2. Path("dhcp", {}, start \o p \o Emit, A)
    BY <1>7, <2>1, PathCat
  <2>3. QED BY <1>7, <2>2, PathCat
<1>10. Path("dhcp", {}, start \o p \o Emit \o LeaseChanged \o close \o SendReply, {})
  <2>1. Path("dhcp", {}, start \o p \o Emit \o LeaseChanged \o close, {})
    BY <1>5, <1>9, PathCat
  <2>2. QED BY <1>8, <2>1, PathCat
<1>11. QED
  BY <1>10 DEF Discover, start, close

\* The other messages.
LEMMA MessagesPath ==
    /\ Path("dhcp", {}, Release, {})
    /\ Path("dhcp", {}, Decline, {})
    /\ Path("dhcp", {}, Inform, {})
<1> DEFINE L == {"leases"}
<1>1. {} \in SUBSET Things /\ L \in SUBSET Things /\ {} \cup {"leases"} = L
  BY MutexOrder
<1>2. Does("dhcp", Lock("leases"), {}, L) /\ Does("dhcp", Unlock("leases"), L, {})
  BY <1>1, MutexOrder, TakesNext
<1>3. Does("dhcp", Use("bad"), L, L)
  <2>1. "bad" \in Held /\ \A k \in L \cap Mutexes : Rank(k) < Rank("bad")
    BY MutexOrder
  <2>2. QED BY <1>1, <2>1, TakesNext
<1>10. Does("dhcp", Use("bad"), {}, {})
  <2>1. "bad" \in Held
    BY MutexOrder
  <2>2. QED BY <1>1, <2>1, TakesNext
<1>4. Does("dhcp", Use("dhcp socket"), {}, {})
  <2>1. Socket("dhcp") = "dhcp socket" /\ "dhcp" \in Servers
    BY DEF Socket, Servers
  <2>2. QED BY <1>1, <2>1, MutexOrder, TakesNext
<1> HIDE DEF L
<1>5. Path("dhcp", {}, Emit, {}) /\ Path("dhcp", L, Emit, L)
  BY <1>1, UsesState
<1>6. Path("dhcp", {}, Release, {})
  <2>1. Path("dhcp", {}, <<Lock("leases")>>, L)
    BY <1>2, PathDoes
  <2>2. Path("dhcp", L, <<Use("bad"), Unlock("leases")>>, {})
    BY <1>2, <1>3, PathTwo
  <2>3. Path("dhcp", {}, Emit \o <<Lock("leases")>>, L)
    BY <1>5, <2>1, PathCat
  <2>4. Path("dhcp", {}, Emit \o <<Lock("leases")>> \o Emit, L)
    BY <1>5, <2>3, PathCat
  <2>5. Path("dhcp", {}, Emit \o <<Lock("leases")>> \o Emit
                         \o <<Use("bad"), Unlock("leases")>>, {})
    BY <2>2, <2>4, PathCat
  <2>6. QED BY <2>5 DEF Release
<1>7. Path("dhcp", {}, Decline, {})
  <2>1. Path("dhcp", {}, <<Use("bad")>>, {})
    BY <1>10, PathDoes
  <2>2. QED BY <1>5, <2>1, PathCat DEF Decline
<1>8. Path("dhcp", {}, Inform, {})
  <2>1. Path("dhcp", {}, <<Use("dhcp socket")>>, {})
    BY <1>4, PathDoes
  <2>2. QED BY <1>5, <2>1, PathCat DEF Inform, SendReply
<1>9. QED
  BY <1>6, <1>7, <1>8

\* Whatever a listener does with a packet, it starts and ends with nothing.
LEMMA HandlingPath ==
    ASSUME NEW s \in Servers, NEW w \in Handling(s)
    PROVE  Path(s, {}, w, {})
<1>1. \A t : Path(t, {}, <<>>, {})
  BY PathEmpty
<1>2. CASE s = "tftp"
  BY <1>1, <1>2 DEF Handling
<1>3. CASE s = "dhcp"
  <2>1. \/ w \in {<<>>, Release, Decline, Inform}
        \/ \E p \in Probes \cup {<<>>} : w = Discover(p)
    BY <1>3 DEF Handling
  <2>2. QED BY <1>1, <1>3, <2>1, DiscoverPath, MessagesPath
<1>4. QED
  BY <1>2, <1>3 DEF Servers

\* stop of a server, while its caller holds the session, and maybe knows already
\* that the other server has ended.
LEMMA ShutDownPath ==
    ASSUME NEW t \in {"main", "renderer"}, NEW s \in Servers, NEW A \in SUBSET Things,
           A \cap Mutexes = {"session"}
    PROVE  Path(t, A, ShutDown(s), A \cup {s})
<1> DEFINE m == Socket(s)
           B == A \cup {m}
<1>1. /\ m \in Held /\ Rank(m) = 6 /\ m # "session" /\ B \in SUBSET Things
      /\ \A k \in A \cap Mutexes : Rank(k) < 6
  BY MutexOrder
<1>2. Does(t, Lock(m), A, B) /\ Does(t, Unlock(m), B, A)
  BY <1>1, TakesNext
<1> HIDE DEF m, B
<1>3. <<"clear", s>> \in Ops /\ <<"close", s>> \in Ops
  BY DEF Ops, Verbs, Objects, Threads
<1>4. Does(t, <<"clear", s>>, A, A) /\ Does(t, <<"close", s>>, B, B)
  BY <1>1, <1>3, SimpleOps
<1>5. Does(t, Join(s), A, A \cup {s})
  BY JoinsServer
<1>6. Path(t, A, <<<<"clear", s>>, Lock(m), <<"close", s>>, Unlock(m), Join(s)>>,
           A \cup {s})
  BY <1>2, <1>4, <1>5, PathFive
<1>7. QED
  BY <1>6 DEF ShutDown, m

\* A stop comes back with the session, and waits for both servers before it
\* restores the adapter.
LEMMA StopPath ==
    ASSUME NEW t \in {"main", "renderer"}
    PROVE  Path(t, {"session"}, Stop, {"session"})
<1> DEFINE A == {"session"}
           B == A \cup {"tftp"}
           C == B \cup {"dhcp"}
           save == <<Use("leases")>>
           back == <<<<"restore", "adapter">>>>
<1>1. /\ A \in SUBSET Things /\ B \in SUBSET Things /\ C \in SUBSET Things
      /\ A \cap Mutexes = {"session"} /\ B \cap Mutexes = {"session"}
      /\ C \cap Mutexes = {"session"} /\ Servers \subseteq C /\ C \ Servers = A
  BY DEF Things, Held, Mutexes, Threads, Servers, Sockets, Socket
<1>2. Path(t, A, save, A)
  <2>1. \A k \in A \cap Mutexes : Rank(k) < Rank("leases")
    BY MutexOrder
  <2>2. Does(t, Use("leases"), A, A)
    BY <1>1, <2>1, MutexOrder, TakesNext
  <2>3. QED BY <2>2, PathDoes
<1>3. Path(t, A, ShutDown("tftp"), B) /\ Path(t, B, ShutDown("dhcp"), C)
  BY <1>1, ShutDownPath DEF Servers
<1>4. Path(t, C, back, A)
  <2> DEFINE o == <<"restore", "adapter">>
  <2>1. o \in Ops /\ o[1] = "restore"
    BY DEF Ops, Verbs, Objects
  <2>2. \A m \in C \cap Mutexes : Rank(m) < 8
    BY DEF Rank
  <2> HIDE DEF o
  <2>3. May(t, o, C) /\ After(o, C) = A
    BY <1>1, <2>1, <2>2 DEF May, After, Limit
  <2>4. Path(t, C, <<o>>, A)
    BY <1>1, <2>3, PathOne
  <2>5. QED BY <2>4 DEF o
<1>5. Path(t, A, Ending, A)
  <2>1. Does(t, Use("state"), A, A) /\ Path(t, A, Emit, A)
    BY <1>1, UsesState
  <2>2. Does(t, <<"stopped", "state">>, A, A)
    <3>1. <<"stopped", "state">> \in Ops
      BY DEF Ops, Verbs, Objects, Mutexes
    <3>2. QED BY <1>1, <3>1, SimpleOps
  <2>3. Path(t, A, <<Use("state"), <<"stopped", "state">>>>, A)
    BY <2>1, <2>2, PathTwo
  <2>4. QED BY <2>1, <2>3, PathCat DEF Ending
<1> HIDE DEF A, B, C, save, back
<1>6. Path(t, A, save \o ShutDown("tftp") \o ShutDown("dhcp"), C)
  <2>1. Path(t, A, save \o ShutDown("tftp"), B)
    BY <1>2, <1>3, PathCat
  <2>2. QED BY <1>3, <2>1, PathCat
<1>7. Path(t, A, save \o ShutDown("tftp") \o ShutDown("dhcp") \o back \o Ending, A)
  <2>1. Path(t, A, save \o ShutDown("tftp") \o ShutDown("dhcp") \o back, A)
    BY <1>4, <1>6, PathCat
  <2>2. QED BY <1>5, <2>1, PathCat
<1>8. Path(t, A, Stop, A)
  BY <1>5, <1>7 DEF Stop, save, back
<1>9. QED
  BY <1>8 DEF A

\* The session is taken by a thread that holds nothing, and released.
LEMMA SessionMutex ==
    ASSUME NEW t \in {"main", "renderer"}
    PROVE  /\ {} \in SUBSET Things /\ {"session"} \in SUBSET Things
           /\ Does(t, Lock("session"), {}, {"session"})
           /\ Does(t, Unlock("session"), {"session"}, {})
           /\ Does(t, Look, {"session"}, {"session"})
           /\ Does(t, CallStop, {"session"}, {"session"})
           /\ Path(t, {"session"}, Emit, {"session"})
           /\ Does(t, Use("state"), {"session"}, {"session"})
<1>1. {} \in SUBSET Things /\ {"session"} \in SUBSET Things /\ t \notin Servers
      /\ "session" \in Held
  BY MutexOrder DEF Servers
<1>2. /\ Does(t, Lock("session"), {}, {} \cup {"session"})
      /\ Does(t, Unlock("session"), {} \cup {"session"}, {})
  BY <1>1, TakesNext
<1>3. {} \cup {"session"} = {"session"}
  OBVIOUS
<1>4. /\ Does(t, Look, {"session"}, {"session"})
      /\ Does(t, CallStop, {"session"}, {"session"})
  BY <1>1, SimpleOps
<1>5. Path(t, {"session"}, Emit, {"session"}) /\ Does(t, Use("state"), {"session"}, {"session"})
  BY <1>1, UsesState
<1>6. QED
  BY <1>1, <1>2, <1>3, <1>4, <1>5

\* A turn of the renderer, and what it does on Ctrl+C.
LEMMA RenderPath ==
    ASSUME NEW w \in Turns \cup OnCtrlC
    PROVE  Path("renderer", {}, w, {})
<1> DEFINE t == "renderer"
           A == {"session"}
           start == <<Lock("session"), Look>>
           draw == <<Look, Unlock("session"), Lock("session"), Use("state"),
                     Unlock("session")>>
           exit == <<"exit", "process">>
           quit == <<CallStop, Unlock("session"), exit>>
<1>1. /\ Does(t, Lock("session"), {}, A) /\ Does(t, Unlock("session"), A, {})
      /\ Does(t, Look, A, A) /\ Does(t, CallStop, A, A) /\ Does(t, Use("state"), A, A)
      /\ Path(t, A, Emit, A)
  BY SessionMutex
<1>2. Does(t, exit, {}, {})
  <2>1. exit \in Ops
    BY DEF Ops, Verbs, Objects
  <2>2. QED BY <2>1, SimpleOps
<1> HIDE DEF t, A, exit
<1>3. Path(t, {}, start, A) /\ Path(t, A, draw, {}) /\ Path(t, A, quit, {})
  <2>1. Path(t, {}, start, A)
    BY <1>1, PathTwo
  <2>2. Path(t, A, draw, {})
    BY <1>1, PathFive
  <2>3. Path(t, A, quit, {})
    BY <1>1, <1>2, PathThree
  <2>4. QED BY <2>1, <2>2, <2>3
<1>4. Path(t, {}, <<Lock("session")>>, A) /\ Path(t, A, <<CallStop>>, A)
  BY <1>1, PathDoes
<1> HIDE DEF start, draw, quit
<1>5. ASSUME NEW tick \in {Emit, Emit \o <<CallStop>>}
      PROVE  Path(t, {}, start \o tick \o draw, {})
  <2>1. Path(t, A, Emit \o <<CallStop>>, A)
    BY <1>1, <1>4, PathCat
  <2>2. Path(t, A, tick, A)
    BY <1>1, <2>1
  <2>3. Path(t, {}, start \o tick, A)
    BY <1>3, <2>2, PathCat
  <2>4. QED BY <1>3, <2>3, PathCat
<1>6. Path(t, {}, <<Lock("session")>> \o Emit \o quit, {})
  <2>1. Path(t, {}, <<Lock("session")>> \o Emit, A)
    BY <1>1, <1>4, PathCat
  <2>2. QED BY <1>3, <2>1, PathCat
<1>7. CASE w \in Turns
  <2>1. PICK tick \in {Emit, Emit \o <<CallStop>>} : w = start \o tick \o draw
    BY <1>7 DEF Turns, start, draw
  <2>2. QED BY <1>5, <2>1 DEF t
<1>8. CASE w \in OnCtrlC
  BY <1>6, <1>8 DEF OnCtrlC, quit, exit, t
<1>9. QED
  BY <1>7, <1>8

\* The main thread waits for the renderer with nothing held; it does so when it
\* leaves, like the renderer without that.
LEMMA MainPath ==
    /\ \A w \in Inputs \cup {<<Join("renderer"), End>>} : Path("main", {}, w, {})
    /\ \A t \in {"main", "renderer"} : Path(t, {"session"}, Leaves(t), {})
<1>1. {} \in SUBSET Things /\ {"renderer"} \in SUBSET Things
      /\ {"renderer"} \cap Mutexes = {}
  BY DEF Things, Threads, Mutexes, Sockets, Socket
<1>2. /\ Does("main", Join("renderer"), {}, {"renderer"})
      /\ Does("main", End, {"renderer"}, {})
      /\ \A t : Does(t, End, {}, {})
  BY <1>1, SimpleOps
<1> DEFINE A == {"session"}
<1>3. \A t \in {"main", "renderer"} :
         /\ Does(t, Lock("session"), {}, A) /\ Does(t, Unlock("session"), A, {})
         /\ Does(t, Look, A, A) /\ Does(t, CallStop, A, A)
  BY SessionMutex
<1> HIDE DEF A
<1>4. Path("main", {}, <<Lock("session"), Look, Unlock("session")>>, {})
  BY <1>3, PathThree
<1>5. Path("main", {}, <<Lock("session"), CallStop, Unlock("session"), Join("renderer"),
                        End>>, {})
  BY <1>2, <1>3, PathFive
<1>6. Path("main", {}, <<Join("renderer"), End>>, {})
  BY <1>2, PathTwo
<1>7. Path("main", A, <<Unlock("session"), Join("renderer"), End>>, {})
  BY <1>2, <1>3, PathThree
<1>8. Path("renderer", A, <<Unlock("session"), End>>, {})
  BY <1>2, <1>3, PathTwo
<1>9. \A t \in {"main", "renderer"} : Path(t, A, Leaves(t), {})
  BY <1>7, <1>8 DEF Leaves
<1>10. QED
  BY <1>4, <1>5, <1>6, <1>9 DEF Inputs, A

-----------------------------------------------------------------------------
(* The invariant.                                                          *)

\* The variables' types, the contents of the programs apart.
Basics ==
    /\ owner \in [Mutexes -> Threads \cup {"none"}]
    /\ todo \in [Threads -> Seq(Ops)]
    /\ alive \subseteq Threads
    /\ serving \subseteq Servers /\ open \subseteq Servers
    /\ {taken, running, ctrlC} \subseteq BOOLEAN

\* With A, which are the mutexes t holds and threads that have ended, t can do
\* what it has to, and is left with nothing.
Fits(t, A) ==
    /\ A \in SUBSET Things /\ Path(t, A, todo[t], {})
    /\ A \cap Mutexes = {m \in Mutexes : owner[m] = t}
    /\ A \cap alive = {}

\* The inductive invariant.
Inv == Basics /\ \A t \in Threads : \E A : Fits(t, A)

\* What the next operation of a thread says of it.
LEMMA NextOp ==
    ASSUME Inv, NEW t \in Threads, Op(t) # "none"
    PROVE  \E A : /\ Fits(t, A) /\ todo[t] # <<>>
                  /\ Op(t) = Head(todo[t])[1] /\ On(t) = Head(todo[t])[2]
                  /\ May(t, Head(todo[t]), A)
                  /\ After(Head(todo[t]), A) \in SUBSET Things
                  /\ Path(t, After(Head(todo[t]), A), Rest(t), {})
<1>1. PICK A : Fits(t, A)
  BY DEF Inv
<1>2. todo[t] # <<>> /\ Op(t) = Head(todo[t])[1]
  BY DEF Op
<1>3. Path(t, A, todo[t], {}) /\ A \in SUBSET Things
  BY <1>1 DEF Fits
<1> DEFINE w == todo[t]
<1> HIDE DEF w
<1>4. May(t, Head(w), A) /\ Path(t, After(Head(w), A), Tail(w), {})
  BY <1>2, <1>3, PathHead DEF w
<1>5. After(Head(w), A) \in SUBSET Things
  BY <1>3, <1>4, AfterThings
<1>6. QED
  BY <1>1, <1>2, <1>4, <1>5 DEF On, Rest, w

\* A step of t that does the first n operations of w, releases all.
Resumes(t, w, held, n) ==
    /\ \A i \in 1 .. n : w[i][1] = "unlock"
    /\ todo' = [todo EXCEPT ![t] = SubSeq(w, n + 1, Len(w))]
    /\ owner' = [m \in Mutexes |-> IF m \in Released(w, n) THEN "none" ELSE held[m]]

\* Goes takes the releases off the front of what t has to do.
LEMMA GoesFacts ==
    ASSUME NEW t, NEW w \in Seq(Ops), NEW held, Goes(t, w, held)
    PROVE  \E n \in 0 .. Len(w) : Resumes(t, w, held, n)
<1> DEFINE I == {i \in 1 .. Len(w) : w[i][1] # "unlock"}
           next == IF I # {} THEN Min(I) ELSE 0
           n == IF next = 0 THEN Len(w) ELSE next - 1
<1>1. SelectInSeq(w, LAMBDA o : o[1] # "unlock") = next
  BY DEF SelectInSeq
<1>2. /\ todo' = [todo EXCEPT ![t] = SubSeq(w, n + 1, Len(w))]
      /\ owner' = [m \in Mutexes |-> IF m \in Released(w, n) THEN "none" ELSE held[m]]
  BY <1>1 DEF Goes, Released
<1>3. Len(w) \in Nat /\ I \subseteq Nat
  OBVIOUS
<1>4. n \in 0 .. Len(w) /\ \A i \in 1 .. n : i \in 1 .. Len(w) /\ i \notin I
  <2>1. CASE I = {}
    BY <1>3, <2>1
  <2>2. CASE I # {}
    <3>1. Min(I) \in I /\ \A y \in I : Min(I) <= y
      BY <1>3, <2>2, NatMin
    <3>2. n = Min(I) - 1 /\ Min(I) \in 1 .. Len(w)
      BY <1>3, <2>2, <3>1
    <3> HIDE DEF n, I
    <3>3. QED BY <1>3, <3>1, <3>2
  <2>3. QED BY <2>1, <2>2
<1> HIDE DEF n
<1>5. \A i \in 1 .. n : w[i][1] = "unlock"
  BY <1>4
<1>6. QED
  BY <1>2, <1>4, <1>5 DEF Resumes

\* When t goes on with a path that starts from what it holds, everyone has a path.
LEMMA GoesKeeps ==
    ASSUME Inv, NEW t \in Threads, NEW A \in SUBSET Things, NEW w, Path(t, A, w, {}),
           NEW held \in [Mutexes -> Threads \cup {"none"}],
           A \cap Mutexes = {m \in Mutexes : held[m] = t},
           \A u \in Threads \ {t}, m \in Mutexes : held[m] = u <=> owner[m] = u,
           alive' \subseteq alive, A \cap alive' = {},
           Goes(t, w, held)
    PROVE  /\ owner' \in [Mutexes -> Threads \cup {"none"}]
           /\ todo' \in [Threads -> Seq(Ops)]
           /\ \A u \in Threads : \E X : Fits(u, X)'
<1>1. w \in Seq(Ops)
  BY DEF Path
<1>2. PICK n \in 0 .. Len(w) : Resumes(t, w, held, n)
  BY <1>1, GoesFacts
<1> DEFINE G == Released(w, n)
           v == SubSeq(w, n + 1, Len(w))
<1>3. G \subseteq A \cap Mutexes /\ Path(t, A \ G, v, {})
  BY <1>2, PathReleases DEF Released, Resumes
<1>4. v \in Seq(Ops) /\ todo \in [Threads -> Seq(Ops)]
  BY <1>3 DEF Path, Inv, Basics
<1>5. /\ todo' = [todo EXCEPT ![t] = v]
      /\ owner' = [m \in Mutexes |-> IF m \in G THEN "none" ELSE held[m]]
  BY <1>2 DEF Resumes
<1> HIDE DEF G, v
<1>6. todo' \in [Threads -> Seq(Ops)] /\ todo'[t] = v
      /\ \A u \in Threads \ {t} : todo'[u] = todo[u]
  BY <1>4, <1>5
<1>7. owner' \in [Mutexes -> Threads \cup {"none"}]
  BY <1>5
<1>8. "none" \notin Threads
  BY DEF Threads, Servers
<1>9. Fits(t, A \ G)'
  <2>1. \A m \in Mutexes : owner'[m] = t <=> m \notin G /\ held[m] = t
    BY <1>5, <1>8
  <2>2. (A \ G) \cap Mutexes = {m \in Mutexes : owner'[m] = t}
    BY <2>1
  <2>3. QED BY <1>3, <1>6, <2>2 DEF Fits
<1>10. ASSUME NEW u \in Threads \ {t} PROVE \E X : Fits(u, X)'
  <2>1. PICK X : Fits(u, X)
    BY DEF Inv
  <2>2. \A m \in Mutexes : owner'[m] = u <=> owner[m] = u
    BY <1>3, <1>5, <1>8
  <2>3. {m \in Mutexes : owner'[m] = u} = {m \in Mutexes : owner[m] = u}
    BY <2>2
  <2>4. Fits(u, X)'
    BY <1>6, <2>1, <2>3 DEF Fits
  <2>5. QED BY <2>4
<1>11. QED
  BY <1>6, <1>7, <1>9, <1>10

\* Mutexes are not threads.
LEMMA Disjoint ==
    /\ Mutexes \cap Threads = {} /\ "none" \notin Threads
    /\ "session" \in Mutexes /\ Servers \subseteq Threads
  BY DEF Mutexes, Sockets, Socket, Threads, Servers

\* With nothing to do, and nothing held, a thread may go on with any program.
LEMMA StartsKeeps ==
    ASSUME Inv, NEW t \in Threads, NEW A, Fits(t, A), A \cap Mutexes = {},
           NEW w, Path(t, {}, w, {}), alive' \subseteq alive, Goes(t, w, owner)
    PROVE  /\ owner' \in [Mutexes -> Threads \cup {"none"}]
           /\ todo' \in [Threads -> Seq(Ops)]
           /\ \A u \in Threads : \E X : Fits(u, X)'
<1>1. owner \in [Mutexes -> Threads \cup {"none"}]
  BY DEF Inv, Basics
<1>2. {} \in SUBSET Things /\ {} \cap alive' = {}
  OBVIOUS
<1>3. {} \cap Mutexes = {m \in Mutexes : owner[m] = t}
  BY DEF Fits
<1>4. QED
  BY <1>1, <1>2, <1>3, GoesKeeps

\* A thread that goes on with what remains, from what it has then.
LEMMA RestKeeps ==
    ASSUME Inv, NEW t \in Threads, NEW A, Fits(t, A), NEW B \in SUBSET Things,
           B \cap Mutexes = A \cap Mutexes, B \cap alive = {},
           NEW w, Path(t, B, w, {}), alive' \subseteq alive, Goes(t, w, owner)
    PROVE  /\ owner' \in [Mutexes -> Threads \cup {"none"}]
           /\ todo' \in [Threads -> Seq(Ops)]
           /\ \A u \in Threads : \E X : Fits(u, X)'
<1>1. owner \in [Mutexes -> Threads \cup {"none"}]
  BY DEF Inv, Basics
<1>2. B \cap Mutexes = {m \in Mutexes : owner[m] = t} /\ B \cap alive' = {}
  BY DEF Fits
<1>3. QED
  BY <1>1, <1>2, GoesKeeps

\* The program starts with nothing held and nothing to do.
LEMMA InitInv == Init => Inv
<1> SUFFICES ASSUME Init PROVE Inv
  OBVIOUS
<1>1. /\ owner = [m \in Mutexes |-> "none"] /\ todo = [t \in Threads |-> <<>>]
      /\ alive = Threads /\ serving = Servers /\ open = Servers
      /\ taken = FALSE /\ running = TRUE /\ ctrlC = FALSE
  BY DEF Init
<1>2. <<>> \in Seq(Ops)
  OBVIOUS
<1>3. Basics
  BY <1>1, <1>2 DEF Basics
<1>4. ASSUME NEW t \in Threads PROVE Fits(t, {})
  <2>1. Path(t, {}, todo[t], {})
    BY <1>1, PathEmpty
  <2>2. \A m \in Mutexes : owner[m] # t
    BY <1>1, Disjoint
  <2>3. QED BY <2>1, <2>2 DEF Fits
<1>5. QED
  BY <1>3, <1>4 DEF Inv

\* Taking a mutex that is free.
LEMMA AcquireKeeps ==
    ASSUME Inv, NEW t \in Threads, Acquire(t)
    PROVE  Inv'
<1>1. PICK A : /\ Fits(t, A) /\ Op(t) = Head(todo[t])[1] /\ On(t) = Head(todo[t])[2]
               /\ May(t, Head(todo[t]), A) /\ After(Head(todo[t]), A) \in SUBSET Things
               /\ Path(t, After(Head(todo[t]), A), Rest(t), {})
  BY NextOp DEF Acquire
<1> DEFINE m == On(t)
           B == A \cup {m}
           held == [owner EXCEPT ![m] = t]
<1>2. /\ Op(t) = "lock" /\ owner[m] = "none" /\ Goes(t, Rest(t), held)
      /\ UNCHANGED <<alive, serving, open, taken, running, ctrlC>>
  BY DEF Acquire, Free, flags
<1>3. m \in Held /\ After(Head(todo[t]), A) = B
  BY <1>1, <1>2 DEF May, After
<1>4. m \in Mutexes /\ m \notin alive
  BY <1>3, Disjoint DEF Held, Inv, Basics
<1>5. B \in SUBSET Things /\ Path(t, B, Rest(t), {})
  BY <1>1, <1>3
<1>6. owner \in [Mutexes -> Threads \cup {"none"}]
  BY DEF Inv, Basics
<1> HIDE DEF m
<1>7. /\ held \in [Mutexes -> Threads \cup {"none"}]
      /\ held[m] = t /\ \A k \in Mutexes \ {m} : held[k] = owner[k]
  BY <1>4, <1>6
<1> HIDE DEF held
<1>8. B \cap Mutexes = {k \in Mutexes : held[k] = t}
  <2>1. A \cap Mutexes = {k \in Mutexes : owner[k] = t}
    BY <1>1 DEF Fits
  <2>2. \A k \in Mutexes : held[k] = t <=> k \in B
    BY <1>4, <1>7, <2>1
  <2>3. QED BY <2>2
<1>9. \A u \in Threads \ {t}, k \in Mutexes : held[k] = u <=> owner[k] = u
  BY <1>2, <1>7, Disjoint
<1>10. B \cap alive' = {} /\ alive' \subseteq alive
  BY <1>1, <1>2, <1>4 DEF Fits
<1> HIDE DEF B
<1>11. /\ owner' \in [Mutexes -> Threads \cup {"none"}]
       /\ todo' \in [Threads -> Seq(Ops)]
       /\ \A u \in Threads : \E X : Fits(u, X)'
  BY <1>2, <1>5, <1>7, <1>8, <1>9, <1>10, GoesKeeps
<1>12. QED
  BY <1>2, <1>11 DEF Inv, Basics

\* Operations after which a thread has what it had.
LEMMA PlainKeeps ==
    ASSUME Inv, NEW t \in Threads, Access(t) \/ Clear(t) \/ Close(t) \/ Stopped(t)
    PROVE  Inv'
<1>1. Op(t) \in {"use", "clear", "close", "stopped"} /\ Goes(t, Rest(t), owner)
      /\ alive' = alive
  BY DEF Access, Clear, Close, Stopped, flags
<1>2. PICK A : /\ Fits(t, A) /\ Op(t) = Head(todo[t])[1]
               /\ Path(t, After(Head(todo[t]), A), Rest(t), {})
  BY <1>1, NextOp
<1>3. Path(t, A, Rest(t), {})
  BY <1>1, <1>2 DEF After
<1>4. A \in SUBSET Things /\ A \cap alive = {}
  BY <1>2 DEF Fits
<1>5. /\ owner' \in [Mutexes -> Threads \cup {"none"}]
      /\ todo' \in [Threads -> Seq(Ops)]
      /\ \A u \in Threads : \E X : Fits(u, X)'
  BY <1>1, <1>2, <1>3, <1>4, RestKeeps
<1>6. /\ serving' \subseteq Servers /\ open' \subseteq Servers
      /\ {taken', running', ctrlC'} \subseteq BOOLEAN
  BY DEF Inv, Basics, Access, Clear, Close, Stopped, flags
<1>7. QED
  BY <1>1, <1>5, <1>6 DEF Inv, Basics

\* A listener has a packet, or no socket any more.
LEMMA ReceiveKeeps ==
    ASSUME Inv, NEW s \in Threads, Receive(s)
    PROVE  Inv'
<1>1. Op(s) = "receive" /\ UNCHANGED <<alive, serving, open, taken, running, ctrlC>>
  BY DEF Receive, flags
<1>2. PICK A : /\ Fits(s, A) /\ Op(s) = Head(todo[s])[1]
               /\ Path(s, After(Head(todo[s]), A), Rest(s), {})
  BY <1>1, NextOp
<1>3. Path(s, A, Rest(s), {})
  BY <1>1, <1>2 DEF After
<1>4. A \in SUBSET Things /\ A \cap alive = {} /\ alive' \subseteq alive
  BY <1>1, <1>2 DEF Fits
<1>5. \E w : Path(s, {}, w, {}) /\ Goes(s, Rest(s) \o w, owner)
  <2>1. CASE s \in open
    <3> DEFINE o == <<"heed", s>>
    <3>1. s \in Servers
      BY <2>1 DEF Inv, Basics
    <3>2. PICK w \in Handling(s) : Goes(s, Rest(s) \o <<o>> \o w, owner)
      BY <2>1 DEF Receive
    <3>3. o \in Ops /\ o[1] = "heed"
      BY <3>1 DEF Ops, Verbs, Objects, Threads
    <3> HIDE DEF o
    <3>4. May(s, o, {}) /\ After(o, {}) = {}
      BY <3>3 DEF May, After
    <3>5. Path(s, {}, <<o>>, {}) /\ Path(s, {}, w, {})
      BY <3>1, <3>4, PathOne, HandlingPath
    <3>6. Path(s, {}, <<o>> \o w, {})
      BY <3>5, PathCat
    <3>7. (Rest(s) \o <<o>>) \o w = Rest(s) \o (<<o>> \o w)
      <4>1. Rest(s) \in Seq(Ops) /\ <<o>> \in Seq(Ops) /\ w \in Seq(Ops)
        BY <1>3, <3>5 DEF Path
      <4>2. QED BY <4>1, ConcatAssociative
    <3>8. QED BY <3>2, <3>6, <3>7
  <2>2. CASE s \notin open
    <3>1. Goes(s, Rest(s) \o <<End>>, owner)
      BY <2>2 DEF Receive
    <3>2. Path(s, {}, <<End>>, {})
      BY SimpleOps, PathDoes
    <3>3. QED BY <3>1, <3>2
  <2>3. QED BY <2>1, <2>2
<1>6. PICK w : Path(s, {}, w, {}) /\ Goes(s, Rest(s) \o w, owner)
  BY <1>5
<1>7. Path(s, A, Rest(s) \o w, {})
  BY <1>3, <1>6, PathCat
<1>8. /\ owner' \in [Mutexes -> Threads \cup {"none"}]
      /\ todo' \in [Threads -> Seq(Ops)]
      /\ \A u \in Threads : \E X : Fits(u, X)'
  BY <1>2, <1>4, <1>6, <1>7, RestKeeps
<1>9. QED
  BY <1>1, <1>8 DEF Inv, Basics

\* A listener looks at its flag with nothing held; a thread ends so, too.
LEMMA HeedEndsKeep ==
    ASSUME Inv, NEW t \in Threads, Heed(t) \/ Ends(t)
    PROVE  Inv'
<1>1. /\ Op(t) \in {"heed", "end"} /\ alive' \subseteq alive
      /\ UNCHANGED <<serving, open, taken, running, ctrlC>>
  BY DEF Heed, Ends, flags
<1>2. PICK A : /\ Fits(t, A) /\ Op(t) = Head(todo[t])[1] /\ May(t, Head(todo[t]), A)
               /\ Path(t, After(Head(todo[t]), A), Rest(t), {})
  BY <1>1, NextOp
<1>3. A \cap Mutexes = {} /\ A \in SUBSET Things /\ A \cap alive = {}
  BY <1>1, <1>2 DEF May, Fits
<1>4. Path(t, {}, <<>>, {})
  BY PathEmpty
<1>5. CASE Op(t) = "heed" /\ Goes(t, Rest(t), owner)
  <2>1. Path(t, A, Rest(t), {})
    BY <1>2, <1>5 DEF After
  <2>2. /\ owner' \in [Mutexes -> Threads \cup {"none"}]
        /\ todo' \in [Threads -> Seq(Ops)]
        /\ \A u \in Threads : \E X : Fits(u, X)'
    BY <1>1, <1>2, <1>3, <1>5, <2>1, RestKeeps
  <2>3. QED BY <1>1, <2>2 DEF Inv, Basics
<1>6. CASE Goes(t, <<>>, owner)
  <2>1. /\ owner' \in [Mutexes -> Threads \cup {"none"}]
        /\ todo' \in [Threads -> Seq(Ops)]
        /\ \A u \in Threads : \E X : Fits(u, X)'
    BY <1>1, <1>2, <1>3, <1>4, <1>6, StartsKeeps
  <2>2. QED BY <1>1, <2>1 DEF Inv, Basics
<1>7. QED
  BY <1>5, <1>6 DEF Heed, Ends

\* A thread that has ended is not waited for any longer.
LEMMA JoinsKeeps ==
    ASSUME Inv, NEW t \in Threads, Joins(t)
    PROVE  Inv'
<1>1. /\ Op(t) = "join" /\ On(t) \notin alive /\ Goes(t, Rest(t), owner)
      /\ UNCHANGED <<alive, serving, open, taken, running, ctrlC>>
  BY DEF Joins, flags
<1>2. PICK A : /\ Fits(t, A) /\ Op(t) = Head(todo[t])[1] /\ On(t) = Head(todo[t])[2]
               /\ May(t, Head(todo[t]), A) /\ After(Head(todo[t]), A) \in SUBSET Things
               /\ Path(t, After(Head(todo[t]), A), Rest(t), {})
  BY <1>1, NextOp
<1> DEFINE B == A \cup {On(t)}
<1>3. B \in SUBSET Things /\ Path(t, B, Rest(t), {})
  BY <1>1, <1>2 DEF After
<1>4. On(t) \in Threads
  BY <1>1, <1>2 DEF May, Threads
<1>5. B \cap Mutexes = A \cap Mutexes /\ B \cap alive = {} /\ alive' \subseteq alive
  BY <1>1, <1>2, <1>4, Disjoint DEF Fits
<1> HIDE DEF B
<1>6. /\ owner' \in [Mutexes -> Threads \cup {"none"}]
      /\ todo' \in [Threads -> Seq(Ops)]
      /\ \A u \in Threads : \E X : Fits(u, X)'
  BY <1>1, <1>2, <1>3, <1>5, RestKeeps
<1>7. QED
  BY <1>1, <1>6 DEF Inv, Basics

\* A stop begins, or the adapter is restored, or a thread looks at the state: all
\* with the session held.
LEMMA StopsKeep ==
    ASSUME Inv, NEW t \in Threads, Stops(t) \/ Restores(t) \/ Looks(t)
    PROVE  Inv'
<1>1. /\ Op(t) \in {"stop", "restore", "look"}
      /\ alive' = alive /\ serving' = serving /\ open' = open
      /\ running' = running /\ ctrlC' = ctrlC /\ taken' \in {taken, TRUE}
  BY DEF Stops, Restores, Looks, flags
<1>2. PICK A : /\ Fits(t, A) /\ Op(t) = Head(todo[t])[1] /\ May(t, Head(todo[t]), A)
               /\ Path(t, After(Head(todo[t]), A), Rest(t), {})
  BY <1>1, NextOp
<1>3. A \in SUBSET Things /\ A \cap alive = {} /\ alive' \subseteq alive
  BY <1>1, <1>2 DEF Fits
<1>4. Op(t) \in {"stop", "look"} => t \in {"main", "renderer"} /\ A = {"session"}
  BY <1>2 DEF May
<1>5. Op(t) \in {"stop", "look"} => Path(t, A, Rest(t), {})
  BY <1>2 DEF After
<1>6. \E B, w : /\ B \in SUBSET Things /\ B \cap Mutexes = A \cap Mutexes
                /\ B \cap alive = {} /\ Path(t, B, w, {}) /\ Goes(t, w, owner)
  <2>1. CASE Stops(t)
    <3>1. Op(t) = "stop" /\ Goes(t, Stop \o Rest(t), owner)
      BY <2>1 DEF Stops
    <3>2. Path(t, A, Stop, A)
      BY <1>4, <3>1, StopPath
    <3>3. Path(t, A, Stop \o Rest(t), {})
      BY <1>5, <3>1, <3>2, PathCat
    <3>4. QED BY <1>3, <3>1, <3>3
  <2>2. CASE Restores(t)
    <3>1. Op(t) = "restore" /\ Goes(t, Rest(t), owner)
      BY <2>2 DEF Restores
    <3>2. Path(t, A \ Servers, Rest(t), {})
      BY <1>2, <3>1 DEF After
    <3>3. (A \ Servers) \cap Mutexes = A \cap Mutexes
      BY Disjoint
    <3>4. A \ Servers \in SUBSET Things /\ (A \ Servers) \cap alive = {}
      BY <1>3
    <3>5. QED BY <3>1, <3>2, <3>3, <3>4
  <2>3. CASE Looks(t)
    <3>1. Op(t) = "look" /\ Goes(t, IF running THEN Rest(t) ELSE Leaves(t), owner)
      BY <2>3 DEF Looks
    <3>2. Path(t, A, Leaves(t), {}) /\ Path(t, A, Rest(t), {})
      BY <1>4, <1>5, <3>1, MainPath
    <3>3. Path(t, A, IF running THEN Rest(t) ELSE Leaves(t), {})
      BY <3>2
    <3>4. QED BY <1>3, <3>1, <3>3
  <2>4. QED BY <2>1, <2>2, <2>3
<1>7. /\ owner' \in [Mutexes -> Threads \cup {"none"}]
      /\ todo' \in [Threads -> Seq(Ops)]
      /\ \A u \in Threads : \E X : Fits(u, X)'
  BY <1>2, <1>3, <1>6, RestKeeps
<1>8. QED
  BY <1>1, <1>7 DEF Inv, Basics

\* After the end of the process nothing is left to do.
LEMMA ExitsKeeps ==
    ASSUME Inv, NEW t \in Threads, Exits(t)
    PROVE  Inv'
<1>1. /\ alive' = {} /\ todo' = [u \in Threads |-> <<>>]
      /\ owner' = [m \in Mutexes |-> "none"]
      /\ UNCHANGED <<serving, open, taken, running, ctrlC>>
  BY DEF Exits, flags
<1>2. <<>> \in Seq(Ops)
  OBVIOUS
<1>3. Basics'
  BY <1>1, <1>2 DEF Inv, Basics
<1>4. ASSUME NEW u \in Threads PROVE Fits(u, {})'
  <2>1. Path(u, {}, todo'[u], {})
    BY <1>1, PathEmpty
  <2>2. \A m \in Mutexes : owner'[m] # u
    BY <1>1, Disjoint
  <2>3. QED BY <2>1, <2>2 DEF Fits
<1>5. QED
  BY <1>3, <1>4 DEF Inv

\* The head of a loop.
LEMMA TurnKeeps ==
    ASSUME Inv, NEW t \in Threads, NEW options, Turn(t, options),
           \A w \in options : Path(t, {}, w, {})
    PROVE  Inv'
<1>1. /\ todo[t] = <<>> /\ \E w \in options : Goes(t, w, owner)
      /\ UNCHANGED <<alive, serving, open, taken, running, ctrlC>>
  BY DEF Turn, flags
<1>2. PICK A : Fits(t, A)
  BY DEF Inv
<1>3. A \cap Mutexes = {}
  <2>1. ASSUME NEW m \in A \cap Mutexes PROVE FALSE
    <3>1. Contains(<<>>, Unlock(m))
      BY <1>1, <1>2, PathGivesBack DEF Fits
    <3>2. QED BY <3>1 DEF Contains
  <2>2. QED BY <2>1
<1>4. /\ owner' \in [Mutexes -> Threads \cup {"none"}]
      /\ todo' \in [Threads -> Seq(Ops)]
      /\ \A u \in Threads : \E X : Fits(u, X)'
  BY <1>1, <1>2, <1>3, StartsKeeps
<1>5. QED
  BY <1>1, <1>4 DEF Inv, Basics

\* Every step keeps the invariant.
LEMMA NextInv == Inv /\ [Next]_vars => Inv'
<1> SUFFICES ASSUME Inv, [Next]_vars PROVE Inv'
  OBVIOUS
<1>1. ASSUME NEW t \in Threads, Step(t) PROVE Inv'
  BY <1>1, AcquireKeeps, PlainKeeps, ReceiveKeeps, HeedEndsKeep, JoinsKeeps, StopsKeep,
     ExitsKeeps DEF Step
<1>2. ASSUME NEW s \in Servers, Listen(s) PROVE Inv'
  BY <1>2, ListeningPath, TurnKeeps, Disjoint DEF Listen
<1>3. CASE Render
  <2>1. "renderer" \in Threads
    BY DEF Threads
  <2>2. \A w \in IF ctrlC THEN OnCtrlC ELSE Turns : Path("renderer", {}, w, {})
    BY RenderPath
  <2>3. QED BY <1>3, <2>1, <2>2, TurnKeeps DEF Render
<1>4. CASE Input
  <2>1. "main" \in Threads
    BY DEF Threads
  <2>2. \A w \in IF ctrlC THEN {<<Join("renderer"), End>>} ELSE Inputs :
           Path("main", {}, w, {})
    BY MainPath
  <2>3. QED BY <1>4, <2>1, <2>2, TurnKeeps DEF Input
<1>5. CASE CtrlC
  <2>1. ctrlC' = TRUE /\ UNCHANGED <<owner, todo, alive, serving, open, taken, running>>
    BY <1>5 DEF CtrlC, flags
  <2>2. QED BY <2>1 DEF Inv, Basics, Fits
<1>6. CASE UNCHANGED vars
  <2>1. UNCHANGED <<owner, todo, alive, serving, open, taken, running, ctrlC>>
    BY <1>6 DEF vars, flags
  <2>2. QED BY <2>1 DEF Inv, Basics, Fits
<1>7. QED
  BY <1>1, <1>2, <1>3, <1>4, <1>5, <1>6 DEF Next

-----------------------------------------------------------------------------
(* The properties.                                                         *)

\* The invariant holds throughout.
LEMMA Invariance == Spec => []Inv
  BY InitInv, NextInv, PTL DEF Spec

\* The types, and that a thread that holds a mutex is always going to release it:
\* no early return, no callback and no end of a loop leaves one locked.
THEOREM MutexesReleased == Spec => []TypeOK
<1>1. Inv => TypeOK
  <2> SUFFICES ASSUME Inv PROVE TypeOK
    OBVIOUS
  <2>1. ASSUME NEW m \in Mutexes, owner[m] # "none"
        PROVE  Contains(todo[owner[m]], Unlock(m))
    <3>1. owner[m] \in Threads
      BY <2>1 DEF Inv, Basics
    <3>2. PICK A : Fits(owner[m], A)
      BY <3>1 DEF Inv
    <3>3. m \in A \cap Mutexes
      BY <2>1, <3>2 DEF Fits
    <3>4. QED BY <3>2, <3>3, PathGivesBack DEF Fits
  <2>2. QED BY <2>1 DEF TypeOK, Inv, Basics
<1>2. QED BY <1>1, Invariance, PTL

\* When the adapter gets its old configuration back, both servers' threads have
\* ended, however the stop came about.
THEOREM RestoresWhenQuiet == Spec => []RestoredWhenQuiet
<1>1. Inv => RestoredWhenQuiet
  <2> SUFFICES ASSUME Inv, NEW t \in Threads, Op(t) = "restore"
               PROVE  alive \cap Servers = {}
    BY DEF RestoredWhenQuiet
  <2>1. PICK A : Fits(t, A) /\ Op(t) = Head(todo[t])[1] /\ May(t, Head(todo[t]), A)
    BY NextOp
  <2>2. Servers \subseteq A /\ A \cap alive = {}
    BY <2>1 DEF May, Fits
  <2>3. QED BY <2>2
<1>2. QED BY <1>1, Invariance, PTL

\* What the operation a thread is at waits for.
Waited(t) == Limit(Head(todo[t]))

\* Whoever waits for a thread that waits itself, waits for what ranks lower.
LEMMA WaitsUpwards ==
    ASSUME Inv, NEW t \in Threads, NEW u \in Threads, NEW v \in Threads,
           WaitsFor(t, u), WaitsFor(u, v)
    PROVE  Waited(t) \in 0 .. 7 /\ Waited(u) \in 0 .. 7 /\ Waited(t) < Waited(u)
<1>1. ASSUME NEW x \in Threads, NEW y \in Threads, WaitsFor(x, y)
      PROVE  \E A : /\ Fits(x, A) /\ May(x, Head(todo[x]), A)
                    /\ Op(x) = Head(todo[x])[1] /\ On(x) = Head(todo[x])[2]
                    /\ \/ Op(x) \in {"lock", "use"} /\ owner[On(x)] = y /\ On(x) \in Mutexes
                       \/ Op(x) = "join" /\ On(x) = y
                    /\ Waited(x) \in 0 .. 7
  <2>1. Op(x) # "none"
    BY <1>1 DEF WaitsFor
  <2>2. PICK A : /\ Fits(x, A) /\ May(x, Head(todo[x]), A)
                 /\ Op(x) = Head(todo[x])[1] /\ On(x) = Head(todo[x])[2]
    BY <2>1, NextOp
  <2>3. owner["state"] # y
    <3>1. PICK B : Fits(y, B)
      BY DEF Inv
    <3>2. "state" \notin B /\ "state" \in Mutexes
      <4>1. "state" \notin Things /\ "state" \in Mutexes
        BY DEF Things, Held, Threads, Servers, Mutexes
      <4>2. QED BY <3>1, <4>1 DEF Fits
    <3>3. QED BY <3>1, <3>2 DEF Fits
  <2>4. \/ Op(x) \in {"lock", "use"} /\ owner[On(x)] = y
        \/ Op(x) = "join" /\ On(x) = y
    BY <1>1, <2>3 DEF WaitsFor
  <2>5. Op(x) \in {"lock", "use"} => On(x) \in Mutexes
    BY <2>2 DEF May, Held
  <2>6. Waited(x) \in 0 .. 7
    BY <2>2, <2>4 DEF Waited, Limit, Rank
  <2>7. QED BY <2>2, <2>4, <2>5, <2>6
<1>2. PICK B : /\ Fits(u, B) /\ May(u, Head(todo[u]), B)
               /\ Op(u) = Head(todo[u])[1] /\ On(u) = Head(todo[u])[2]
               /\ Op(u) \in {"lock", "use"} \/ Op(u) = "join"
               /\ Waited(u) \in 0 .. 7
  BY <1>1
<1>3. /\ Op(t) = Head(todo[t])[1] /\ On(t) = Head(todo[t])[2]
      /\ \/ Op(t) \in {"lock", "use"} /\ owner[On(t)] = u /\ On(t) \in Mutexes
         \/ Op(t) = "join" /\ On(t) = u /\ u \in Servers \cup {"renderer"}
      /\ Waited(t) \in 0 .. 7
  <2>1. PICK A : /\ May(t, Head(todo[t]), A)
                 /\ Op(t) = Head(todo[t])[1] /\ On(t) = Head(todo[t])[2]
                 /\ \/ Op(t) \in {"lock", "use"} /\ owner[On(t)] = u /\ On(t) \in Mutexes
                    \/ Op(t) = "join" /\ On(t) = u
                 /\ Waited(t) \in 0 .. 7
    BY <1>1
  <2>2. Op(t) = "join" => On(t) \in Servers \cup {"renderer"}
    BY <2>1 DEF May
  <2>3. QED BY <2>1, <2>2
<1>4. CASE Op(t) \in {"lock", "use"} /\ owner[On(t)] = u /\ On(t) \in Mutexes
  <2>1. On(t) \in B \cap Mutexes
    BY <1>2, <1>4 DEF Fits
  <2>2. Rank(On(t)) < Waited(u)
    BY <1>2, <2>1 DEF May, Waited
  <2>3. Waited(t) = Rank(On(t))
    BY <1>3, <1>4 DEF Waited, Limit
  <2>4. QED BY <1>2, <1>3, <2>2, <2>3
<1>5. CASE Op(t) = "join" /\ u = "renderer" /\ On(t) = u
  <2>1. Waited(t) = 0
    BY <1>3, <1>5 DEF Waited, Limit
  <2>2. Op(u) = "join" => On(u) # "renderer"
    BY <1>2, <1>5 DEF May, Servers
  <2>3. Waited(u) # 0
    BY <1>2, <2>2 DEF Waited, Limit, Rank
  <2>4. QED BY <1>2, <1>3, <2>1, <2>3
<1>6. CASE Op(t) = "join" /\ u \in Servers /\ On(t) = u
  <2>1. Waited(t) = 2
    BY <1>3, <1>6 DEF Waited, Limit, Servers
  <2>2. Op(u) \in {"lock", "use"} /\ On(u) # "session"
    BY <1>2, <1>6 DEF May, Servers
  <2>3. Waited(u) > 2
    BY <1>2, <2>2 DEF Waited, Limit, Rank
  <2>4. QED BY <1>2, <1>3, <2>1, <2>3
<1>7. QED
  BY <1>2, <1>3, <1>4, <1>5, <1>6

\* No threads ever wait for each other in a circle: of those in one, the one that
\* waits for the highest would wait for one that waits for something higher.
THEOREM NeverDeadlocked == Spec => []NoDeadlock
<1>1. Inv => NoDeadlock
  <2> SUFFICES ASSUME Inv, NEW S \in SUBSET Threads, S # {},
                      \A t \in S : \E u \in S : WaitsFor(t, u)
               PROVE  FALSE
    BY DEF NoDeadlock
  <2> DEFINE T == {7 - Waited(t) : t \in S}
  <2>1. ASSUME NEW t \in S PROVE Waited(t) \in 0 .. 7
    <3>1. PICK u \in S : WaitsFor(t, u)
      OBVIOUS
    <3>2. PICK v \in S : WaitsFor(u, v)
      OBVIOUS
    <3>3. QED BY <3>1, <3>2, WaitsUpwards
  <2>2. T \subseteq Nat /\ T # {}
    BY <2>1
  <2>3. PICK t \in S : \A y \in T : 7 - Waited(t) <= y
    <3>1. Min(T) \in T /\ \A y \in T : Min(T) <= y
      BY <2>2, NatMin
    <3>2. QED BY <3>1
  <2>4. PICK u \in S : WaitsFor(t, u)
    OBVIOUS
  <2>5. PICK v \in S : WaitsFor(u, v)
    OBVIOUS
  <2>6. Waited(t) \in 0 .. 7 /\ Waited(u) \in 0 .. 7 /\ Waited(t) < Waited(u)
    BY <2>4, <2>5, WaitsUpwards
  <2>7. 7 - Waited(t) <= 7 - Waited(u)
    BY <2>3
  <2>8. QED BY <2>6, <2>7
<1>2. QED BY <1>1, Invariance, PTL

=============================================================================
