---------------------------- MODULE LocksProofs ----------------------------
(***************************************************************************)
(* Theorems about Locks, for any number of clients.                        *)
(*                                                                         *)
(* The argument is the order of the locks: a thread that holds a lock asks *)
(* only for locks of a higher rank, and whoever is waited for holds the    *)
(* lock in question or waits itself for one who does.  So among the        *)
(* threads of a group the one that waits for the lock of the highest rank  *)
(* waits for somebody outside.                                             *)
(***************************************************************************)
EXTENDS Locks, SequenceTheorems, TLAPS

Calls == [do : {"R", "W", "U"}, lock : LockNames]

-----------------------------------------------------------------------------
(* The order of the locks. *)

Rank == [l \in LockNames |->
           CASE l = "hosts" -> 1 [] l = "sched" -> 2 [] l = "alock" -> 3
             [] l = "apps" -> 4 [] OTHER -> 5]

Acquires(s, i) == s[i].do # "U"

\* The locks that a thread with rest s holds: it will release them, and has
\* not still to take them.
Held(s) ==
  {l \in LockNames : /\ \E i \in 1..Len(s) : s[i] = Do("U", l)
                     /\ \A i \in 1..Len(s) : Acquires(s, i) => s[i].lock # l}

\* The rest of a section in which locks are taken in the order of their ranks
\* and released after all have been taken.
Nested(s) ==
  /\ \A i, j \in 1..Len(s) : i < j /\ Acquires(s, j) =>
       Acquires(s, i) /\ Rank[s[i].lock] < Rank[s[j].lock]
  /\ \A i, j \in 1..Len(s) : i < j /\ ~Acquires(s, i) => s[i].lock # s[j].lock
  /\ \A i \in 1..Len(s) : Acquires(s, i) => \E j \in 1..Len(s) : s[j] = Do("U", s[i].lock)
  /\ \A l \in Held(s) : \A i \in 1..Len(s) : Acquires(s, i) => Rank[l] < Rank[s[i].lock]

VarTypes ==
  /\ todo \in [Threads -> Seq(Calls)]
  /\ pending \in [LockNames -> Threads \cup {Nobody}]
  /\ readers \in [LockNames -> SUBSET Threads]
  /\ rwait \in [LockNames -> SUBSET Threads]
  /\ \A l \in LockNames : pending[l] = Nobody => rwait[l] = {}

\* Who waits, who holds a lock, and who has announced himself.
WaitersOK == \A l \in LockNames : \A t \in rwait[l] : At(t, "R", l)
ReadersHold(l) == \A t \in readers[l] : l \in Held(todo[t])
WriterHolds(l) ==
  pending[l] # Nobody =>
    /\ At(pending[l], "W", l) \/ l \in Held(todo[pending[l]])
    /\ pending[l] \notin readers[l]
    /\ l \in Held(todo[pending[l]]) => readers[l] = {}
HoldersKnown(l) == \A t \in Threads : l \in Held(todo[t]) => t \in readers[l] \/ pending[l] = t
HoldersOK == \A l \in LockNames : ReadersHold(l) /\ WriterHolds(l) /\ HoldersKnown(l)
OrderOK == \A t \in Threads : Nested(todo[t])

IInv == VarTypes /\ WaitersOK /\ HoldersOK /\ OrderOK

-----------------------------------------------------------------------------
(* Lock sections. *)

\* The calls of a section around body.
LEMMA Around ==
  ASSUME NEW how \in {"R", "W"}, NEW l \in LockNames, NEW body \in Seq(Calls)
  PROVE  LET s == <<Do(how, l)>> \o body \o <<Do("U", l)>>
         IN /\ s \in Seq(Calls) /\ Len(s) = Len(body) + 2
            /\ s[1] = Do(how, l) /\ s[Len(s)] = Do("U", l)
            /\ \A i \in 1..Len(body) : s[i + 1] = body[i]
<1>1. Do(how, l) \in Calls /\ Do("U", l) \in Calls
  BY DEF Do, Calls
<1> DEFINE a == <<Do(how, l)>>
           b == <<Do("U", l)>>
           c == a \o body
<1>2. /\ a \in Seq(Calls) /\ Len(a) = 1 /\ a[1] = Do(how, l)
      /\ b \in Seq(Calls) /\ Len(b) = 1 /\ b[1] = Do("U", l)
  BY <1>1
<1> HIDE DEF a, b
<1>3. /\ c \in Seq(Calls) /\ Len(c) = Len(body) + 1
      /\ c[1] = Do(how, l) /\ \A i \in 1..Len(body) : c[i + 1] = body[i]
  <2>1. c \in Seq(Calls) /\ Len(c) = Len(a) + Len(body)
    BY <1>2, ConcatProperties
  <2>2. \A i \in 1..(Len(a) + Len(body)) : c[i] = IF i <= Len(a) THEN a[i] ELSE body[i - Len(a)]
    BY <1>2, ConcatProperties
  <2>3. Len(body) \in Nat
    BY LenProperties
  <2> HIDE DEF c
  <2> QED
    BY <1>2, <2>1, <2>2, <2>3
<1> HIDE DEF c
<1> DEFINE s == c \o b
<1>4. /\ s \in Seq(Calls) /\ Len(s) = Len(body) + 2
      /\ s[1] = Do(how, l) /\ s[Len(s)] = Do("U", l)
      /\ \A i \in 1..Len(body) : s[i + 1] = body[i]
  <2>1. s \in Seq(Calls) /\ Len(s) = Len(body) + 2
    BY SMTT(30), <1>2, <1>3, ConcatProperties, LenProperties
  <2>2. \A i \in 1..(Len(c) + Len(b)) : s[i] = IF i <= Len(c) THEN c[i] ELSE b[i - Len(c)]
    BY <1>2, <1>3, ConcatProperties
  <2>3. Len(body) \in Nat
    BY LenProperties
  <2> HIDE DEF s
  <2> QED
    BY <1>2, <1>3, <2>1, <2>2, <2>3
<1> QED
  BY <1>4 DEF a, b, c

\* A section that holds nothing around it, and asks only for locks of rank k on.
Good(s, k) ==
  /\ s \in Seq(Calls) /\ Nested(s) /\ Held(s) = {}
  /\ \A i \in 1..Len(s) : Rank[s[i].lock] >= k

LEMMA RanksAreNat == \A l \in LockNames : Rank[l] \in 1..5
BY DEF Rank, LockNames

\* Taking a lock around a section that asks for higher ones.
LEMMA Wrapped ==
  ASSUME NEW how \in {"R", "W"}, NEW l \in LockNames, NEW body, NEW k \in Nat, NEW j \in Nat,
         Good(body, k), Rank[l] < k, j <= Rank[l]
  PROVE  Good(<<Do(how, l)>> \o body \o <<Do("U", l)>>, j)
<1> DEFINE s == <<Do(how, l)>> \o body \o <<Do("U", l)>>
           n == Len(body)
<1>1. /\ s \in Seq(Calls) /\ Len(s) = n + 2 /\ n \in Nat
      /\ s[1] = Do(how, l) /\ s[n + 2] = Do("U", l)
      /\ \A i \in 1..n : s[i + 1] = body[i] /\ body[i] \in Calls
  BY Around, LenProperties DEF Good
<1>2. \A i \in 1..n : Rank[body[i].lock] >= k /\ body[i].lock # l /\ Rank[body[i].lock] \in Nat
  BY SMTT(30), <1>1, RanksAreNat DEF Good, Calls
<1> HIDE DEF s
<1>3. Nested(body) /\ Held(body) = {} /\ n = Len(body)
  BY DEF Good
<1> HIDE DEF n
<1>4. \A i \in 1..(n + 2) : i = 1 \/ i = n + 2 \/ (i - 1 \in 1..n /\ s[i] = body[i - 1])
  BY <1>1
<1>a. /\ Acquires(s, 1) /\ ~Acquires(s, n + 2) /\ s[1].lock = l /\ s[n + 2].lock = l
      /\ \A i \in 1..(n + 2) : i # 1 /\ i # n + 2 =>
           /\ i - 1 \in 1..n /\ s[i] = body[i - 1] /\ (Acquires(s, i) <=> Acquires(body, i - 1))
  BY <1>1, <1>4 DEF Acquires, Do
<1>5. Rank[l] \in Nat
  BY RanksAreNat
<1>6. Held(s) = {}
  <2> SUFFICES ASSUME NEW h \in Held(s)
               PROVE  FALSE
    OBVIOUS
  <2>1. PICK x \in 1..Len(s) : s[x] = Do("U", h)
    BY DEF Held
  <2>2. h # l
    BY <1>1, <1>a DEF Held
  <2>3. x # 1 /\ x # n + 2
    BY <1>1, <1>a, <2>1, <2>2 DEF Acquires, Do
  <2>4. x - 1 \in 1..n /\ body[x - 1] = Do("U", h)
    BY <1>1, <1>a, <2>1, <2>3
  <2>5. ASSUME NEW y \in 1..n, Acquires(body, y)
        PROVE  body[y].lock # h
    <3>1. y + 1 \in 1..Len(s) /\ s[y + 1] = body[y]
      BY <1>1
    <3> QED
      BY <2>5, <3>1 DEF Held, Acquires
  <2>6. h \in Held(body)
    BY <1>3, <2>4, <2>5 DEF Held
  <2> QED
    BY <1>3, <2>6
<1>7. Nested(s)
  <2>1. ASSUME NEW x \in 1..Len(s), NEW y \in 1..Len(s), x < y, Acquires(s, y)
        PROVE  Acquires(s, x) /\ Rank[s[x].lock] < Rank[s[y].lock]
    <3>1. y # 1 /\ y # n + 2 /\ x # n + 2
      BY <1>1, <1>a, <2>1
    <3>2. CASE x = 1
      BY <1>1, <1>2, <1>5, <1>a, <2>1, <3>1, <3>2
    <3>3. CASE x # 1
      <4>1. x - 1 \in 1..n /\ y - 1 \in 1..n /\ x - 1 < y - 1 /\ Acquires(body, y - 1)
        BY <1>1, <1>a, <2>1, <3>1, <3>3
      <4>2. Acquires(body, x - 1) /\ Rank[body[x - 1].lock] < Rank[body[y - 1].lock]
        BY <1>3, <4>1 DEF Nested
      <4> QED
        BY <1>1, <1>a, <2>1, <3>1, <3>3, <4>2
    <3> QED
      BY <3>2, <3>3
  <2>2. ASSUME NEW x \in 1..Len(s), NEW y \in 1..Len(s), x < y, ~Acquires(s, x)
        PROVE  s[x].lock # s[y].lock
    <3>1. x # 1 /\ x # n + 2 /\ y # 1
      BY <1>1, <1>a, <2>2
    <3>2. CASE y = n + 2
      BY <1>1, <1>2, <1>a, <2>2, <3>1, <3>2
    <3>3. CASE y # n + 2
      <4>1. x - 1 \in 1..n /\ y - 1 \in 1..n /\ x - 1 < y - 1 /\ ~Acquires(body, x - 1)
        BY <1>1, <1>a, <2>2, <3>1, <3>3
      <4>2. body[x - 1].lock # body[y - 1].lock
        BY <1>3, <4>1 DEF Nested
      <4> QED
        BY <1>1, <1>a, <2>2, <3>1, <3>3, <4>2
    <3> QED
      BY <3>2, <3>3
  <2>3. ASSUME NEW x \in 1..Len(s), Acquires(s, x)
        PROVE  \E y \in 1..Len(s) : s[y] = Do("U", s[x].lock)
    <3>1. CASE x = 1
      BY <1>1, <1>a, <3>1
    <3>2. CASE x # 1
      <4>1. x - 1 \in 1..n /\ Acquires(body, x - 1) /\ s[x] = body[x - 1]
        BY <1>1, <1>a, <2>3, <3>2
      <4>2. PICK y \in 1..n : body[y] = Do("U", body[x - 1].lock)
        BY <1>3, <4>1 DEF Nested
      <4>3. y + 1 \in 1..Len(s) /\ s[y + 1] = Do("U", s[x].lock)
        BY <1>1, <4>1, <4>2
      <4> QED
        BY <4>3
    <3> QED
      BY <3>1, <3>2
  <2> QED
    BY <1>6, <2>1, <2>2, <2>3 DEF Nested
<1>8. \A i \in 1..Len(s) : Rank[s[i].lock] >= j
  BY SMTT(30), <1>1, <1>2, <1>5, <1>a
<1> QED
  BY <1>1, <1>6, <1>7, <1>8 DEF Good, s

LEMMA LockRanks ==
  /\ {"alock", "cLock", "hosts", "sched", "apps", "app", "gd"} = LockNames
  /\ Rank["hosts"] = 1 /\ Rank["sched"] = 2 /\ Rank["alock"] = 3 /\ Rank["apps"] = 4
  /\ Rank["cLock"] = 5 /\ Rank["app"] = 5 /\ Rank["gd"] = 5
BY DEF Rank, LockNames

\* One lock.
LEMMA OneLock ==
  ASSUME NEW l \in LockNames
  PROVE  Good(R(l), Rank[l]) /\ Good(W(l), Rank[l])
<1> DEFINE e == << >>
           r == Rank[l]
<1>1. Good(e, 6)
  <2>1. e \in Seq(Calls)
    OBVIOUS
  <2> QED
    BY <2>1 DEF Good, Nested, Held
<1>2. r < 6 /\ r \in Nat /\ 6 \in Nat /\ r <= r /\ r = Rank[l]
  BY RanksAreNat
<1> HIDE DEF e, r
<1>3. \A how \in {"R", "W"} : Good(<<Do(how, l)>> \o e \o <<Do("U", l)>>, r)
  <2> SUFFICES ASSUME NEW how \in {"R", "W"}
               PROVE  Good(<<Do(how, l)>> \o e \o <<Do("U", l)>>, r)
    OBVIOUS
  <2> QED
    BY <1>1, <1>2, Wrapped
<1> QED
  BY <1>3 DEF R, W, Reading, Writing, e, r

LEMMA GoodBelow ==
  ASSUME NEW s, NEW k \in Nat, NEW j \in Nat, j <= k, Good(s, k)
  PROVE  Good(s, j)
<1>1. \A i \in 1..Len(s) : s[i] \in Calls
  BY LenProperties DEF Good
<1>2. \A i \in 1..Len(s) : s[i].lock \in LockNames
  BY <1>1 DEF Calls
<1>3. \A i \in 1..Len(s) : Rank[s[i].lock] \in Nat
  BY <1>2, RanksAreNat
<1> QED
  BY <1>3 DEF Good

\* The sections of the operations respect the order of the locks.
LEMMA OperationsGood ==
  /\ \A s \in Fetch : Good(s, 2)
  /\ \A s \in Broadcast : Good(s, 1)
  /\ \A s \in Lookup \cup Scan : Good(s, 1)
  /\ \A s \in Reload : Good(s, 1)
  /\ \A l \in LockNames : Good(R(l), 1) /\ Good(W(l), 1)
<1> USE LockRanks
<1>1. \A l \in LockNames : Good(R(l), 1) /\ Good(W(l), 1)
  BY OneLock, GoodBelow, RanksAreNat
<1>2. \A s \in Fetch : Good(s, 2)
  <2>1. Good(R("alock"), 3) /\ Good(W("apps"), 4) /\ Good(R("sched"), 2)
    BY OneLock
  <2>2. Good(R("alock"), 2) /\ Good(W("apps"), 2)
    BY <2>1, GoodBelow
  <2> QED
    BY <2>1, <2>2 DEF Fetch
<1>3. \A s \in Broadcast : Good(s, 1)
  <2>1. ASSUME NEW f \in Fetch
        PROVE  Good(Reading("hosts", f), 1)
    BY <1>2, Wrapped DEF Reading
  <2> QED
    BY <1>1, <2>1 DEF Broadcast
<1>4. \A s \in Lookup \cup Scan : Good(s, 1)
  <2>1. Good(R("apps"), 4)
    BY OneLock
  <2>2. Good(Reading("alock", R("apps")), 1)
    BY <2>1, Wrapped DEF Reading
  <2> QED
    BY <1>1, <2>2 DEF Lookup, Scan
<1>5. \A s \in Reload : Good(s, 1)
  <2>1. Good(W("apps"), 4)
    BY OneLock
  <2>2. Good(<< >>, 4)
    BY DEF Good, Nested, Held
  <2>3. \A a \in {<< >>, W("apps")} : Good(Writing("alock", a), 3)
    BY SMTT(30), <2>1, <2>2, Wrapped DEF Writing
  <2>4. \A a \in {<< >>, W("apps")} : Good(Writing("sched", Writing("alock", a)), 1)
    <3>1. ASSUME NEW b, Good(b, 3)
          PROVE  Good(Writing("sched", b), 1)
      BY <3>1, Wrapped DEF Writing
    <3> QED
      BY <2>3, <3>1
  <2> QED
    BY <1>3, <2>4 DEF Reload
<1> QED
  BY <1>1, <1>2, <1>3, <1>4, <1>5

LEMMA SectionsGood ==
  ASSUME "evict" \notin ProcOps, NEW t \in Threads, NEW s \in SectionsOf(t)
  PROVE  Good(s, 1)
<1> USE LockRanks, OperationsGood
<1>1. \A x \in Fetch : Good(x, 1)
  BY GoodBelow
<1>2. \A x \in Register : Good(x, 1)
  BY DEF Register
<1>3. \A x \in Renew \cup Cancel \cup Set : Good(x, 1)
  BY DEF Renew, Cancel, Set
<1>4. \A x \in Polls \cup DelConns \cup ResetExp : Good(x, 1)
  BY <1>1 DEF Polls, DelConns, ResetExp
<1> QED
  BY <1>1, <1>2, <1>3, <1>4 DEF SectionsOf

\* With the evictions, too, sections are sequences of calls.
LEMMA SectionsTyped ==
  ASSUME NEW t \in Threads, NEW s \in SectionsOf(t)
  PROVE  s \in Seq(Calls)
<1>1. CASE "evict" \notin ProcOps
  BY <1>1, SectionsGood DEF Good
<1>2. CASE t # "proc"
  <2>1. s \in Reload \/ s \in Register \cup Renew \cup Cancel \cup Scan \cup Fetch \cup Set
                                \cup Polls \cup DelConns
    BY <1>2 DEF SectionsOf
  <2>2. \A x \in Register \cup Renew \cup Cancel \cup Set \cup Polls \cup DelConns : Good(x, 1) \/ Good(x, 2)
    BY LockRanks, OperationsGood DEF Register, Renew, Cancel, Set, Polls, DelConns
  <2> QED
    BY <2>1, <2>2, OperationsGood DEF Good
<1>3. CASE t = "proc"
  <2>1. s \in Evict \/ s \in ResetExp
    BY <1>3 DEF SectionsOf
  <2>2. \A x \in {<< >>} \cup Scan \cup Cancel \cup ResetExp : x \in Seq(Calls)
    <3>1. \A x \in Scan \cup Cancel \cup ResetExp : Good(x, 1)
      BY LockRanks, OperationsGood DEF Cancel, ResetExp
    <3>2. << >> \in Seq(Calls)
      OBVIOUS
    <3> QED
      BY <3>1, <3>2 DEF Good
  <2>3. \A x \in Seq(Calls) : Writing("alock", R("alock") \o x) \in Seq(Calls)
    <3>1. R("alock") \in Seq(Calls)
      BY LockRanks, OperationsGood DEF Good
    <3>2. ASSUME NEW x \in Seq(Calls)
          PROVE  Writing("alock", R("alock") \o x) \in Seq(Calls)
      <4>1. R("alock") \o x \in Seq(Calls)
        BY <3>1, ConcatProperties
      <4> HIDE DEF R
      <4> QED
        BY <4>1, Around, LockRanks DEF Writing
    <3> QED
      BY <3>2
  <2> QED
    BY <2>1, <2>2, <2>3 DEF Evict
<1> QED
  BY <1>1, <1>2, <1>3

-----------------------------------------------------------------------------
(* Types, whatever the proc goroutine runs. *)

LEMMA AtOne ==
  ASSUME NEW t, NEW how, NEW l, NEW how2, NEW l2, At(t, how, l), At(t, how2, l2)
  PROVE  how = how2 /\ l = l2
BY DEF At, Do

LEMMA TailTyped ==
  ASSUME VarTypes, NEW t \in Threads, ~Idle(t)
  PROVE  todo[t] \in Seq(Calls) /\ Tail(todo[t]) \in Seq(Calls)
<1>1. todo[t] \in Seq(Calls) /\ todo[t] # << >>
  BY DEF VarTypes, Calls, Idle
<1> QED
  BY <1>1, HeadTailProperties

LEMMA AdvanceTyped ==
  ASSUME VarTypes, NEW ts \in SUBSET Threads, \A t \in ts : ~Idle(t), Advance(ts)
  PROVE  /\ todo' \in [Threads -> Seq(Calls)]
         /\ \A t \in Threads : t \notin ts => todo'[t] = todo[t]
         /\ \A t \in ts : todo'[t] = Tail(todo[t])
<1>1. \A t \in Threads : todo[t] \in Seq(Calls)
  BY DEF VarTypes, Calls
<1>2. \A t \in ts : Tail(todo[t]) \in Seq(Calls)
  BY TailTyped
<1> QED
  BY <1>1, <1>2 DEF Advance

TypesInv == VarTypes /\ WaitersOK

LEMMA ThreadNames == Nobody \notin Threads
BY LocksAssumption DEF Nobody, Threads

LEMMA TypesInit == Init => TypesInv
<1> SUFFICES ASSUME Init PROVE TypesInv
  OBVIOUS
<1>1. << >> \in Seq([do : {"R", "W", "U"}, lock : LockNames])
  OBVIOUS
<1> QED
  BY <1>1 DEF Init, TypesInv, VarTypes, WaitersOK

LEMMA TypesStep == TypesInv /\ [Next]_vars => TypesInv'
<1> SUFFICES ASSUME TypesInv, [Next]_vars PROVE TypesInv'
  OBVIOUS
<1>t. /\ todo \in [Threads -> Seq(Calls)]
      /\ pending \in [LockNames -> Threads \cup {Nobody}]
      /\ readers \in [LockNames -> SUBSET Threads]
      /\ rwait \in [LockNames -> SUBSET Threads]
      /\ \A l \in LockNames : pending[l] = Nobody => rwait[l] = {}
      /\ \A l \in LockNames : \A t \in rwait[l] : At(t, "R", l)
  BY DEF TypesInv, VarTypes, WaitersOK, Calls
\* A thread that is not at a call to RLock does not wait to read.
<1>w. ASSUME NEW t, NEW how, NEW l, At(t, how, l), how # "R", NEW m \in LockNames
      PROVE  t \notin rwait[m]
  BY <1>t, <1>w, AtOne
<1>1. ASSUME NEW t \in Threads, Begin(t)
      PROVE  TypesInv'
  <2>1. PICK s \in SectionsOf(t) : todo' = [todo EXCEPT ![t] = s]
    BY <1>1 DEF Begin
  <2>2. s \in Seq(Calls)
    BY SectionsTyped
  <2>3. \A l \in LockNames : t \notin rwait[l]
    BY <1>1, <1>t DEF Begin, At
  <2>4. todo' \in [Threads -> Seq(Calls)] /\ \A u \in Threads : u # t => todo'[u] = todo[u]
    BY <1>t, <2>1, <2>2
  <2> QED
    BY <1>1, <1>t, <2>3, <2>4 DEF Begin, TypesInv, VarTypes, WaitersOK, Calls, At, Idle
<1>2. ASSUME NEW t \in Threads, NEW l \in LockNames, RLock(t, l)
      PROVE  TypesInv'
  <2>1. At(t, "R", l) /\ pending[l] = Nobody /\ rwait[l] = {}
    BY <1>2, <1>t DEF RLock
  <2>2. \A m \in LockNames : t \notin rwait[m]
    BY <1>t, <2>1, AtOne
  <2>3. todo' \in [Threads -> Seq(Calls)] /\ \A u \in Threads : u # t => todo'[u] = todo[u]
    BY <1>2, <2>1, AdvanceTyped DEF RLock, At, TypesInv
  <2> QED
    BY <1>2, <1>t, <2>2, <2>3 DEF RLock, TypesInv, VarTypes, WaitersOK, Calls, At, Idle
<1>3. ASSUME NEW t \in Threads, NEW l \in LockNames, RLockWaits(t, l)
      PROVE  TypesInv'
  BY <1>3, <1>t DEF RLockWaits, TypesInv, VarTypes, WaitersOK, Calls, At, Idle
<1>4. ASSUME NEW t \in Threads, NEW l \in LockNames, Announce(t, l)
      PROVE  TypesInv'
  BY <1>4, <1>t, ThreadNames DEF Announce, TypesInv, VarTypes, WaitersOK, Calls, At, Idle
<1>5. ASSUME NEW t \in Threads, NEW l \in LockNames, Lock(t, l)
      PROVE  TypesInv'
  <2>1. At(t, "W", l)
    BY <1>5 DEF Lock
  <2>2. \A m \in LockNames : t \notin rwait[m]
    BY <1>w, <2>1
  <2>3. todo' \in [Threads -> Seq(Calls)] /\ \A u \in Threads : u # t => todo'[u] = todo[u]
    BY <1>5, <2>1, AdvanceTyped DEF Lock, At, TypesInv
  <2> QED
    BY <1>5, <1>t, <2>2, <2>3 DEF Lock, TypesInv, VarTypes, WaitersOK, Calls, At, Idle
<1>6. ASSUME NEW t \in Threads, NEW l \in LockNames, RUnlock(t, l)
      PROVE  TypesInv'
  <2>1. At(t, "U", l)
    BY <1>6 DEF RUnlock
  <2>2. \A m \in LockNames : t \notin rwait[m]
    BY <1>w, <2>1
  <2>3. todo' \in [Threads -> Seq(Calls)] /\ \A u \in Threads : u # t => todo'[u] = todo[u]
    BY <1>6, <2>1, AdvanceTyped DEF RUnlock, At, TypesInv
  <2> QED
    BY <1>6, <1>t, <2>2, <2>3 DEF RUnlock, TypesInv, VarTypes, WaitersOK, Calls, At, Idle
<1>7. ASSUME NEW t \in Threads, NEW l \in LockNames, Unlock(t, l)
      PROVE  TypesInv'
  <2> DEFINE ts == {t} \cup rwait[l]
  <2>1. At(t, "U", l)
    BY <1>7 DEF Unlock
  <2>2. \A m \in LockNames : m # l => \A u \in rwait[m] : u \notin ts
    BY <1>w, <1>t, <2>1, AtOne
  <2>3. ts \in SUBSET Threads /\ \A u \in ts : ~Idle(u)
    BY <1>t, <2>1 DEF At
  <2>4. todo' \in [Threads -> Seq(Calls)] /\ \A u \in Threads : u \notin ts => todo'[u] = todo[u]
    BY <1>7, <2>3, AdvanceTyped DEF Unlock, TypesInv
  <2> HIDE DEF ts
  <2>5. /\ pending' = [pending EXCEPT ![l] = Nobody]
        /\ readers' = [readers EXCEPT ![l] = rwait[l]]
        /\ rwait' = [rwait EXCEPT ![l] = {}]
    BY <1>7 DEF Unlock
  <2>6. VarTypes'
    BY <1>t, <2>4, <2>5 DEF VarTypes, Calls
  <2>7. WaitersOK'
    BY <1>t, <2>2, <2>4, <2>5 DEF WaitersOK, At, Idle
  <2> QED
    BY <2>6, <2>7 DEF TypesInv
<1>8. ASSUME UNCHANGED vars
      PROVE  TypesInv'
  BY <1>8, <1>t DEF vars, TypesInv, VarTypes, WaitersOK, Calls, At, Idle
<1> QED
  BY <1>1, <1>2, <1>3, <1>4, <1>5, <1>6, <1>7, <1>8 DEF Next, Continue

LEMMA TypesHold == Spec => []TypesInv
BY TypesInit, TypesStep, PTL DEF Spec

-----------------------------------------------------------------------------
(* What a thread holds and has still to take, when it takes one step. *)

LEMMA TailNested ==
  ASSUME NEW s \in Seq(Calls), s # << >>, Nested(s)
  PROVE  /\ Nested(Tail(s))
         /\ \A h \in Held(s) : s[1] = Do("U", h) \/ h \in Held(Tail(s))
         /\ Acquires(s, 1) => s[1].lock \in Held(Tail(s)) /\ s[1].lock \notin Held(s)
         /\ \A h \in Held(Tail(s)) : \/ (h \in Held(s) /\ s[1].lock # h)
                                     \/ (Acquires(s, 1) /\ s[1].lock = h)
         /\ ~Acquires(s, 1) => s[1].lock \in Held(s)
<1> DEFINE r == Tail(s)
           n == Len(s)
<1>1. /\ n \in Nat /\ n > 0 /\ Len(r) \in Nat /\ Len(r) = n - 1 /\ r \in Seq(Calls)
      /\ \A i \in 1..Len(r) : r[i] = s[i + 1]
      /\ \A i \in 1..n : s[i] \in Calls
  BY HeadTailProperties, LenProperties, EmptySeq
<1> HIDE DEF r, n
<1>2. /\ \A i \in 1..Len(r) : i + 1 \in 1..n /\ r[i] = s[i + 1] /\ (Acquires(r, i) <=> Acquires(s, i + 1))
      /\ \A i \in 1..n : i # 1 => i - 1 \in 1..Len(r) /\ r[i - 1] = s[i]
                                    /\ (Acquires(r, i - 1) <=> Acquires(s, i))
  BY <1>1 DEF Acquires
<1>n. /\ \A i, j \in 1..n : i < j /\ Acquires(s, j) =>
           Acquires(s, i) /\ Rank[s[i].lock] < Rank[s[j].lock]
      /\ \A i, j \in 1..n : i < j /\ ~Acquires(s, i) => s[i].lock # s[j].lock
      /\ \A i \in 1..n : Acquires(s, i) => \E j \in 1..n : s[j] = Do("U", s[i].lock)
      /\ \A l \in Held(s) : \A i \in 1..n : Acquires(s, i) => Rank[l] < Rank[s[i].lock]
  BY DEF Nested, n
<1>h. \A l \in LockNames :
        /\ l \in Held(s) <=> /\ \E i \in 1..n : s[i] = Do("U", l)
                             /\ \A i \in 1..n : Acquires(s, i) => s[i].lock # l
        /\ l \in Held(r) <=> /\ \E i \in 1..Len(r) : r[i] = Do("U", l)
                             /\ \A i \in 1..Len(r) : Acquires(r, i) => r[i].lock # l
  BY DEF Held, n
<1>s. Held(s) \subseteq LockNames /\ Held(r) \subseteq LockNames
  BY DEF Held
<1>3. \A h \in Held(s) : s[1] = Do("U", h) \/ h \in Held(r)
  <2> SUFFICES ASSUME NEW h \in Held(s), s[1] # Do("U", h)
               PROVE  h \in Held(r)
    OBVIOUS
  <2>1. PICK x \in 1..n : s[x] = Do("U", h)
    BY <1>h, <1>s
  <2>2. x - 1 \in 1..Len(r) /\ r[x - 1] = Do("U", h)
    BY <1>2, <2>1
  <2>3. ASSUME NEW i \in 1..Len(r), Acquires(r, i)
        PROVE  r[i].lock # h
    BY <1>2, <1>h, <1>s, <2>3
  <2> QED
    BY <1>h, <1>s, <2>2, <2>3
<1>4. ASSUME Acquires(s, 1)
      PROVE  s[1].lock \in Held(r) /\ s[1].lock \notin Held(s)
  <2>1. 1 \in 1..n /\ s[1].lock \in LockNames
    BY <1>1 DEF Calls
  <2>2. PICK x \in 1..n : s[x] = Do("U", s[1].lock)
    BY <1>4, <1>n, <2>1
  <2>3. x # 1
    BY <1>4, <2>2 DEF Acquires, Do
  <2>4. x - 1 \in 1..Len(r) /\ r[x - 1] = Do("U", s[1].lock)
    BY <1>2, <2>2, <2>3
  <2>5. ASSUME NEW i \in 1..Len(r), Acquires(r, i)
        PROVE  r[i].lock # s[1].lock
    <3>1. 1 < i + 1 /\ i + 1 \in 1..n /\ Acquires(s, i + 1) /\ r[i] = s[i + 1]
      BY <1>2, <2>5
    <3>2. s[i + 1].lock \in LockNames
      BY <1>1, <3>1 DEF Calls
    <3>3. Rank[s[1].lock] < Rank[s[i + 1].lock]
      BY <1>n, <2>1, <3>1
    <3>4. Rank[s[1].lock] \in Nat
      BY <2>1, RanksAreNat
    <3> QED
      BY <3>1, <3>3, <3>4
  <2> QED
    BY <1>4, <1>h, <2>1, <2>4, <2>5
<1>5. Nested(r)
  <2>1. ASSUME NEW x \in 1..Len(r), NEW y \in 1..Len(r), x < y, Acquires(r, y)
        PROVE  Acquires(r, x) /\ Rank[r[x].lock] < Rank[r[y].lock]
    <3>1. x + 1 \in 1..n /\ y + 1 \in 1..n /\ x + 1 < y + 1 /\ Acquires(s, y + 1)
      BY <1>2, <2>1
    <3>2. Acquires(s, x + 1) /\ Rank[s[x + 1].lock] < Rank[s[y + 1].lock]
      BY <1>n, <3>1
    <3> QED
      BY <1>2, <3>2
  <2>2. ASSUME NEW x \in 1..Len(r), NEW y \in 1..Len(r), x < y, ~Acquires(r, x)
        PROVE  r[x].lock # r[y].lock
    <3>1. x + 1 \in 1..n /\ y + 1 \in 1..n /\ x + 1 < y + 1 /\ ~Acquires(s, x + 1)
      BY <1>2, <2>2
    <3>2. s[x + 1].lock # s[y + 1].lock
      BY <1>n, <3>1
    <3> QED
      BY <1>2, <3>2
  <2>3. ASSUME NEW x \in 1..Len(r), Acquires(r, x)
        PROVE  \E y \in 1..Len(r) : r[y] = Do("U", r[x].lock)
    <3>1. x + 1 \in 1..n /\ Acquires(s, x + 1) /\ r[x] = s[x + 1]
      BY <1>2, <2>3
    <3>2. PICK y \in 1..n : s[y] = Do("U", s[x + 1].lock)
      BY <1>n, <3>1
    <3>3. Acquires(s, 1)
      BY <1>n, <1>1, <3>1
    <3>4. y # 1
      BY <3>2, <3>3 DEF Acquires, Do
    <3>5. y - 1 \in 1..Len(r) /\ r[y - 1] = Do("U", r[x].lock)
      BY <1>2, <3>1, <3>2, <3>4
    <3> QED
      BY <3>5
  <2>4. ASSUME NEW l \in Held(r), NEW x \in 1..Len(r), Acquires(r, x)
        PROVE  Rank[l] < Rank[r[x].lock]
    <3>1. x + 1 \in 1..n /\ Acquires(s, x + 1) /\ r[x] = s[x + 1] /\ 1 < x + 1 /\ 1 \in 1..n
      BY <1>2, <1>1, <2>4
    <3>2. Acquires(s, 1) /\ Rank[s[1].lock] < Rank[s[x + 1].lock]
      BY <1>n, <3>1
    <3>3. CASE l = s[1].lock
      BY <3>1, <3>2, <3>3
    <3>4. CASE l # s[1].lock
      <4>1. ASSUME NEW i \in 1..n, Acquires(s, i)
            PROVE  s[i].lock # l
        <5>1. i # 1 => i - 1 \in 1..Len(r) /\ Acquires(r, i - 1) /\ r[i - 1] = s[i]
          BY <1>2, <4>1
        <5>2. \A j \in 1..Len(r) : Acquires(r, j) => r[j].lock # l
          BY <1>h, <1>s
        <5> QED
          BY <3>4, <5>1, <5>2
      <4>2. PICK y \in 1..Len(r) : r[y] = Do("U", l)
        BY <1>h, <1>s
      <4>3. y + 1 \in 1..n /\ s[y + 1] = Do("U", l)
        BY <1>2, <4>2
      <4>4. l \in Held(s)
        BY <1>h, <1>s, <4>1, <4>3
      <4> QED
        BY <1>n, <3>1, <4>4
    <3> QED
      BY <3>3, <3>4
  <2> QED
    BY <2>1, <2>2, <2>3, <2>4 DEF Nested
<1>6. ASSUME NEW h \in Held(r)
      PROVE  (h \in Held(s) /\ s[1].lock # h) \/ (Acquires(s, 1) /\ s[1].lock = h)
  <2>1. PICK y \in 1..Len(r) : r[y] = Do("U", h)
    BY <1>h, <1>s
  <2>2. y + 1 \in 1..n /\ s[y + 1] = Do("U", h) /\ 1 \in 1..n /\ 1 < y + 1
    BY <1>1, <1>2, <2>1
  <2>3. CASE h = s[1].lock
    <3>1. s[y + 1].lock = h
      BY <2>2 DEF Do
    <3>2. Acquires(s, 1)
      BY <1>n, <2>2, <2>3, <3>1
    <3> QED
      BY <2>3, <3>2
  <2>4. CASE h # s[1].lock
    <3>1. ASSUME NEW i \in 1..n, Acquires(s, i)
          PROVE  s[i].lock # h
      <4>1. i # 1 => i - 1 \in 1..Len(r) /\ Acquires(r, i - 1) /\ r[i - 1] = s[i]
        BY <1>2, <3>1
      <4>2. \A j \in 1..Len(r) : Acquires(r, j) => r[j].lock # h
        BY <1>h, <1>s
      <4> QED
        BY <2>4, <4>1, <4>2
    <3>2. h \in Held(s)
      BY <1>h, <1>s, <2>2, <3>1
    <3> QED
      BY <2>4, <3>2
  <2> QED
    BY <2>3, <2>4
<1>7. ASSUME ~Acquires(s, 1)
      PROVE  s[1].lock \in Held(s)
  <2>1. 1 \in 1..n /\ s[1] \in Calls
    BY <1>1
  <2>2. s[1].lock \in LockNames /\ s[1] = Do("U", s[1].lock)
    BY <1>7, <2>1 DEF Calls, Acquires, Do
  <2>3. \A i \in 1..n : ~Acquires(s, i)
    BY <1>1, <1>n, <1>7, <2>1
  <2> QED
    BY <1>h, <2>1, <2>2, <2>3
<1> QED
  BY <1>3, <1>4, <1>5, <1>6, <1>7 DEF r

LEMMA Moves ==
  ASSUME VarTypes, OrderOK, NEW t \in Threads, NEW how \in {"R", "W", "U"}, NEW l \in LockNames,
         At(t, how, l)
  PROVE  /\ Nested(Tail(todo[t]))
         /\ \A h \in Held(todo[t]) : (how = "U" /\ h = l) \/ h \in Held(Tail(todo[t]))
         /\ how # "U" => l \in Held(Tail(todo[t])) /\ l \notin Held(todo[t])
         /\ how # "U" => \A h \in Held(todo[t]) : Rank[h] < Rank[l]
         /\ \A h \in Held(Tail(todo[t])) : (h \in Held(todo[t]) /\ h # l) \/ (how # "U" /\ h = l)
         /\ how = "U" => l \in Held(todo[t])
<1> DEFINE s == todo[t]
<1>1. s \in Seq(Calls) /\ s # << >> /\ s[1] = Do(how, l) /\ Nested(s)
  BY TailTyped DEF At, Idle, OrderOK
<1>2. s[1].lock = l /\ s[1].do = how /\ (Acquires(s, 1) <=> how # "U")
  BY <1>1 DEF Do, Acquires
<1>3. 1 \in 1..Len(s)
  BY <1>1, LenProperties, EmptySeq
<1> HIDE DEF s
<1>4. /\ Nested(Tail(s))
      /\ \A h \in Held(s) : s[1] = Do("U", h) \/ h \in Held(Tail(s))
      /\ Acquires(s, 1) => l \in Held(Tail(s)) /\ l \notin Held(s)
      /\ \A h \in Held(Tail(s)) : (h \in Held(s) /\ h # l) \/ (Acquires(s, 1) /\ h = l)
      /\ ~Acquires(s, 1) => l \in Held(s)
  BY <1>1, <1>2, TailNested
<1>5. \A h : s[1] = Do("U", h) => how = "U" /\ h = l
  BY <1>1 DEF Do
<1>6. how # "U" => \A h \in Held(s) : Rank[h] < Rank[l]
  BY <1>1, <1>2, <1>3 DEF Nested
<1> QED
  BY <1>2, <1>4, <1>5, <1>6 DEF s

-----------------------------------------------------------------------------
(* Holders and the order in which they go on, without the evictions. *)

LEMMA AdvanceOne ==
  ASSUME VarTypes, NEW t \in Threads, ~Idle(t), Advance({t})
  PROVE  /\ \A u \in Threads : u # t => todo'[u] = todo[u]
         /\ todo'[t] = Tail(todo[t])
<1>1. {t} \in SUBSET Threads /\ \A u \in {t} : ~Idle(u)
  OBVIOUS
<1>2. /\ \A u \in Threads : u \notin {t} => todo'[u] = todo[u]
      /\ \A u \in {t} : todo'[u] = Tail(todo[u])
  BY <1>1, AdvanceTyped
<1> QED
  BY <1>2

LEMMA NothingHeld == Held(<< >>) = {} /\ Nested(<< >>)
BY DEF Held, Nested

LEMMA HoldersInit == Init => HoldersOK /\ OrderOK
BY NothingHeld DEF Init, HoldersOK, ReadersHold, WriterHolds, HoldersKnown, OrderOK

LEMMA HoldersStep ==
  ASSUME "evict" \notin ProcOps
  PROVE  IInv /\ [Next]_vars => (HoldersOK /\ OrderOK)'
<1> SUFFICES ASSUME IInv, [Next]_vars PROVE (HoldersOK /\ OrderOK)'
  OBVIOUS
<1> USE ThreadNames
<1>t. /\ VarTypes
      /\ todo \in [Threads -> Seq(Calls)]
      /\ pending \in [LockNames -> Threads \cup {Nobody}]
      /\ readers \in [LockNames -> SUBSET Threads]
      /\ rwait \in [LockNames -> SUBSET Threads]
      /\ \A l \in LockNames : \A t \in rwait[l] : At(t, "R", l)
  BY DEF IInv, VarTypes, WaitersOK, Calls
<1>h. \A l \in LockNames :
        /\ \A t \in readers[l] : l \in Held(todo[t])
        /\ pending[l] # Nobody =>
             /\ At(pending[l], "W", l) \/ l \in Held(todo[pending[l]])
             /\ pending[l] \notin readers[l]
             /\ l \in Held(todo[pending[l]]) => readers[l] = {}
        /\ \A t \in Threads : l \in Held(todo[t]) => t \in readers[l] \/ pending[l] = t
  BY DEF IInv, HoldersOK, ReadersHold, WriterHolds, HoldersKnown
<1>o. OrderOK /\ \A t \in Threads : Nested(todo[t])
  BY DEF IInv, OrderOK
<1>m. ASSUME NEW t \in Threads, NEW how \in {"R", "W", "U"}, NEW l \in LockNames, At(t, how, l)
      PROVE  /\ Nested(Tail(todo[t]))
             /\ \A h \in Held(todo[t]) : (how = "U" /\ h = l) \/ h \in Held(Tail(todo[t]))
             /\ how # "U" => l \in Held(Tail(todo[t])) /\ l \notin Held(todo[t])
             /\ \A h \in Held(Tail(todo[t])) : (h \in Held(todo[t]) /\ h # l) \/ (how # "U" /\ h = l)
  BY <1>m, <1>t, <1>o, Moves
<1>1. ASSUME NEW t \in Threads, Begin(t)
      PROVE  (HoldersOK /\ OrderOK)'
  <2>1. PICK s \in SectionsOf(t) : todo' = [todo EXCEPT ![t] = s]
    BY <1>1 DEF Begin
  <2>2. Nested(s) /\ Held(s) = {}
    BY SectionsGood DEF Good
  <2>3. \A l \in LockNames : t \notin readers[l] /\ pending[l] # t
    <3>1. todo[t] = << >> /\ Held(todo[t]) = {}
      BY <1>1, NothingHeld DEF Begin, Idle
    <3>2. \A l \in LockNames : ~At(t, "W", l)
      BY <3>1 DEF At, Idle
    <3> QED
      BY <1>h, <3>1, <3>2
  <2>4. /\ \A u \in Threads : u # t => todo'[u] = todo[u]
        /\ todo'[t] = s
    BY <1>t, <2>1
  <2>5. pending' = pending /\ readers' = readers
    BY <1>1 DEF Begin
  <2>6. OrderOK'
    BY <1>o, <2>2, <2>4 DEF OrderOK
  <2>7. HoldersOK'
    <3> SUFFICES ASSUME NEW m \in LockNames
                 PROVE  ReadersHold(m)' /\ WriterHolds(m)' /\ HoldersKnown(m)'
      BY DEF HoldersOK
    <3>1. ReadersHold(m)'
      BY <1>t, <1>h, <2>2, <2>3, <2>4, <2>5 DEF ReadersHold
    <3>2. WriterHolds(m)'
      BY <1>t, <1>h, <2>2, <2>3, <2>4, <2>5 DEF WriterHolds, At, Idle
    <3>3. HoldersKnown(m)'
      BY <1>t, <1>h, <2>2, <2>3, <2>4, <2>5 DEF HoldersKnown
    <3> QED
      BY <3>1, <3>2, <3>3
  <2> QED
    BY <2>6, <2>7
<1>2. ASSUME NEW t \in Threads, NEW l \in LockNames, RLock(t, l)
      PROVE  (HoldersOK /\ OrderOK)'
  <2>1. At(t, "R", l) /\ ~Idle(t)
    BY <1>2 DEF RLock, At
  <2>2. /\ \A u \in Threads : u # t => todo'[u] = todo[u]
        /\ todo'[t] = Tail(todo[t])
    BY <1>2, <1>t, <2>1, AdvanceOne DEF RLock
  <2>3. pending' = pending /\ readers' = [readers EXCEPT ![l] = readers[l] \cup {t}] /\ pending[l] = Nobody
    BY <1>2 DEF RLock
  <2>4. /\ Nested(Tail(todo[t])) /\ l \in Held(Tail(todo[t]))
        /\ \A h \in Held(todo[t]) : h \in Held(Tail(todo[t]))
        /\ \A h \in Held(Tail(todo[t])) : h \in Held(todo[t]) \/ h = l
    BY <1>m, <2>1
  <2>5. \A m \in LockNames : ~At(t, "W", m)
    BY <2>1, AtOne
  <2>6. OrderOK'
    BY <1>o, <2>2, <2>4 DEF OrderOK
  <2>7. HoldersOK'
    <3> SUFFICES ASSUME NEW m \in LockNames
                 PROVE  ReadersHold(m)' /\ WriterHolds(m)' /\ HoldersKnown(m)'
      BY DEF HoldersOK
    <3>1. /\ readers[m] \subseteq Threads /\ pending[m] \in Threads \cup {Nobody}
          /\ ReadersHold(m) /\ WriterHolds(m) /\ HoldersKnown(m)
      BY <1>t DEF IInv, HoldersOK
    <3>2. \A u \in Threads : m \in Held(todo[u]) => m \in Held(todo'[u])
      BY <2>2, <2>4
    <3>3. \A u \in Threads : m \in Held(todo'[u]) => m \in Held(todo[u]) \/ (u = t /\ m = l)
      BY <2>2, <2>4
    <3>4. pending'[m] = pending[m] /\ readers'[m] = IF m = l THEN readers[l] \cup {t} ELSE readers[m]
      BY <1>t, <2>3
    <3>5. \A u \in Threads : At(u, "W", m) => At(u, "W", m)'
      BY <2>2, <2>5 DEF At, Idle
    <3>6. ReadersHold(m)'
      BY <2>2, <2>4, <3>1, <3>2, <3>4 DEF ReadersHold
    <3>7. WriterHolds(m)'
      BY <2>2, <2>3, <2>4, <2>5, <3>1, <3>2, <3>3, <3>4, <3>5 DEF WriterHolds
    <3>8. HoldersKnown(m)'
      BY <2>3, <3>1, <3>3, <3>4 DEF HoldersKnown
    <3> QED
      BY <3>6, <3>7, <3>8
  <2> QED
    BY <2>6, <2>7
<1>3. ASSUME NEW t \in Threads, NEW l \in LockNames, RLockWaits(t, l)
      PROVE  (HoldersOK /\ OrderOK)'
  <2>1. todo' = todo /\ pending' = pending /\ readers' = readers
    BY <1>3 DEF RLockWaits
  <2> QED
    BY <1>h, <1>o, <2>1 DEF HoldersOK, ReadersHold, WriterHolds, HoldersKnown, OrderOK, At, Idle
<1>4. ASSUME NEW t \in Threads, NEW l \in LockNames, Announce(t, l)
      PROVE  (HoldersOK /\ OrderOK)'
  <2>1. /\ At(t, "W", l) /\ pending' = [pending EXCEPT ![l] = t]
        /\ todo' = todo /\ readers' = readers
    BY <1>4 DEF Announce
  <2>2. t \notin readers[l] /\ l \notin Held(todo[t])
    BY <1>m, <1>h, <2>1
  <2>3. pending[l] = Nobody
    BY <1>4 DEF Announce
  <2> QED
    BY <1>t, <1>h, <1>o, <2>1, <2>2, <2>3 DEF HoldersOK, ReadersHold, WriterHolds, HoldersKnown, OrderOK, At, Idle
<1>5. ASSUME NEW t \in Threads, NEW l \in LockNames, Lock(t, l)
      PROVE  (HoldersOK /\ OrderOK)'
  <2>1. At(t, "W", l) /\ ~Idle(t)
    BY <1>5 DEF Lock, At
  <2>2. /\ \A u \in Threads : u # t => todo'[u] = todo[u]
        /\ todo'[t] = Tail(todo[t])
    BY <1>5, <1>t, <2>1, AdvanceOne DEF Lock
  <2>3. pending' = pending /\ readers' = readers /\ pending[l] = t /\ readers[l] = {}
    BY <1>5 DEF Lock
  <2>4. /\ Nested(Tail(todo[t])) /\ l \in Held(Tail(todo[t]))
        /\ \A h \in Held(todo[t]) : h \in Held(Tail(todo[t]))
        /\ \A h \in Held(Tail(todo[t])) : h \in Held(todo[t]) \/ h = l
    BY <1>m, <2>1
  <2>5. \A m \in LockNames : At(t, "W", m) => m = l
    BY <2>1, AtOne
  <2>6. OrderOK'
    BY <1>o, <2>2, <2>4 DEF OrderOK
  <2>7. HoldersOK'
    <3> SUFFICES ASSUME NEW m \in LockNames
                 PROVE  ReadersHold(m)' /\ WriterHolds(m)' /\ HoldersKnown(m)'
      BY DEF HoldersOK
    <3>1. /\ readers[m] \subseteq Threads /\ pending[m] \in Threads \cup {Nobody}
          /\ ReadersHold(m) /\ WriterHolds(m) /\ HoldersKnown(m)
      BY <1>t DEF IInv, HoldersOK
    <3>2. \A u \in Threads : m \in Held(todo[u]) => m \in Held(todo'[u])
      BY <2>2, <2>4
    <3>3. \A u \in Threads : m \in Held(todo'[u]) => m \in Held(todo[u]) \/ (u = t /\ m = l)
      BY <2>2, <2>4
    <3>4. pending'[m] = pending[m] /\ readers'[m] = readers[m]
      BY <1>t, <2>3
    <3>5. \A u \in Threads : At(u, "W", m) /\ (u # t \/ m # l) => At(u, "W", m)'
      BY <2>2, <2>5 DEF At, Idle
    <3>6. ReadersHold(m)'
      BY <2>2, <2>4, <3>1, <3>2, <3>4 DEF ReadersHold
    <3>7. WriterHolds(m)'
      BY <2>2, <2>3, <2>4, <2>5, <3>1, <3>2, <3>3, <3>4, <3>5 DEF WriterHolds
    <3>8. HoldersKnown(m)'
      BY <2>3, <3>1, <3>3, <3>4 DEF HoldersKnown
    <3> QED
      BY <3>6, <3>7, <3>8
  <2> QED
    BY <2>6, <2>7
<1>6. ASSUME NEW t \in Threads, NEW l \in LockNames, RUnlock(t, l)
      PROVE  (HoldersOK /\ OrderOK)'
  <2>1. At(t, "U", l) /\ ~Idle(t) /\ t \in readers[l]
    BY <1>6 DEF RUnlock, At
  <2>2. /\ \A u \in Threads : u # t => todo'[u] = todo[u]
        /\ todo'[t] = Tail(todo[t])
    BY <1>6, <1>t, <2>1, AdvanceOne DEF RUnlock
  <2>3. pending' = pending /\ readers' = [readers EXCEPT ![l] = readers[l] \ {t}]
    BY <1>6 DEF RUnlock
  <2>4. /\ Nested(Tail(todo[t]))
        /\ \A h \in Held(todo[t]) : h = l \/ h \in Held(Tail(todo[t]))
        /\ \A h \in Held(Tail(todo[t])) : h \in Held(todo[t]) /\ h # l
    BY <1>m, <2>1
  <2>5. (\A m \in LockNames : ~At(t, "W", m)) /\ pending[l] # t
    BY <1>h, <2>1, AtOne
  <2>6. OrderOK'
    BY <1>o, <2>2, <2>4 DEF OrderOK
  <2>7. HoldersOK'
    <3> SUFFICES ASSUME NEW m \in LockNames
                 PROVE  ReadersHold(m)' /\ WriterHolds(m)' /\ HoldersKnown(m)'
      BY DEF HoldersOK
    <3>1. /\ readers[m] \subseteq Threads /\ pending[m] \in Threads \cup {Nobody}
          /\ ReadersHold(m) /\ WriterHolds(m) /\ HoldersKnown(m)
      BY <1>t DEF IInv, HoldersOK
    <3>2. \A u \in Threads : m \in Held(todo[u]) /\ (u # t \/ m # l) => m \in Held(todo'[u])
      BY <2>2, <2>4
    <3>3. \A u \in Threads : m \in Held(todo'[u]) => m \in Held(todo[u]) /\ (u # t \/ m # l)
      BY <2>2, <2>4
    <3>4. pending'[m] = pending[m] /\ readers'[m] = IF m = l THEN readers[l] \ {t} ELSE readers[m]
      BY <1>t, <2>3
    <3>5. \A u \in Threads : At(u, "W", m) => At(u, "W", m)'
      BY <2>2, <2>5 DEF At, Idle
    <3>6. ReadersHold(m)'
      BY <2>2, <2>4, <3>1, <3>2, <3>4 DEF ReadersHold
    <3>7. WriterHolds(m)'
      BY <2>2, <2>3, <2>4, <2>5, <3>1, <3>2, <3>3, <3>4, <3>5 DEF WriterHolds
    <3>8. HoldersKnown(m)'
      BY <2>3, <3>1, <3>3, <3>4 DEF HoldersKnown
    <3> QED
      BY <3>6, <3>7, <3>8
  <2> QED
    BY <2>6, <2>7
<1>7. ASSUME NEW t \in Threads, NEW l \in LockNames, Unlock(t, l)
      PROVE  (HoldersOK /\ OrderOK)'
  <2> DEFINE ts == {t} \cup rwait[l]
  <2>1. At(t, "U", l) /\ pending[l] = t /\ readers[l] = {}
    <3>1. At(t, "U", l) /\ pending[l] = t
      BY <1>7 DEF Unlock
    <3>2. l \in Held(todo[t])
      BY <1>t, <1>o, <3>1, Moves
    <3> QED
      BY <1>h, <3>1, <3>2
  <2>2. ts \in SUBSET Threads /\ (\A u \in ts : ~Idle(u)) /\ t \notin rwait[l]
    BY <1>t, <2>1, AtOne DEF At
  <2>3. /\ \A u \in Threads : u \notin ts => todo'[u] = todo[u]
        /\ \A u \in ts : todo'[u] = Tail(todo[u])
    BY <1>7, <1>t, <2>2, AdvanceTyped DEF Unlock
  <2>4. /\ pending' = [pending EXCEPT ![l] = Nobody]
        /\ readers' = [readers EXCEPT ![l] = rwait[l]]
    BY <1>7 DEF Unlock
  <2>5. \A u \in ts : /\ Nested(Tail(todo[u]))
                      /\ \A h \in Held(todo[u]) : h = l \/ h \in Held(Tail(todo[u]))
                      /\ \A m \in LockNames : ~At(u, "W", m)
    <3>1. Nested(Tail(todo[t])) /\ \A h \in Held(todo[t]) : h = l \/ h \in Held(Tail(todo[t]))
      BY <1>m, <2>1
    <3>2. \A m \in LockNames : ~At(t, "W", m)
      BY <2>1, AtOne
    <3>3. ASSUME NEW u \in rwait[l]
          PROVE  /\ Nested(Tail(todo[u]))
                 /\ \A h \in Held(todo[u]) : h = l \/ h \in Held(Tail(todo[u]))
                 /\ \A m \in LockNames : ~At(u, "W", m)
      <4>1. u \in Threads /\ At(u, "R", l)
        BY <1>t
      <4> QED
        BY <1>m, <4>1, AtOne
    <3> QED
      BY <3>1, <3>2, <3>3
  <2>6. \A u \in rwait[l] : l \in Held(Tail(todo[u]))
    BY <1>m, <1>t
  <2>10. \A h \in Held(Tail(todo[t])) : h \in Held(todo[t]) /\ h # l
    BY <1>m, <2>1
  <2>11. \A u \in rwait[l] : \A h \in Held(Tail(todo[u])) : h \in Held(todo[u]) \/ h = l
    BY <1>m, <1>t
  <2>7. t \in ts /\ rwait[l] \subseteq ts /\ (\A u \in ts : u = t \/ u \in rwait[l])
    OBVIOUS
  <2> HIDE DEF ts
  <2>8. OrderOK'
    BY <1>o, <2>2, <2>3, <2>5 DEF OrderOK
  <2>9. HoldersOK'
    <3>1. \A m \in LockNames : m # l => pending'[m] = pending[m] /\ readers'[m] = readers[m]
      BY <1>t, <2>4
    <3>2. pending'[l] = Nobody /\ readers'[l] = rwait[l]
      BY <1>t, <2>4
    <3>3. \A u \in rwait[l] : l \in Held(todo'[u])
      BY <2>3, <2>6, <2>7
    <3>4. \A m \in LockNames : m # l => \A u \in Threads : m \in Held(todo[u]) => m \in Held(todo'[u])
      BY <2>3, <2>5
    <3>5. \A m \in LockNames : \A u \in Threads : At(u, "W", m) => At(u, "W", m)'
      BY <2>3, <2>5 DEF At, Idle
    <3>8. \A u \in Threads : \A h \in LockNames : h \in Held(todo'[u]) => h \in Held(todo[u]) \/ (h = l /\ u \in rwait[l])
      BY <2>3, <2>7, <2>10, <2>11
    <3>6. ASSUME NEW m \in LockNames, m # l
          PROVE  /\ \A u \in readers'[m] : m \in Held(todo'[u])
                 /\ \A u \in Threads : pending'[m] = u =>
                      /\ At(u, "W", m)' \/ m \in Held(todo'[u])
                      /\ u \notin readers'[m]
                      /\ m \in Held(todo'[u]) => readers'[m] = {}
                 /\ \A u \in Threads : m \in Held(todo'[u]) => u \in readers'[m] \/ pending'[m] = u
      <4>1. \A u \in readers[m] : m \in Held(todo[u]) /\ u \in Threads
        BY <1>t, <1>h
      <4>2. \A u \in Threads : pending[m] = u =>
              /\ At(u, "W", m) \/ m \in Held(todo[u])
              /\ u \notin readers[m]
              /\ m \in Held(todo[u]) => readers[m] = {}
        BY <1>h
      <4>3. \A u \in Threads : m \in Held(todo'[u]) => m \in Held(todo[u])
        BY <3>6, <3>8
      <4>4. \A u \in Threads : m \in Held(todo'[u]) => u \in readers[m] \/ pending[m] = u
        BY <1>h, <4>3
      <4> QED
        BY <3>1, <3>4, <3>5, <3>6, <4>1, <4>2, <4>3, <4>4
    <3>9. \A u \in Threads : l \in Held(todo'[u]) => u \in readers'[l]
      <4>1. \A u \in Threads : l \in Held(todo[u]) => u = t
        BY <1>h, <2>1
      <4>2. l \notin Held(todo'[t])
        BY <2>3, <2>7, <2>10
      <4> QED
        BY <3>2, <3>8, <4>1, <4>2
    <3>7. pending' \in [LockNames -> Threads \cup {Nobody}]
      BY <1>t, <2>4
    <3> QED
      BY <3>2, <3>3, <3>6, <3>7, <3>9 DEF HoldersOK, ReadersHold, WriterHolds, HoldersKnown, At, Idle
  <2> QED
    BY <2>8, <2>9
<1>8. ASSUME UNCHANGED vars
      PROVE  (HoldersOK /\ OrderOK)'
  BY <1>8, <1>h, <1>o DEF vars, HoldersOK, ReadersHold, WriterHolds, HoldersKnown, OrderOK, At, Idle
<1> QED
  BY <1>1, <1>2, <1>3, <1>4, <1>5, <1>6, <1>7, <1>8 DEF Next, Continue

-----------------------------------------------------------------------------
(* Nobody waits in a circle. *)

\* Some member of a group of waiting threads waits for the highest lock.
LEMMA Highest ==
  ASSUME NEW group, group # {}, NEW rank, \A t \in group : rank[t] \in 1..5
  PROVE  \E t \in group : \A u \in group : rank[u] <= rank[t]
<1>5. CASE \E t \in group : rank[t] = 5
  BY <1>5
<1>4. CASE ~(\E t \in group : rank[t] = 5) /\ \E t \in group : rank[t] = 4
  BY <1>4
<1>3. CASE ~(\E t \in group : rank[t] >= 4) /\ \E t \in group : rank[t] = 3
  BY <1>3
<1>2. CASE ~(\E t \in group : rank[t] >= 3) /\ \E t \in group : rank[t] = 2
  BY <1>2
<1>1. CASE ~(\E t \in group : rank[t] >= 2)
  BY <1>1
<1> QED
  BY <1>1, <1>2, <1>3, <1>4, <1>5

LEMMA NoCircle == IInv => NoCircularWait
<1> SUFFICES ASSUME IInv, NEW group \in SUBSET Threads, group # {},
                    \A t \in group : Blockers(t) \cap group # {}
             PROVE  FALSE
  BY DEF NoCircularWait
<1> USE ThreadNames
<1>t. /\ VarTypes /\ OrderOK
      /\ todo \in [Threads -> Seq(Calls)]
      /\ pending \in [LockNames -> Threads \cup {Nobody}]
      /\ readers \in [LockNames -> SUBSET Threads]
  BY DEF IInv, VarTypes, Calls
<1>h. \A l \in LockNames :
        /\ \A t \in readers[l] : l \in Held(todo[t])
        /\ pending[l] # Nobody =>
             /\ At(pending[l], "W", l) \/ l \in Held(todo[pending[l]])
             /\ pending[l] \notin readers[l]
  BY DEF IInv, HoldersOK, ReadersHold, WriterHolds, HoldersKnown
\* What a thread of the group waits for, and for whom.
<1> DEFINE want(t) == Head(todo[t]).lock
           rank == [t \in group |-> Rank[want(t)]]
<1>1. ASSUME NEW t \in group
      PROVE  /\ want(t) \in LockNames
             /\ \/ At(t, "W", want(t)) /\ pending[want(t)] = t /\ Blockers(t) = readers[want(t)]
                \/ /\ At(t, "W", want(t)) \/ At(t, "R", want(t))
                   /\ pending[want(t)] # t
                   /\ Blockers(t) = {pending[want(t)]} \ {Nobody}
  <2>1. Blockers(t) # {} /\ t \in Threads
    OBVIOUS
  <2>2. ~Idle(t)
    BY <2>1 DEF Blockers
  <2>3. Head(todo[t]) \in Calls /\ want(t) \in LockNames
    <3>1. todo[t] \in Seq(Calls) /\ todo[t] # << >>
      BY <1>t, <2>2 DEF Idle
    <3>2. Head(todo[t]) \in Calls
      BY <3>1, HeadTailProperties
    <3> QED
      BY <3>2 DEF Calls
  <2>4. /\ \A how, l : At(t, how, l) => l = want(t)
        /\ At(t, "W", want(t)) \/ At(t, "R", want(t)) \/ At(t, "U", want(t))
    <3>1. Head(todo[t]) = Do(Head(todo[t]).do, want(t)) /\ Head(todo[t]).do \in {"R", "W", "U"}
      BY <2>3 DEF Calls, Do
    <3>2. \A how, l : At(t, how, l) => l = want(t)
      BY DEF At, Do
    <3> QED
      BY <2>2, <3>1, <3>2 DEF At
  <2> DEFINE l == want(t)
  <2>5. CASE At(t, "W", l)
    <3>1. ~At(t, "R", l)
      BY <2>5, AtOne
    <3>2. CASE pending[l] = t
      <4>1. Blockers(t) = readers[l]
        BY <2>2, <2>5, <3>1, <3>2 DEF Blockers
      <4> QED
        BY <2>3, <2>5, <3>2, <4>1
    <3>3. CASE pending[l] # t
      <4>1. Blockers(t) = {pending[l]} \ {Nobody}
        BY <2>2, <2>5, <3>1, <3>3 DEF Blockers
      <4> QED
        BY <2>3, <2>5, <3>3, <4>1
    <3> QED
      BY <2>3, <3>2, <3>3
  <2>6. CASE At(t, "R", l)
    <3>1. ~At(t, "W", l)
      BY <2>6, AtOne
    <3>2. Blockers(t) = {pending[l]} \ {Nobody}
      BY <2>2, <2>6, <3>1 DEF Blockers
    <3>3. l \notin Held(todo[t])
      BY <1>t, <2>1, <2>3, <2>6, Moves
    <3>4. pending[l] # t
      BY <1>h, <2>1, <2>3, <3>1, <3>3
    <3> QED
      BY <2>3, <2>6, <3>2, <3>4
  <2>7. CASE At(t, "U", l)
    <3>1. ~At(t, "W", l) /\ ~At(t, "R", l)
      BY <2>7, AtOne
    <3> QED
      BY <2>1, <3>1 DEF Blockers
  <2> QED
    BY <2>4, <2>5, <2>6, <2>7
\* A thread of the group that holds a lock wants a higher one.
<1>2. ASSUME NEW t \in group, NEW l \in LockNames, l \in Held(todo[t])
      PROVE  Rank[l] < Rank[want(t)]
  BY <1>1, <1>2, <1>t, Moves
<1>3. \A t \in group : Rank[want(t)] \in 1..5
  BY <1>1, RanksAreNat
<1> HIDE DEF want
<1>4. PICK t \in group : \A u \in group : Rank[want(u)] <= Rank[want(t)]
  <2>1. \A t \in group : rank[t] = Rank[want(t)] /\ rank[t] \in 1..5
    BY <1>3
  <2> HIDE DEF rank
  <2>2. \E t \in group : \A u \in group : rank[u] <= rank[t]
    BY <2>1, Highest
  <2> QED
    BY <2>1, <2>2
<1> DEFINE l == want(t)
<1>5. l \in LockNames /\ Rank[l] \in 1..5
  BY <1>1, <1>3
\* So nobody in the group holds that lock.
<1>6. \A u \in group : l \notin Held(todo[u])
  BY <1>2, <1>3, <1>4, <1>5
<1>7. readers[l] \cap group = {}
  BY <1>6, <1>h, <1>5
<1>8. PICK b \in group : b \in Blockers(t)
  OBVIOUS
<1>9. pending[l] = b /\ b # Nobody
  BY <1>1, <1>7, <1>8
<1>10. At(b, "W", l) /\ want(b) = l
  <2>1. At(b, "W", l)
    BY <1>5, <1>6, <1>9, <1>h
  <2> QED
    BY <2>1 DEF At, Do, want
<1>11. Blockers(b) = readers[l]
  BY <1>1, <1>9, <1>10
<1> QED
  BY <1>7, <1>11

LEMMA Invariant ==
  ASSUME "evict" \notin ProcOps
  PROVE  Spec => []IInv
<1>1. Init => IInv
  BY TypesInit, HoldersInit DEF TypesInv, IInv
<1>2. IInv /\ [Next]_vars => IInv'
  <2> SUFFICES ASSUME IInv, [Next]_vars PROVE IInv'
    OBVIOUS
  <2>1. TypesInv /\ TypesInv'
    BY TypesStep DEF TypesInv, IInv
  <2>2. (HoldersOK /\ OrderOK)'
    BY HoldersStep
  <2> QED
    BY <2>1, <2>2 DEF TypesInv, IInv
<1> QED
  BY <1>1, <1>2, PTL DEF Spec

(***************************************************************************)
(* The calls that the goroutines have left, the writers, the readers and   *)
(* those that wait keep their types, nobody waits to read a lock that no   *)
(* writer has announced himself for, and no operation unlocks a lock that  *)
(* it does not hold (the RWMutexes of registery.go, instance.go, guard.go, *)
(* scheduler.go), for any number of requests at once.  Evictions are left  *)
(* out: they take alock inside alock, which the order of the locks does    *)
(* not allow, and stop there.                                              *)
(***************************************************************************)
THEOREM Types ==
  ASSUME "evict" \notin ProcOps
  PROVE  Spec => []TypeOK
<1>1. IInv => TypeOK
  <2> SUFFICES ASSUME IInv PROVE TypeOK
    OBVIOUS
  <2>1. VarTypes /\ OrderOK /\ HoldersOK
    BY DEF IInv
  <2>2. \A t \in Threads, l \in LockNames : At(t, "U", l) => l \in Held(todo[t])
    BY <2>1, Moves
  <2>3. \A t \in Threads, l \in LockNames : At(t, "U", l) => t \in readers[l] \/ pending[l] = t
    BY <2>1, <2>2 DEF HoldersOK, HoldersKnown
  <2> QED
    BY <2>1, <2>3 DEF VarTypes, TypeOK, Calls
<1> QED
  BY <1>1, Invariant, PTL

(***************************************************************************)
(* However many requests are served, no goroutines wait in a circle on the *)
(* locks of the registry, the scheduler and the guard, as long as the proc *)
(* goroutine does not get to evict (registery.go:319-325: it takes alock   *)
(* again that it holds; with it the runs show that the node stops).        *)
(***************************************************************************)
THEOREM NoDeadlock ==
  ASSUME "evict" \notin ProcOps
  PROVE  Spec => []NoCircularWait
BY Invariant, NoCircle, PTL

=============================================================================
