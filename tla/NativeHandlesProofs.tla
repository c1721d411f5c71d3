------------------------- MODULE NativeHandlesProofs --------------------------
(***************************************************************************)
(* The handle registries for any number of threads and objects.            *)
(*                                                                         *)
(* What is bound to a handle is what the host was given, and what a thread *)
(* has drawn a handle for.  No handle of a counter is bound twice, since   *)
(* the counter's value is unused: in the C ABI it only goes up and stays   *)
(* at 0 in the end; in the Android bridge it wraps, and its place in the   *)
(* cycle is the number of objects that have drawn from it.                 *)
(***************************************************************************)
EXTENDS NativeHandles, FiniteSetTheorems, TLAPS

Bindings == given \union {<<handle[t], object[t]>> : t \in {u \in Threads : pc[u] = "drawn"}}

\* An object is opened by one thread and bound once.
OpenedOnce ==
  /\ \A t \in Threads : pc[t] \in {"made", "drawn"} => object[t] \in Objects \ fresh
  /\ \A t \in Threads : pc[t] = "made" => \A b \in Bindings : b[2] # object[t]
  /\ \A t \in Threads : pc[t] = "drawn" => \A g \in given : g[2] # object[t]
  /\ \A t, u \in Threads : pc[t] \in {"made", "drawn"} /\ pc[u] \in {"made", "drawn"}
                             /\ object[t] = object[u] => t = u
  /\ \A b \in Bindings : b[2] \in Objects \ fresh

\* A handle of a counter is bound once.
Unique ==
  \A b, c \in Bindings :
    /\ b[2] = c[2] => b = c
    /\ b[1] = c[1] /\ Counter(KindOf(b[2])) = Counter(KindOf(c[2])) => b = c

OfKind(k) == IF k = "client" THEN Clients ELSE Identities

\* The objects of a kind that have drawn a handle.
Taken(k) == {o \in OfKind(k) : o \notin fresh /\ \A t \in Threads : pc[t] = "made" => object[t] # o}

\* The place of a handle in the cycle of an i32 counter that starts at 1.
Cycle == 2 * Last["jni"] + 2
Position(h) == IF h >= 1 THEN h - 1 ELSE h + Cycle - 1

NextUnused ==
  /\ bridge = "ffi" => \A b \in Bindings : b[1] >= 1 /\ (next["client"] = 0 \/ b[1] < next["client"])
  /\ bridge = "jni" =>
       /\ \A k \in Kinds : Position(next[k]) = Cardinality(Taken(k)) \/ Cardinality(Taken(k)) = Cycle
       /\ \A b \in Bindings : Position(b[1]) < Cardinality(Taken(KindOf(b[2])))

\* What is in a map was given to the host, and what was closed is not.
Registered ==
  \A k \in Kinds, h \in Handles : registry[k][h] # 0 =>
    /\ KindOf(registry[k][h]) = k
    /\ <<h, registry[k][h]>> \in given \ gone

Absent(o) == \A k \in Kinds, h \in Handles : registry[k][h] # o

\* An object that is being closed, or was, is in no map any more.
Closing ==
  /\ \A t \in Threads : pc[t] = "closing" =>
       /\ object[t] \in Objects /\ closes[object[t]] = 0 /\ Absent(object[t])
       /\ \E g \in given : g[2] = object[t]
  /\ \A t, u \in Threads : pc[t] = "closing" /\ pc[u] = "closing" /\ object[t] = object[u] => t = u
  /\ \A o \in Objects : closes[o] # 0 =>
       closes[o] = 1 /\ Absent(o) /\ \E g \in given : g[2] = o

IInv ==
  /\ TypeOK /\ OpenedOnce /\ Unique /\ NextUnused /\ Registered /\ LeadsToOwn
  /\ Closing /\ NeverAnother
-------------------------------------------------------------------------------
(* The counters.                                                           *)

\* The values of a counter are integers, and 0 and 1 are among them.
LEMMA HandlesType ==
  ASSUME TypeOK
  PROVE  /\ MAX \in Nat \ {0} /\ Handles \subseteq Int /\ 0 \in Handles /\ 1 \in Handles
         /\ \A n \in Handles : After(n) \in Handles
         /\ bridge \in {"ffi", "jni"}
<1>1. MAX \in Nat \ {0} /\ bridge \in {"ffi", "jni"}
  BY HandlesAssumption DEF TypeOK, MAX
<1> HIDE DEF MAX
<1>2. Handles \subseteq Int /\ 0 \in Handles /\ 1 \in Handles
  BY <1>1 DEF Handles
<1>3. ASSUME NEW n \in Handles PROVE After(n) \in Handles
  BY <1>1, <1>3 DEF Handles, After
<1> QED BY <1>1, <1>2, <1>3

\* The library is chosen once, so what follows from it stays.
LEMMA BridgeSame ==
  ASSUME bridge' = bridge
  PROVE  /\ MAX' = MAX /\ Handles' = Handles
         /\ \A k : Counter(k)' = Counter(k)
BY DEF MAX, Handles, Counter

\* What is bound are handles with objects.
LEMMA BindingsType ==
  ASSUME TypeOK, OpenedOnce
  PROVE  Bindings \subseteq Handles \X Objects
BY DEF TypeOK, OpenedOnce, Bindings

\* The kind of an object.
LEMMA KindType ==
  ASSUME NEW o \in Objects
  PROVE  KindOf(o) \in Kinds /\ o \in OfKind(KindOf(o)) /\ o # 0
         /\ (o \in Clients <=> KindOf(o) = "client")
BY HandlesAssumption DEF KindOf, Kinds, OfKind, Objects

\* In the Android bridge the objects that have drawn are finitely many, and
\* not all as long as one has still to draw.
LEMMA TakenBelow ==
  ASSUME TypeOK, bridge = "jni", NEW k \in Kinds
  PROVE  /\ IsFiniteSet(Taken(k)) /\ Cardinality(Taken(k)) \in Nat
         /\ Cardinality(Taken(k)) <= Cycle
         /\ \A o \in OfKind(k) : o \notin Taken(k) => Cardinality(Taken(k)) < Cycle
<1>1. "jni" \in Bridges /\ Last["jni"] \in Nat
  BY HandlesAssumption DEF TypeOK
<1>2. OfKind(k) \in SUBSET Objects
  BY DEF OfKind, Objects
<1>3. IsFiniteSet(OfKind(k))
  BY <1>1, <1>2, WrapAssumption, FS_Subset
<1>4. Cardinality(OfKind(k)) <= Cycle /\ Cycle \in Nat
  BY <1>1, WrapAssumption DEF OfKind, Cycle
<1>5. Taken(k) \in SUBSET OfKind(k)
  BY DEF Taken
<1>6. /\ IsFiniteSet(Taken(k)) /\ Cardinality(Taken(k)) <= Cardinality(OfKind(k))
      /\ Cardinality(OfKind(k)) = Cardinality(Taken(k)) => OfKind(k) = Taken(k)
  BY <1>3, <1>5, FS_Subset
<1>7. Cardinality(OfKind(k)) \in Nat /\ Cardinality(Taken(k)) \in Nat
  BY <1>3, <1>6, FS_CardinalityType
<1> QED BY <1>4, <1>6, <1>7

\* A step that closes nothing keeps what is said of closing.
LEMMA ClosingKept ==
  ASSUME Closing, NEW t \in Threads, Handles' = Handles, registry' = registry,
         given' = given, closes' = closes, pc'[t] # "closing",
         \A u \in Threads : u # t => pc'[u] = pc[u] /\ object'[u] = object[u]
  PROVE  Closing'
<1>1. \A u \in Threads : pc'[u] = "closing" => pc[u] = "closing" /\ object'[u] = object[u]
  BY ZenonT(30)
<1>2. \A o : Absent(o) => Absent(o)'
  BY ZenonT(30) DEF Absent
<1>3. ASSUME NEW u \in Threads, pc'[u] = "closing"
      PROVE  /\ object'[u] \in Objects /\ closes'[object'[u]] = 0 /\ Absent(object[u])'
             /\ \E g \in given' : g[2] = object'[u]
  <2>1. PICK o \in Objects : o = object[u] /\ o = object'[u] /\ closes[o] = 0 /\ Absent(o)
                            /\ \E g \in given : g[2] = o
    BY <1>1, <1>3, ZenonT(30) DEF Closing
  <2>2. Absent(o)'
    BY <1>2, <2>1, ZenonT(30)
  <2>3. Absent(object[u])'
    BY <2>1, <2>2 DEF Absent
  <2> QED BY <2>1, <2>3, ZenonT(30)
<1>4. \A u, v \in Threads : pc'[u] = "closing" /\ pc'[v] = "closing" /\ object'[u] = object'[v] => u = v
  <2>1. \A u, v \in Threads : pc[u] = "closing" /\ pc[v] = "closing" /\ object[u] = object[v] => u = v
    BY ZenonT(30) DEF Closing
  <2> QED BY <1>1, <2>1
<1>5. \A o \in Objects : closes'[o] # 0 => closes'[o] = 1 /\ Absent(o)' /\ \E g \in given' : g[2] = o
  BY <1>2, ZenonT(30) DEF Closing
<1> QED BY <1>3, <1>4, <1>5, ZenonT(30) DEF Closing

-------------------------------------------------------------------------------
(* Opening.                                                                *)

\* Making an object changes nothing that is bound, taken or registered.
LEMMA OpenStep ==
  ASSUME IInv, NEW t \in Threads, Open(t)
  PROVE  IInv'
<1> USE DEF IInv
<1>1. PICK o \in fresh : object' = [object EXCEPT ![t] = o] /\ fresh' = fresh \ {o}
  BY ZenonT(30) DEF Open
<1>2. /\ pc[t] = "idle" /\ pc' = [pc EXCEPT ![t] = "made"]
      /\ bridge' = bridge /\ next' = next /\ registry' = registry /\ handle' = handle
      /\ meant' = meant /\ given' = given /\ gone' = gone /\ closes' = closes
  BY DEF Open, Goto
<1>3. o \in Objects /\ Handles' = Handles /\ \A k : Counter(k)' = Counter(k)
  BY <1>1, <1>2, BridgeSame DEF TypeOK
<1>4. TypeOK'
  BY <1>1, <1>2, <1>3 DEF TypeOK
<1>5. /\ pc'[t] = "made" /\ object'[t] = o
      /\ \A u \in Threads : u # t => pc'[u] = pc[u] /\ object'[u] = object[u]
  BY <1>1, <1>2 DEF TypeOK
<1>6. Bindings' = Bindings
  <2>1. {u \in Threads : pc[u] = "drawn"}' = {u \in Threads : pc[u] = "drawn"}
    BY <1>2, <1>5
  <2>2. \A u \in {v \in Threads : pc[v] = "drawn"} : object'[u] = object[u]
    BY <1>2, <1>5
  <2> QED BY <1>2, <2>1, <2>2 DEF Bindings
<1>7. OpenedOnce'
  <2>1. \A u \in Threads : u # t /\ pc[u] \in {"made", "drawn"} => object[u] # o
    BY DEF OpenedOnce
  <2>2. \A b \in Bindings : b[2] # o
    BY DEF OpenedOnce
  <2>3. \A u \in Threads : pc'[u] \in {"made", "drawn"} => object'[u] \in Objects \ fresh'
    BY <1>1, <1>3, <1>5 DEF OpenedOnce
  <2>4. \A u \in Threads : pc'[u] = "made" => \A b \in Bindings : b[2] # object'[u]
    BY <1>5, <2>2 DEF OpenedOnce
  <2>5. \A u \in Threads : pc'[u] = "drawn" => \A g \in given : g[2] # object'[u]
    BY <1>5 DEF OpenedOnce
  <2>6. \A u, v \in Threads : pc'[u] \in {"made", "drawn"} /\ pc'[v] \in {"made", "drawn"}
                                /\ object'[u] = object'[v] => u = v
    BY <1>5, <2>1 DEF OpenedOnce
  <2>7. \A b \in Bindings : b[2] \in Objects \ fresh'
    BY <1>1 DEF OpenedOnce
  <2> QED BY <1>2, <1>6, <2>3, <2>4, <2>5, <2>6, <2>7 DEF OpenedOnce
<1>8. Unique'
  BY <1>3, <1>6 DEF Unique
<1>9. \A k : Taken(k)' = Taken(k)
  <2>1. ASSUME NEW x
        PROVE  (x \notin fresh' /\ \A u \in Threads : pc'[u] = "made" => object'[u] # x)
               <=> (x \notin fresh /\ \A u \in Threads : pc[u] = "made" => object[u] # x)
    <3>1. CASE x = o
      BY <1>1, <1>5, <3>1
    <3>2. CASE x # o
      BY <1>1, <1>2, <1>5, <3>2
    <3> QED BY <3>1, <3>2
  <2> QED BY <2>1 DEF Taken
<1>10. NextUnused'
  BY <1>2, <1>6, <1>9 DEF NextUnused
<1>11. Registered' /\ LeadsToOwn'
  BY <1>2, <1>3 DEF Registered, LeadsToOwn
<1>12. Closing'
  <2>1. pc'[t] # "closing"
    BY <1>5, ZenonT(30)
  <2> QED BY <1>2, <1>3, <1>5, <2>1, ClosingKept, ZenonT(30)
<1>13. NeverAnother'
  BY <1>2, <1>5 DEF NeverAnother
<1> QED BY <1>4, <1>7, <1>8, <1>10, <1>11, <1>12, <1>13

\* A drawn handle is bound to no other object.
LEMMA DrawStep ==
  ASSUME IInv, NEW t \in Threads, Draw(t)
  PROVE  IInv'
<1> USE DEF IInv
<1>o. PICK o \in Objects : o = object[t] /\ o \notin fresh
  BY DEF Draw, OpenedOnce
<1>k. PICK k \in Kinds : k = KindOf(o) /\ o \in OfKind(k) /\ o # 0
  BY KindType
<1>c. PICK c \in Kinds : c = Counter(k)
  BY DEF Counter, Kinds
<1>n. PICK n \in Handles : n = next[c]
  BY DEF TypeOK
<1>1. pc[t] = "made"
  BY DEF Draw
<1>2. /\ bridge' = bridge /\ registry' = registry /\ meant' = meant
      /\ given' = given /\ gone' = gone /\ fresh' = fresh /\ closes' = closes
      /\ next' = [next EXCEPT ![c] = IF bridge = "ffi" /\ n = 0 THEN 0 ELSE After(n)]
  BY <1>o, <1>k, <1>c, <1>n DEF Draw
<1>3. \/ /\ Exhausted(k, n) /\ object' = [object EXCEPT ![t] = 0]
         /\ pc' = [pc EXCEPT ![t] = "idle"] /\ handle' = handle
      \/ /\ ~Exhausted(k, n) /\ handle' = [handle EXCEPT ![t] = n]
         /\ pc' = [pc EXCEPT ![t] = "drawn"] /\ object' = object
  BY <1>o, <1>k, <1>c, <1>n DEF Draw, Goto
<1>4. Handles' = Handles /\ \A x : Counter(x)' = Counter(x)
  BY <1>2, BridgeSame
<1>5. n \in Int /\ After(n) \in Handles /\ 0 \in Handles /\ MAX \in Nat \ {0} /\ bridge \in {"ffi", "jni"}
  BY HandlesType
<1>6. /\ \A u \in Threads : u # t => pc'[u] = pc[u] /\ object'[u] = object[u] /\ handle'[u] = handle[u]
      /\ \/ Exhausted(k, n) /\ pc'[t] = "idle" /\ object'[t] = 0
         \/ ~Exhausted(k, n) /\ pc'[t] = "drawn" /\ object'[t] = o /\ handle'[t] = n
  BY <1>o, <1>3 DEF TypeOK
<1>7. TypeOK'
  <2>1. next' \in [Kinds -> Handles]
    BY <1>o, <1>k, <1>1, <1>2, <1>5 DEF TypeOK
  <2>2. /\ pc' \in [Threads -> {"idle", "made", "drawn", "calling", "closing"}]
        /\ handle' \in [Threads -> Handles] /\ object' \in [Threads -> Objects \union {0}]
    BY <1>o, <1>k, <1>1, <1>3, ZenonT(30) DEF TypeOK
  <2> QED BY <1>2, <1>4, <2>1, <2>2 DEF TypeOK
<1>8. Bindings' = IF Exhausted(k, n) THEN Bindings ELSE Bindings \union {<<n, o>>}
  <2> DEFINE Drawn == {u \in Threads : pc[u] = "drawn"}
  <2>1. \A u \in Drawn : u # t /\ u \in Drawn' /\ handle'[u] = handle[u] /\ object'[u] = object[u]
    BY <1>o, <1>k, <1>1, <1>6
  <2>2. Drawn' = IF Exhausted(k, n) THEN Drawn ELSE Drawn \union {t}
    BY <1>o, <1>k, <1>1, <1>6
  <2> HIDE DEF Drawn
  <2>3. CASE Exhausted(k, n)
    <3>1. {<<handle'[u], object'[u]>> : u \in Drawn'} = {<<handle[u], object[u]>> : u \in Drawn}
      BY <2>1, <2>2, <2>3
    <3> QED BY <1>2, <2>3, <3>1 DEF Bindings, Drawn
  <2>4. CASE ~Exhausted(k, n)
    <3>1. {<<handle'[u], object'[u]>> : u \in Drawn'}
            = {<<handle[u], object[u]>> : u \in Drawn} \union {<<n, o>>}
      BY <1>6, <2>1, <2>2, <2>4, ZenonT(30)
    <3> QED BY <1>2, <2>4, <3>1 DEF Bindings, Drawn
  <2> QED BY <2>3, <2>4
<1>9. OpenedOnce'
  <2>1. /\ \A u \in Threads : u # t /\ pc[u] \in {"made", "drawn"} => object[u] # o
        /\ \A b \in Bindings : b[2] # o
    BY <1>o, <1>k, <1>1, ZenonT(30) DEF OpenedOnce
  <2>2. \A u \in Threads : pc'[u] \in {"made", "drawn"} => object'[u] \in Objects \ fresh
    BY <1>o, <1>k, <1>1, <1>6, ZenonT(30) DEF OpenedOnce
  <2>3. \A u \in Threads : pc'[u] = "made" => \A b \in Bindings' : b[2] # object'[u]
    <3>1. \A u \in Threads : pc[u] = "made" => \A b \in Bindings : b[2] # object[u]
      BY ZenonT(30) DEF OpenedOnce
    <3>2. \A u \in Threads : pc'[u] = "made" => u # t /\ pc[u] = "made" /\ object'[u] = object[u]
      BY <1>6, ZenonT(30)
    <3>3. \A b \in Bindings' : b \in Bindings \/ b[2] = o
      <4>1. <<n, o>>[2] = o
        OBVIOUS
      <4> QED BY <1>8, <4>1, ZenonT(30)
    <3> QED BY <2>1, <3>1, <3>2, <3>3, ZenonT(30)
  <2>4. \A u \in Threads : pc'[u] = "drawn" => \A g \in given : g[2] # object'[u]
    BY <1>6, <2>1 DEF OpenedOnce, Bindings
  <2>5. \A u, v \in Threads : pc'[u] \in {"made", "drawn"} /\ pc'[v] \in {"made", "drawn"}
                                /\ object'[u] = object'[v] => u = v
    BY <1>6, <2>1 DEF OpenedOnce
  <2>6. \A b \in Bindings' : b[2] \in Objects \ fresh
    BY <1>o, <1>k, <1>1, <1>8 DEF OpenedOnce
  <2> QED BY <1>2, <2>2, <2>3, <2>4, <2>5, <2>6, ZenonT(30) DEF OpenedOnce
<1>10. \A x \in Kinds : Taken(x)' = IF x = k THEN Taken(x) \union {o} ELSE Taken(x)
  <2>1. ASSUME NEW x
        PROVE  (x \notin fresh' /\ \A u \in Threads : pc'[u] = "made" => object'[u] # x)
               <=> x = o \/ (x \notin fresh /\ \A u \in Threads : pc[u] = "made" => object[u] # x)
    <3>1. CASE x = o
      <4>1. \A u \in Threads : pc'[u] = "made" => u # t /\ pc[u] = "made" /\ object'[u] = object[u]
        BY <1>6, ZenonT(30)
      <4>2. \A u \in Threads : u # t /\ pc[u] = "made" => object[u] # o
        BY <1>o, <1>1, ZenonT(30) DEF OpenedOnce
      <4> QED BY <1>o, <1>2, <3>1, <4>1, <4>2, ZenonT(30)
    <3>2. CASE x # o
      BY <1>o, <1>k, <1>1, <1>2, <1>6, <3>2
    <3> QED BY <3>1, <3>2, ZenonT(30)
  <2>2. \A x \in Kinds : o \in OfKind(x) <=> x = k
    BY <1>k, HandlesAssumption DEF OfKind, Kinds, KindOf, Objects
  <2> QED BY <2>1, <2>2 DEF Taken
<1>11. o \notin Taken(k)
  BY <1>o, <1>k, <1>1 DEF Taken
<1>12. ASSUME bridge = "ffi"
       PROVE  NextUnused' /\ (~Exhausted(k, n) => \A b \in Bindings : b[1] # n)
  <2>1. c = "client" /\ n = next["client"] /\ n \in 0 .. MAX /\ (Exhausted(k, n) <=> n = 0)
    BY <1>c, <1>n, <1>12 DEF Counter, Handles, Exhausted
  <2>2. next'["client"] = IF n = 0 \/ n = MAX THEN 0 ELSE n + 1
    BY <1>o, <1>k, <1>1, <1>2, <1>12, <2>1 DEF TypeOK, After
  <2>3. \A b \in Bindings : b[1] \in Int /\ b[1] >= 1 /\ (n = 0 \/ b[1] < n)
    BY <1>12, <2>1, BindingsType, HandlesType, ZenonT(30) DEF NextUnused
  <2>4. \A b \in Bindings' : b[1] >= 1 /\ (next'["client"] = 0 \/ b[1] < next'["client"])
    BY <1>5, <1>8, <2>1, <2>2, <2>3
  <2>5. NextUnused'
    BY <1>2, <1>12, <2>4 DEF NextUnused
  <2>6. ~Exhausted(k, n) => \A b \in Bindings : b[1] # n
    BY <1>5, <2>1, <2>3
  <2> QED BY <2>5, <2>6
<1>13. ASSUME bridge = "jni"
       PROVE  NextUnused' /\ \A b \in Bindings : KindOf(b[2]) = k => b[1] # n
  <2>1. c = k /\ n = next[k] /\ MAX = Last["jni"] /\ n \in -MAX - 1 .. MAX
    BY <1>c, <1>n, <1>13 DEF Counter, Handles, MAX
  <2>2. next' = [next EXCEPT ![k] = After(n)]
    BY <1>2, <1>13, <2>1
  <2>3. /\ IsFiniteSet(Taken(k)) /\ Cardinality(Taken(k)) \in Nat /\ Cardinality(Taken(k)) < Cycle
    BY <1>o, <1>k, <1>1, <1>11, <1>13, TakenBelow, ZenonT(30)
  <2>4. Position(n) = Cardinality(Taken(k))
    BY <1>o, <1>k, <1>1, <1>13, <2>1, <2>3 DEF NextUnused
  <2>5. Cardinality(Taken(k)') = Cardinality(Taken(k)) + 1
    <3>1. Taken(k)' = Taken(k) \union {o}
      BY <1>o, <1>k, <1>1, <1>10, ZenonT(30)
    <3> QED BY <1>11, <2>3, <3>1, FS_AddElement, ZenonT(30)
  <2>6. Position(After(n)) = Position(n) + 1 \/ Position(n) + 1 = Cycle
    BY <1>5, <1>13, <2>1 DEF Position, After, Cycle
  <2>7. \A x \in Kinds : Position(next'[x]) = Cardinality(Taken(x)') \/ Cardinality(Taken(x)') = Cycle
    <3>1. ASSUME NEW x \in Kinds, x # k
          PROVE  next'[x] = next[x] /\ Taken(x)' = Taken(x)
      BY <1>10, <2>2, <3>1 DEF TypeOK
    <3>2. next'[k] = After(n)
      BY <1>o, <1>k, <1>1, <2>2 DEF TypeOK
    <3>3. Position(next'[k]) = Cardinality(Taken(k)') \/ Cardinality(Taken(k)') = Cycle
      BY <2>4, <2>5, <2>6, <3>2
    <3> QED BY <1>13, <3>1, <3>3 DEF NextUnused
  <2>8. \A b \in Bindings : Position(b[1]) \in Int /\ Position(b[1]) < Cardinality(Taken(KindOf(b[2])))
    <3>1. ASSUME NEW b \in Bindings PROVE Position(b[1]) \in Int
      <4>1. b[1] \in Int
        BY BindingsType, HandlesType
      <4>2. Cycle \in Int
        BY <1>5, <2>1 DEF Cycle
      <4> QED BY <4>1, <4>2 DEF Position
    <3> QED BY <1>13, <3>1 DEF NextUnused
  <2>9. \A b \in Bindings' : Position(b[1]) < Cardinality(Taken(KindOf(b[2]))')
    <3>1. ASSUME NEW b \in Bindings
          PROVE  Position(b[1]) < Cardinality(Taken(KindOf(b[2]))')
      <4>1. CASE KindOf(b[2]) = k
        BY <2>3, <2>5, <2>8, <4>1
      <4>2. CASE KindOf(b[2]) # k
        <5>1. KindOf(b[2]) \in Kinds
          BY BindingsType, KindType
        <5> QED BY <1>10, <2>8, <4>2, <5>1
      <4> QED BY <4>1, <4>2
    <3>2. Position(n) < Cardinality(Taken(k)')
      BY <2>3, <2>4, <2>5
    <3> QED BY <1>k, <1>8, <3>1, <3>2
  <2>10. NextUnused'
    BY <1>2, <1>13, <2>7, <2>9 DEF NextUnused
  <2>11. \A b \in Bindings : KindOf(b[2]) = k => b[1] # n
    BY <2>3, <2>4, <2>8
  <2> QED BY <2>10, <2>11
<1>14. Unique'
  <2>1. ~Exhausted(k, n) => \A b \in Bindings : b[2] # o /\ (b[1] = n => Counter(KindOf(b[2])) # c)
    <3>1. \A b \in Bindings : b[2] # o
      BY <1>o, <1>k, <1>1 DEF OpenedOnce
    <3> QED BY <1>c, <1>5, <1>12, <1>13, <3>1, ZenonT(30) DEF Counter
  <2>2. Counter(KindOf(o)) = c
    BY <1>c, <1>k
  <2>3. \A x, y \in Bindings' :
          /\ x[2] = y[2] => x = y
          /\ x[1] = y[1] /\ Counter(KindOf(x[2])) = Counter(KindOf(y[2])) => x = y
    BY <1>8, <2>1, <2>2 DEF Unique
  <2> QED BY <1>4, <2>3 DEF Unique
<1>15. Registered' /\ LeadsToOwn'
  BY <1>2, <1>4, ZenonT(30) DEF Registered, LeadsToOwn
<1>16. Closing'
  <2>1. pc'[t] # "closing"
    BY <1>6, ZenonT(30)
  <2> QED BY <1>2, <1>4, <1>6, <2>1, ClosingKept, ZenonT(30)
<1>17. NeverAnother'
  BY <1>2, <1>6 DEF NeverAnother
<1> QED BY <1>5, <1>7, <1>9, <1>12, <1>13, <1>14, <1>15, <1>16, <1>17, ZenonT(30)

\* The object is put where nothing is: no other object has the handle.
LEMMA InsertStep ==
  ASSUME IInv, NEW t \in Threads, Insert(t)
  PROVE  IInv'
<1> USE DEF IInv
<1>o. PICK o \in Objects : o = object[t] /\ o \notin fresh
  BY DEF Insert, OpenedOnce
<1>k. PICK k \in Kinds : k = KindOf(o) /\ o # 0
  BY KindType
<1>h. PICK h \in Handles : h = handle[t]
  BY DEF TypeOK
<1>1. /\ pc[t] = "drawn" /\ pc' = [pc EXCEPT ![t] = "idle"]
      /\ registry' = [registry EXCEPT ![k][h] = o]
      /\ given' = given \union {<<h, o>>}
      /\ object' = [object EXCEPT ![t] = 0]
      /\ bridge' = bridge /\ next' = next /\ handle' = handle /\ meant' = meant
      /\ gone' = gone /\ fresh' = fresh /\ closes' = closes
  BY <1>o, <1>k, <1>h DEF Insert, Goto
<1>2. Handles' = Handles /\ \A x : Counter(x)' = Counter(x)
  BY <1>1, BridgeSame
<1>3. /\ \A u \in Threads : u # t => pc'[u] = pc[u] /\ object'[u] = object[u]
      /\ pc'[t] = "idle"
      /\ \A x \in Kinds, i \in Handles :
           registry'[x][i] = IF x = k /\ i = h THEN o ELSE registry[x][i]
  BY <1>1, ZenonT(30) DEF TypeOK
<1>4. TypeOK'
  <2>1. registry' \in [Kinds -> [Handles -> Objects \union {0}]]
    BY <1>1 DEF TypeOK
  <2>2. given' \subseteq Handles \X Objects /\ gone' \subseteq given'
    BY <1>1 DEF TypeOK
  <2> QED BY <1>1, <1>2, <2>1, <2>2 DEF TypeOK
<1>5. /\ <<h, o>> \in Bindings /\ \A g \in given : g[2] # o
      /\ \A u \in Threads : u # t /\ pc[u] \in {"made", "drawn"} => object[u] # o
  BY <1>o, <1>h, <1>1 DEF OpenedOnce, Bindings
<1>6. Bindings' = Bindings
  <2> DEFINE Drawn == {u \in Threads : pc[u] = "drawn"}
  <2>1. /\ Drawn = Drawn' \union {t}
        /\ \A u \in Drawn' : handle'[u] = handle[u] /\ object'[u] = object[u]
    BY <1>1, <1>3
  <2> HIDE DEF Drawn
  <2>2. {<<handle[u], object[u]>> : u \in Drawn}
          = {<<handle'[u], object'[u]>> : u \in Drawn'} \union {<<h, o>>}
    BY <1>o, <1>h, <2>1, ZenonT(30)
  <2> QED BY <1>1, <2>2 DEF Bindings, Drawn
<1>7. OpenedOnce'
  <2>1. \A u \in Threads : pc'[u] \in {"made", "drawn"} => u # t
    BY <1>3, ZenonT(30)
  <2>2. \A u \in Threads : pc'[u] \in {"made", "drawn"} => object'[u] \in Objects \ fresh
    BY <1>3, <2>1 DEF OpenedOnce
  <2>3. \A u \in Threads : pc'[u] = "made" => \A b \in Bindings : b[2] # object'[u]
    <3>1. \A u \in Threads : pc[u] = "made" => \A b \in Bindings : b[2] # object[u]
      BY ZenonT(30) DEF OpenedOnce
    <3> QED BY <1>3, <2>1, <3>1, ZenonT(30)
  <2>4. \A u \in Threads : pc'[u] = "drawn" => \A g \in given' : g[2] # object'[u]
    <3>1. \A u \in Threads : pc[u] = "drawn" => \A g \in given : g[2] # object[u]
      BY ZenonT(30) DEF OpenedOnce
    <3>2. \A u \in Threads : pc'[u] = "drawn" =>
            pc[u] = "drawn" /\ object'[u] = object[u] /\ object[u] # o
      BY <1>3, <1>5, <2>1, ZenonT(30)
    <3>3. \A g \in given' : g \in given \/ g[2] = o
      <4>1. <<h, o>>[2] = o
        OBVIOUS
      <4> QED BY <1>1, <4>1, ZenonT(30)
    <3> QED BY <3>1, <3>2, <3>3, ZenonT(30)
  <2>5. \A u, v \in Threads : pc'[u] \in {"made", "drawn"} /\ pc'[v] \in {"made", "drawn"}
                                /\ object'[u] = object'[v] => u = v
    BY <1>3, <2>1 DEF OpenedOnce
  <2> QED BY <1>1, <1>6, <2>2, <2>3, <2>4, <2>5 DEF OpenedOnce
<1>8. Unique'
  BY <1>2, <1>6 DEF Unique
<1>9. \A x : Taken(x)' = Taken(x)
  BY <1>1, <1>3 DEF Taken
<1>10. NextUnused'
  BY <1>1, <1>6, <1>9, ZenonT(30) DEF NextUnused
<1>11. \A g \in given : g[1] = h => KindOf(g[2]) # k
  <2>1. given \subseteq Bindings
    BY ZenonT(30) DEF Bindings
  <2>2. \A g \in given : g[1] = h /\ KindOf(g[2]) = k => g = <<h, o>>
    BY <1>k, <1>5, <2>1 DEF Unique
  <2> QED BY <1>5, <2>2
<1>12. Registered'
  <2>1. ASSUME NEW x \in Kinds, NEW i \in Handles, registry'[x][i] # 0
        PROVE  KindOf(registry'[x][i]) = x /\ <<i, registry'[x][i]>> \in given' \ gone'
    <3>1. CASE x = k /\ i = h
      <4>1. <<h, o>> \notin gone
        BY <1>5 DEF TypeOK
      <4> QED BY <1>k, <1>1, <1>3, <3>1, <4>1
    <3>2. CASE ~(x = k /\ i = h)
      BY <1>1, <1>3, <2>1, <3>2 DEF Registered
    <3> QED BY <3>1, <3>2
  <2> QED BY <1>2, <2>1 DEF Registered
<1>13. LeadsToOwn'
  <2>1. ASSUME NEW g \in given \ gone
        PROVE  registry'[KindOf(g[2])][g[1]] = g[2]
    <3>1. KindOf(g[2]) \in Kinds /\ g[1] \in Handles /\ g \in given
      BY KindType DEF TypeOK
    <3>2. ~(KindOf(g[2]) = k /\ g[1] = h)
      BY <1>11, <3>1
    <3> QED BY <1>3, <3>1, <3>2 DEF LeadsToOwn
  <2>2. registry'[k][h] = o
    BY <1>3
  <2> QED BY <1>k, <1>1, <2>1, <2>2 DEF LeadsToOwn
<1>14. Closing'
  <2>1. \A y \in Objects : y # o /\ Absent(y) => Absent(y)'
    BY <1>2, <1>3 DEF Absent
  <2>2. \A u \in Threads : pc'[u] = "closing" => u # t /\ object[u] # o
    BY <1>3, <1>5 DEF Closing
  <2>3. closes[o] = 0
    BY <1>5 DEF Closing
  <2>4. \A u \in Threads : pc'[u] = "closing" =>
          /\ object'[u] \in Objects /\ closes'[object'[u]] = 0 /\ Absent(object[u])
          /\ object'[u] = object[u] /\ \E g \in given' : g[2] = object'[u]
    <3>1. \A u \in Threads : pc[u] = "closing" =>
            /\ object[u] \in Objects /\ closes[object[u]] = 0 /\ Absent(object[u])
            /\ \E g \in given : g[2] = object[u]
      BY ZenonT(30) DEF Closing
    <3> HIDE DEF IInv
    <3>2. given \subseteq given' /\ closes' = closes
      BY <1>1, ZenonT(30)
    <3>3. \A u \in Threads : pc'[u] = "closing" => pc[u] = "closing" /\ object'[u] = object[u]
      BY <1>3, <2>2, ZenonT(30)
    <3> QED BY <3>1, <3>2, <3>3, ZenonT(30)
  <2>5. ASSUME NEW u \in Threads, pc'[u] = "closing" PROVE Absent(object[u])'
    <3>1. PICK y \in Objects : y = object[u] /\ y = object'[u] /\ Absent(y)
      BY <2>4, <2>5
    <3>2. Absent(y)'
      BY <2>1, <2>2, <2>5, <3>1, ZenonT(30)
    <3> QED BY <3>1, <3>2 DEF Absent
  <2>6. \A u, v \in Threads : pc'[u] = "closing" /\ pc'[v] = "closing" /\ object'[u] = object'[v] => u = v
    BY <1>3, <2>2 DEF Closing
  <2>7. \A y \in Objects : closes'[y] # 0 => closes'[y] = 1 /\ Absent(y)' /\ \E g \in given' : g[2] = y
    BY <1>1, <2>1, <2>3, ZenonT(30) DEF Closing
  <2> QED BY <1>1, <2>4, <2>5, <2>6, <2>7, ZenonT(30) DEF Closing
<1>15. NeverAnother'
  BY <1>1, <1>3 DEF NeverAnother
<1> QED BY <1>4, <1>7, <1>8, <1>10, <1>12, <1>13, <1>14, <1>15, ZenonT(30)

-------------------------------------------------------------------------------
(* Using and closing.                                                      *)

\* A thread that is not opening anything disturbs no binding.
LEMMA HostStep ==
  ASSUME IInv, NEW t \in Threads,
         bridge' = bridge, next' = next, given' = given, fresh' = fresh,
         pc[t] \notin {"made", "drawn"}, pc'[t] \notin {"made", "drawn"},
         \A u \in Threads : u # t => pc'[u] = pc[u] /\ object'[u] = object[u] /\ handle'[u] = handle[u]
  PROVE  OpenedOnce' /\ Unique' /\ NextUnused'
<1> USE DEF IInv
<1>1. Bindings' = Bindings
  <2> DEFINE Drawn == {u \in Threads : pc[u] = "drawn"}
  <2>1. Drawn' = Drawn /\ \A u \in Drawn : handle'[u] = handle[u] /\ object'[u] = object[u]
    OBVIOUS
  <2> HIDE DEF Drawn
  <2>2. {<<handle[u], object[u]>> : u \in Drawn} = {<<handle'[u], object'[u]>> : u \in Drawn'}
    BY <2>1
  <2> QED BY <2>2 DEF Bindings, Drawn
<1>2. \A u \in Threads : pc'[u] \in {"made", "drawn"} =>
        u # t /\ pc'[u] = pc[u] /\ object'[u] = object[u]
  BY ZenonT(30)
<1>3. OpenedOnce'
  <2>1. \A u \in Threads : pc'[u] \in {"made", "drawn"} => object'[u] \in Objects \ fresh
    BY <1>2 DEF OpenedOnce
  <2>2. \A u \in Threads : pc'[u] = "made" => \A b \in Bindings : b[2] # object'[u]
    BY <1>2 DEF OpenedOnce
  <2>3. \A u \in Threads : pc'[u] = "drawn" => \A g \in given : g[2] # object'[u]
    BY <1>2 DEF OpenedOnce
  <2>4. \A u, v \in Threads : pc'[u] \in {"made", "drawn"} /\ pc'[v] \in {"made", "drawn"}
                                /\ object'[u] = object'[v] => u = v
    BY <1>2 DEF OpenedOnce
  <2> QED BY <1>1, <2>1, <2>2, <2>3, <2>4, ZenonT(30) DEF OpenedOnce
<1>4. Unique'
  BY <1>1, BridgeSame DEF Unique
<1>5. \A x : Taken(x)' = Taken(x)
  <2>1. \A u \in Threads : pc'[u] = "made" <=> pc[u] = "made"
    OBVIOUS
  <2> QED BY <1>2, <2>1 DEF Taken
<1>6. NextUnused'
  BY <1>1, <1>5 DEF NextUnused
<1> QED BY <1>3, <1>4, <1>6, ZenonT(30)

\* A handle the host comes with leads to its own object or to nothing, with
\* whichever kind of call.
LEMMA Met ==
  ASSUME IInv, NEW k \in Kinds, NEW g \in given, MayPass(k, g)
  PROVE  /\ g[1] \in Handles /\ g[2] \in Objects
         /\ registry[k][g[1]] \in {0, g[2]}
         /\ registry[k][g[1]] # 0 => k = KindOf(g[2])
<1> USE DEF IInv
<1>1. g[1] \in Handles /\ g[2] \in Objects /\ g = <<g[1], g[2]>>
  BY DEF TypeOK
<1>2. CASE registry[k][g[1]] # 0
  <2> DEFINE o == registry[k][g[1]]
  <2>1. KindOf(o) = k /\ <<g[1], o>> \in given
    BY <1>1, <1>2 DEF Registered
  <2> HIDE DEF o
  <2>2. g \in Bindings /\ <<g[1], o>> \in Bindings
    BY <2>1 DEF Bindings
  <2>3. Counter(KindOf(g[2])) = Counter(KindOf(o))
    <3>1. bridge \in {"ffi", "jni"}
      BY HandlesType
    <3> QED BY <2>1, <3>1 DEF Counter, MayPass
  <2>4. g = <<g[1], o>>
    BY <2>2, <2>3 DEF Unique
  <2> QED BY <1>1, <2>1, <2>4 DEF o
<1> QED BY <1>1, <1>2

\* A call works on the object of its handle.
LEMMA CallStep ==
  ASSUME IInv, NEW t \in Threads, NEW k \in Kinds, NEW g \in given, Call(t, k, g)
  PROVE  IInv'
<1> USE DEF IInv
<1>1. /\ g[1] \in Handles /\ g[2] \in Objects /\ registry[k][g[1]] \in {0, g[2]}
  BY Met, ZenonT(30) DEF Call, Lookup
<1>2. /\ pc[t] = "idle" /\ meant' = [meant EXCEPT ![t] = g[2]] /\ handle' = [handle EXCEPT ![t] = g[1]]
      /\ object' = [object EXCEPT ![t] = registry[k][g[1]]]
      /\ pc' = [pc EXCEPT ![t] = IF registry[k][g[1]] = 0 THEN "idle" ELSE "calling"]
      /\ bridge' = bridge /\ next' = next /\ registry' = registry /\ given' = given
      /\ gone' = gone /\ fresh' = fresh /\ closes' = closes
  BY ZenonT(30) DEF Call, Lookup, Goto
<1>3. Handles' = Handles
  BY <1>2, BridgeSame, ZenonT(30)
<1>4. TypeOK'
  BY <1>1, <1>2, <1>3 DEF TypeOK
<1>5. /\ \A u \in Threads : u # t => /\ pc'[u] = pc[u] /\ object'[u] = object[u]
                                     /\ handle'[u] = handle[u] /\ meant'[u] = meant[u]
      /\ pc'[t] = IF registry[k][g[1]] = 0 THEN "idle" ELSE "calling"
      /\ object'[t] = registry[k][g[1]] /\ meant'[t] = g[2]
  BY <1>2, ZenonT(30) DEF TypeOK
<1>6. OpenedOnce' /\ Unique' /\ NextUnused'
  <2>1. pc[t] \notin {"made", "drawn"} /\ pc'[t] \notin {"made", "drawn"}
    <3>1. pc[t] = "idle"
      BY <1>2, ZenonT(30)
    <3>2. pc'[t] = "idle" \/ pc'[t] = "calling"
      BY <1>5, ZenonT(30)
    <3> HIDE DEF IInv
    <3> QED BY <3>1, <3>2, ZenonT(30)
  <2> QED BY <1>2, <1>5, <2>1, HostStep, ZenonT(30)
<1>7. Registered' /\ LeadsToOwn'
  BY <1>2, <1>3, ZenonT(30) DEF Registered, LeadsToOwn
<1>8. Closing'
  <2>1. pc'[t] # "closing"
    BY <1>5, ZenonT(30)
  <2> QED BY <1>2, <1>3, <1>5, <2>1, ClosingKept, ZenonT(30)
<1>9. NeverAnother'
  BY <1>1, <1>5, ZenonT(30) DEF NeverAnother
<1> QED BY <1>4, <1>6, <1>7, <1>8, <1>9, ZenonT(30)

\* A call that returns lets go of its object.
LEMMA ReturnStep ==
  ASSUME IInv, NEW t \in Threads, Return(t)
  PROVE  IInv'
<1> USE DEF IInv
<1>1. /\ pc[t] = "calling" /\ pc' = [pc EXCEPT ![t] = "idle"] /\ object' = [object EXCEPT ![t] = 0]
      /\ bridge' = bridge /\ next' = next /\ registry' = registry /\ handle' = handle
      /\ meant' = meant /\ given' = given /\ gone' = gone /\ fresh' = fresh /\ closes' = closes
  BY DEF Return, Goto
<1>2. Handles' = Handles
  BY <1>1, BridgeSame
<1>3. TypeOK'
  BY <1>1, <1>2 DEF TypeOK
<1>4. /\ \A u \in Threads : u # t => pc'[u] = pc[u] /\ object'[u] = object[u] /\ handle'[u] = handle[u]
      /\ pc'[t] = "idle"
  BY <1>1 DEF TypeOK
<1>5. OpenedOnce' /\ Unique' /\ NextUnused'
  BY <1>1, <1>4, HostStep, ZenonT(30)
<1>6. Registered' /\ LeadsToOwn'
  BY <1>1, <1>2, ZenonT(30) DEF Registered, LeadsToOwn
<1>7. Closing'
  <2>1. pc'[t] # "closing"
    BY <1>4, ZenonT(30)
  <2> QED BY <1>1, <1>2, <1>4, <2>1, ClosingKept, ZenonT(30)
<1>8. NeverAnother'
  BY <1>1, <1>4 DEF NeverAnother
<1> QED BY <1>3, <1>5, <1>6, <1>7, <1>8

\* A close takes its own object out of its map, or finds nothing.
LEMMA CloseStep ==
  ASSUME IInv, NEW t \in Threads, NEW k \in Kinds, NEW g \in given, Close(t, k, g)
  PROVE  IInv'
<1> USE DEF IInv
<1>o. PICK o : o = registry[k][g[1]]
  OBVIOUS
<1>1. /\ g[1] \in Handles /\ g[2] \in Objects /\ g = <<g[1], g[2]>>
      /\ o \in {0, g[2]} /\ (o # 0 => k = KindOf(g[2]))
  <2>1. /\ g[1] \in Handles /\ g[2] \in Objects
        /\ o \in {0, g[2]} /\ (o # 0 => k = KindOf(g[2]))
    BY <1>o, Met DEF Close, Lookup
  <2>2. g = <<g[1], g[2]>>
    BY DEF TypeOK
  <2> QED BY <2>1, <2>2, ZenonT(30)
<1>2. /\ pc[t] = "idle" /\ meant' = [meant EXCEPT ![t] = g[2]] /\ handle' = [handle EXCEPT ![t] = g[1]]
      /\ object' = [object EXCEPT ![t] = o]
      /\ registry' = [registry EXCEPT ![k][g[1]] = 0]
      /\ gone' = IF k = KindOf(g[2]) THEN gone \union {g} ELSE gone
      /\ pc' = [pc EXCEPT ![t] = IF o = 0 THEN "idle" ELSE "closing"]
      /\ bridge' = bridge /\ next' = next /\ given' = given /\ fresh' = fresh /\ closes' = closes
  BY <1>o DEF Close, Lookup, Goto
<1>3. Handles' = Handles
  BY <1>2, BridgeSame, ZenonT(30)
<1>4. TypeOK'
  <2>1. registry' \in [Kinds -> [Handles -> Objects \union {0}]]
    BY <1>1, <1>2, ZenonT(30) DEF TypeOK
  <2>2. gone' \subseteq given
    BY <1>2, ZenonT(30) DEF TypeOK
  <2>3. /\ handle' \in [Threads -> Handles] /\ object' \in [Threads -> Objects \union {0}]
        /\ meant' \in [Threads -> Objects \union {0}]
    BY <1>1, <1>2, ZenonT(30) DEF TypeOK
  <2>4. pc' \in [Threads -> {"idle", "made", "drawn", "calling", "closing"}]
    BY <1>2 DEF TypeOK
  <2> QED BY <1>2, <1>3, <2>1, <2>2, <2>3, <2>4, ZenonT(30) DEF TypeOK
<1>5. /\ \A u \in Threads : u # t => /\ pc'[u] = pc[u] /\ object'[u] = object[u]
                                     /\ handle'[u] = handle[u] /\ meant'[u] = meant[u]
      /\ pc'[t] = IF o = 0 THEN "idle" ELSE "closing"
      /\ object'[t] = o /\ meant'[t] = g[2]
  BY <1>2, ZenonT(30) DEF TypeOK
<1>6. \A x \in Kinds, h \in Handles : registry'[x][h] = IF x = k /\ h = g[1] THEN 0 ELSE registry[x][h]
  BY <1>1, <1>2, ZenonT(30) DEF TypeOK
<1>7. OpenedOnce' /\ Unique' /\ NextUnused'
  <2>1. pc[t] \notin {"made", "drawn"} /\ pc'[t] \notin {"made", "drawn"}
    <3>1. pc[t] = "idle"
      BY <1>2, ZenonT(30)
    <3>2. pc'[t] = "idle" \/ pc'[t] = "closing"
      BY <1>5, ZenonT(30)
    <3> HIDE DEF IInv
    <3> QED BY <3>1, <3>2, ZenonT(30)
  <2> QED BY <1>2, <1>5, <2>1, HostStep, ZenonT(30)
<1>8. Registered'
  <2>1. ASSUME NEW x \in Kinds, NEW h \in Handles, registry'[x][h] # 0
        PROVE  KindOf(registry'[x][h]) = x /\ <<h, registry'[x][h]>> \in given' \ gone'
    <3>1. registry'[x][h] = registry[x][h] /\ ~(x = k /\ h = g[1])
      BY <1>6, <2>1, ZenonT(30)
    <3>2. KindOf(registry[x][h]) = x /\ <<h, registry[x][h]>> \in given \ gone
      BY <2>1, <3>1 DEF Registered
    <3>3. k = KindOf(g[2]) => <<h, registry[x][h]>> # g
      BY <1>1, <3>1, <3>2
    <3> QED BY <1>2, <3>1, <3>2, <3>3
  <2> QED BY <1>3, <2>1, ZenonT(30) DEF Registered
<1>9. LeadsToOwn'
  <2>1. ASSUME NEW e \in given \ gone, k = KindOf(g[2]) => e # g
        PROVE  registry'[KindOf(e[2])][e[1]] = e[2]
    <3>1. KindOf(e[2]) \in Kinds /\ e[1] \in Handles /\ e[2] # 0
      BY KindType DEF TypeOK
    <3>2. registry[KindOf(e[2])][e[1]] = e[2]
      BY DEF LeadsToOwn
    <3>3. ~(KindOf(e[2]) = k /\ e[1] = g[1])
      <4> SUFFICES ASSUME KindOf(e[2]) = k, e[1] = g[1] PROVE FALSE
        OBVIOUS
      <4>1. o = e[2] /\ o # 0 /\ e = <<e[1], e[2]>>
        BY <1>o, <3>1, <3>2 DEF TypeOK
      <4> QED BY <1>1, <2>1, <4>1
    <3> QED BY <1>6, <3>1, <3>2, <3>3
  <2>2. \A e \in given' \ gone' : e \in given \ gone /\ (k = KindOf(g[2]) => e # g)
    BY <1>2, ZenonT(30)
  <2> QED BY <2>1, <2>2, ZenonT(30) DEF LeadsToOwn
<1>10. Closing'
  <2>1. \A y : y # 0 /\ Absent(y) => Absent(y)'
    BY <1>3, <1>6 DEF Absent
  <2>2. o # 0 => Absent(o)' /\ ~Absent(o) /\ o = g[2]
    <3> SUFFICES ASSUME o # 0 PROVE Absent(o)' /\ ~Absent(o) /\ o = g[2]
      OBVIOUS
    <3>1. ASSUME NEW x \in Kinds, NEW h \in Handles, registry[x][h] = o
          PROVE  x = k /\ h = g[1]
      <4>1. KindOf(o) = x /\ <<h, o>> \in given /\ KindOf(o) = k /\ o = g[2]
        BY <1>1, <3>1, ZenonT(30) DEF Registered
      <4>2. <<h, o>> = g
        BY <4>1 DEF Unique, Bindings
      <4> QED BY <4>1, <4>2
    <3>2. Absent(o)'
      BY <1>3, <1>6, <3>1 DEF Absent
    <3> QED BY <1>o, <1>1, <3>2 DEF Absent
  <2>3. o # 0 => closes[o] = 0 /\ \A u \in Threads : pc[u] = "closing" => object[u] # o
    BY <1>1, <2>2, ZenonT(30) DEF Closing
  <2>4. \A u \in Threads : pc'[u] = "closing" =>
          \/ u = t /\ o # 0 /\ object'[u] = o
          \/ u # t /\ pc[u] = "closing" /\ object'[u] = object[u]
    BY <1>5
  <2>5. ASSUME NEW u \in Threads, pc'[u] = "closing"
        PROVE  /\ object'[u] \in Objects /\ closes'[object'[u]] = 0 /\ Absent(object[u])'
               /\ \E e \in given' : e[2] = object'[u]
    <3>1. PICK y : y = object'[u]
      BY ZenonT(30)
    <3>2. y \in Objects /\ closes[y] = 0 /\ (\E e \in given : e[2] = y) /\ Absent(y)'
      <4>1. CASE u = t /\ o # 0 /\ object'[u] = o
        BY <1>1, <2>2, <2>3, <3>1, <4>1
      <4>2. CASE u # t /\ pc[u] = "closing" /\ object'[u] = object[u]
        <5>1. y \in Objects /\ closes[y] = 0 /\ (\E e \in given : e[2] = y) /\ Absent(y)
          BY <3>1, <4>2 DEF Closing
        <5> QED BY <2>1, <5>1, KindType, ZenonT(30)
      <4> QED BY <2>4, <2>5, <4>1, <4>2
    <3>3. Absent(object[u])'
      BY <3>1, <3>2, ZenonT(30) DEF Absent
    <3> QED BY <1>2, <3>1, <3>2, <3>3
  <2>6. \A u, v \in Threads : pc'[u] = "closing" /\ pc'[v] = "closing" /\ object'[u] = object'[v] => u = v
    BY <2>3, <2>4 DEF Closing
  <2>7. \A y \in Objects : closes'[y] # 0 => closes'[y] = 1 /\ Absent(y)' /\ \E e \in given' : e[2] = y
    BY <1>2, <2>1, KindType, ZenonT(30) DEF Closing
  <2> QED BY <2>5, <2>6, <2>7 DEF Closing
<1>11. NeverAnother'
  BY <1>1, <1>5 DEF NeverAnother
<1> QED BY <1>4, <1>7, <1>8, <1>9, <1>10, <1>11, ZenonT(30)

\* close runs on an object that is in no map, for the first time.
LEMMA ClosedStep ==
  ASSUME IInv, NEW t \in Threads, Closed(t)
  PROVE  IInv'
<1> USE DEF IInv
<1>o. PICK o \in Objects : o = object[t] /\ closes[o] = 0 /\ Absent(o) /\ \E g \in given : g[2] = o
  <2>1. pc[t] = "closing"
    BY DEF Closed
  <2>2. PICK y : y = object[t]
    BY ZenonT(30)
  <2>3. y \in Objects /\ closes[y] = 0 /\ Absent(y) /\ \E g \in given : g[2] = y
    BY <2>1, <2>2 DEF Closing
  <2> QED BY <2>2, <2>3
<1>1. /\ pc[t] = "closing" /\ pc' = [pc EXCEPT ![t] = "idle"] /\ object' = [object EXCEPT ![t] = 0]
      /\ closes' = [closes EXCEPT ![o] = IF o \in Clients THEN 1 ELSE 0]
      /\ bridge' = bridge /\ next' = next /\ registry' = registry /\ handle' = handle
      /\ meant' = meant /\ given' = given /\ gone' = gone /\ fresh' = fresh
  <2>1. closes' = [closes EXCEPT ![o] = IF o \in Clients THEN closes[o] + 1 ELSE closes[o]]
    BY <1>o DEF Closed
  <2>2. closes' = [closes EXCEPT ![o] = IF o \in Clients THEN 1 ELSE 0]
    BY <1>o, <2>1
  <2> QED BY <2>2, ZenonT(30) DEF Closed, Goto
<1>2. Handles' = Handles
  BY <1>1, BridgeSame, ZenonT(30)
<1>3. TypeOK'
  BY <1>1, <1>2, ZenonT(30) DEF TypeOK
<1>4. /\ \A u \in Threads : u # t => pc'[u] = pc[u] /\ object'[u] = object[u] /\ handle'[u] = handle[u]
      /\ pc'[t] = "idle"
      /\ \A y \in Objects : closes'[y] = IF y = o THEN IF o \in Clients THEN 1 ELSE 0 ELSE closes[y]
  BY <1>1, ZenonT(30) DEF TypeOK
<1>5. OpenedOnce' /\ Unique' /\ NextUnused'
  <2>1. pc[t] \notin {"made", "drawn"} /\ pc'[t] \notin {"made", "drawn"}
    <3> HIDE DEF IInv
    <3> QED BY <1>1, <1>4, ZenonT(30)
  <2> QED BY <1>1, <1>4, <2>1, HostStep, ZenonT(30)
<1>6. Registered' /\ LeadsToOwn'
  BY <1>1, <1>2, ZenonT(30) DEF Registered, LeadsToOwn
<1>7. Closing'
  <2>1. \A y : Absent(y)' <=> Absent(y)
    BY <1>1, <1>2, ZenonT(30) DEF Absent
  <2>2. \A u \in Threads : pc'[u] = "closing" => pc[u] = "closing" /\ object'[u] = object[u] /\ object[u] # o
    <3>1. \A u \in Threads : pc[u] = "closing" /\ object[u] = object[t] => u = t
      BY <1>1, ZenonT(30) DEF Closing
    <3> HIDE DEF IInv
    <3>2. \A u \in Threads : pc'[u] = "closing" => u # t
      BY <1>4, ZenonT(30)
    <3> QED BY <1>o, <1>4, <3>1, <3>2, ZenonT(30)
  <2>3. \A u \in Threads : pc'[u] = "closing" =>
          /\ object'[u] \in Objects /\ closes'[object'[u]] = 0 /\ Absent(object[u])'
          /\ \E e \in given' : e[2] = object'[u]
    <3>1. \A u \in Threads : pc[u] = "closing" =>
            /\ object[u] \in Objects /\ closes[object[u]] = 0 /\ Absent(object[u])
            /\ \E e \in given : e[2] = object[u]
      BY ZenonT(30) DEF Closing
    <3> HIDE DEF IInv
    <3>2. ASSUME NEW u \in Threads, pc'[u] = "closing"
          PROVE  /\ object'[u] \in Objects /\ closes'[object'[u]] = 0 /\ Absent(object[u])'
                 /\ \E e \in given' : e[2] = object'[u]
      <4>1. PICK y \in Objects : y = object[u] /\ y = object'[u] /\ y # o /\ closes[y] = 0
                                /\ Absent(y) /\ \E e \in given : e[2] = y
        BY <2>2, <3>1, <3>2, ZenonT(30)
      <4>2. closes'[y] = 0
        BY <1>4, <4>1, ZenonT(30)
      <4>3. Absent(object[u])'
        BY <1>1, <1>2, <4>1, ZenonT(30) DEF Absent
      <4> QED BY <1>1, <4>1, <4>2, <4>3, ZenonT(30)
    <3> QED BY <3>2, ZenonT(30)
  <2>4. \A u, v \in Threads : pc'[u] = "closing" /\ pc'[v] = "closing" /\ object'[u] = object'[v] => u = v
    <3>1. \A u, v \in Threads : pc[u] = "closing" /\ pc[v] = "closing" /\ object[u] = object[v] => u = v
      BY ZenonT(30) DEF Closing
    <3> HIDE DEF IInv
    <3> QED BY <2>2, <3>1
  <2>5. \A y \in Objects : closes'[y] # 0 => closes'[y] = 1 /\ Absent(y)' /\ \E e \in given' : e[2] = y
    <3>1. \A y \in Objects : closes[y] # 0 => closes[y] = 1 /\ Absent(y) /\ \E e \in given : e[2] = y
      BY ZenonT(30) DEF Closing
    <3> HIDE DEF IInv
    <3>2. \A y \in Objects : closes'[y] # 0 =>
            closes'[y] = 1 /\ Absent(y) /\ \E e \in given : e[2] = y
      BY <1>o, <1>4, <3>1, ZenonT(60)
    <3> QED BY <1>1, <2>1, <3>2
  <2> QED BY <2>3, <2>4, <2>5, ZenonT(30) DEF Closing
<1>8. NeverAnother'
  BY <1>1, <1>4 DEF NeverAnother
<1> QED BY <1>3, <1>5, <1>6, <1>7, <1>8, ZenonT(30)

-------------------------------------------------------------------------------
(* The theorems.                                                           *)

\* Nothing is bound in the beginning.
LEMMA InitInv == Init => IInv
<1> SUFFICES ASSUME Init PROVE IInv
  OBVIOUS
<1>1. MAX \in Nat \ {0} /\ bridge \in {"ffi", "jni"} /\ bridge \in Bridges
  BY HandlesAssumption DEF Init, MAX
<1> HIDE DEF MAX
<1>2. 0 \in Handles /\ 1 \in Handles
  BY <1>1 DEF Handles
<1>3. TypeOK
  BY <1>1, <1>2, ZenonT(30) DEF Init, TypeOK
<1>4. Bindings = {}
  BY DEF Init, Bindings
<1>5. OpenedOnce /\ Unique
  BY <1>4 DEF Init, OpenedOnce, Unique
<1>6. NextUnused
  <2>1. \A k \in Kinds : Taken(k) = {}
    BY DEF Init, Taken, OfKind, Objects
  <2>2. \A k \in Kinds : Position(next[k]) = Cardinality(Taken(k))
    BY <2>1, FS_EmptySet DEF Init, Position
  <2> QED BY <1>4, <2>2 DEF NextUnused
<1>7. Registered /\ LeadsToOwn
  BY DEF Init, Registered, LeadsToOwn
<1>8. Closing /\ NeverAnother
  BY DEF Init, Closing, NeverAnother
<1> QED BY <1>3, <1>5, <1>6, <1>7, <1>8 DEF IInv

\* Every step keeps the invariant.
LEMMA Inductive == IInv /\ [Next]_vars => IInv'
<1> SUFFICES ASSUME IInv, [Next]_vars PROVE IInv'
  OBVIOUS
<1>1. CASE Next
  <2>1. PICK t \in Threads :
          \/ Open(t) \/ Draw(t) \/ Insert(t) \/ Return(t) \/ Closed(t)
          \/ \E k \in Kinds, g \in given : Call(t, k, g) \/ Close(t, k, g)
    BY <1>1 DEF Next
  <2> QED BY <2>1, OpenStep, DrawStep, InsertStep, ReturnStep, ClosedStep, CallStep, CloseStep, ZenonT(30)
<1>2. CASE vars' = vars
  <2> USE <1>2 DEF vars
  <2>1. TypeOK'
    BY DEF IInv, TypeOK, Handles, MAX
  <2>2. OpenedOnce' /\ Unique' /\ NextUnused'
    <3>1. /\ Bindings' = Bindings /\ (\A k : Counter(k)' = Counter(k)) /\ (\A k : Taken(k)' = Taken(k))
      BY ZenonT(30) DEF Bindings, Counter, Taken
    <3>2. OpenedOnce' /\ Unique'
      BY <3>1, ZenonT(30) DEF IInv, OpenedOnce, Unique
    <3>3. NextUnused'
      BY <3>1, ZenonT(30) DEF IInv, NextUnused
    <3> QED BY <3>2, <3>3, ZenonT(30)
  <2>3. Registered' /\ LeadsToOwn' /\ Closing' /\ NeverAnother'
    <3>1. Handles' = Handles
      BY ZenonT(30) DEF Handles, MAX
    <3>2. Registered' /\ LeadsToOwn'
      BY <3>1, ZenonT(30) DEF IInv, Registered, LeadsToOwn
    <3>3. Closing'
      <4>1. \A o : Absent(o)' <=> Absent(o)
        BY <3>1, ZenonT(30) DEF Absent
      <4>2. Closing
        BY ZenonT(30) DEF IInv
      <4> QED BY <3>1, <4>2 DEF Closing, Absent
    <3>4. NeverAnother'
      BY ZenonT(30) DEF IInv, NeverAnother
    <3> QED BY <3>2, <3>3, <3>4, ZenonT(30)
  <2> QED BY <2>1, <2>2, <2>3, ZenonT(30) DEF IInv
<1> QED BY <1>1, <1>2

\* The registries of any number of threads and objects keep the invariant.
THEOREM HandleInvariance == Spec => []IInv
BY InitInv, Inductive, PTL DEF Spec

\* A handle leads to the object it was given for until it is closed, in the
\* C ABI also when the counter is used up and in the Android bridge also
\* when it has wrapped, up to the objects of one turn.
THEOREM HandlesLeadToTheirObjects == Spec => []RegistrySound
<1>1. IInv => RegistrySound
  BY DEF IInv, RegistrySound
<1> QED BY <1>1, HandleInvariance, PTL

\* No thread works on an object other than the one its handle was given for,
\* whichever handles others close meanwhile, and no client is closed twice.
THEOREM HandlesNeverMixedUp == Spec => []HandlesUsed
<1>1. IInv => HandlesUsed
  <2> SUFFICES ASSUME IInv PROVE HandlesUsed
    OBVIOUS
  <2>1. ASSUME NEW o \in Clients PROVE closes[o] <= 1
    <3>1. closes[o] # 0 => closes[o] = 1
      BY DEF IInv, Closing, Objects
    <3> QED BY <3>1, SMTT(30)
  <2> QED BY <2>1 DEF IInv, HandlesUsed, ClosedOnce
<1> QED BY <1>1, HandleInvariance, PTL
===============================================================================
