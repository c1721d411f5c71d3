---------------------------- MODULE NativeHandles -----------------------------
(***************************************************************************)
(* The handle registries of the C ABI (ffi) and of the Android bridge      *)
(* (android-jni): clients and identities are given to the host as integers,*)
(* kept in a map of their kind behind a mutex, and used by any of its      *)
(* threads.  A call takes a reference out of the map and works without the *)
(* lock; a close takes the object out of the map and then closes it.  The  *)
(* voice streams of the Android bridge are kept as its clients are.        *)
(***************************************************************************)
EXTENDS Integers, FiniteSets

CONSTANTS
  Threads,
  Clients, Identities,    \* the objects that are opened
  Bridges,                \* the libraries looked at, of "ffi" and "jni"
  Last                    \* the largest value of a counter, for each library

Objects == Clients \union Identities

ASSUME HandlesAssumption ==
  /\ Bridges \subseteq {"ffi", "jni"}
  /\ Last \in [Bridges -> Nat \ {0}]
  /\ 0 \notin Objects
  /\ Clients \intersect Identities = {}

\* nativeE2EOpen and nativeOpen do not see that a counter has gone once round
\* its values: a process of the Android bridge opens no more objects of a
\* kind than an i32 has.
ASSUME WrapAssumption ==
  "jni" \in Bridges =>
    /\ IsFiniteSet(Objects)
    /\ Cardinality(Clients) <= 2 * Last["jni"] + 2
    /\ Cardinality(Identities) <= 2 * Last["jni"] + 2

VARIABLES
  bridge,     \* the library, which never changes
  next,       \* NEXT_HANDLE, or NEXT_CLIENT and NEXT_IDENTITY
  registry,   \* CLIENTS and IDENTITIES, 0 where a map has nothing
  pc,         \* what each thread is doing
  handle,     \* the handle it has drawn or was called with
  object,     \* the object it holds a reference to
  meant,      \* the object the host was given the handle of its call for
  given,      \* the handles the host has been given, each with its object
  gone,       \* those it has closed
  fresh,      \* objects not opened yet
  closes      \* how often close was called on each object

vars == <<bridge, next, registry, pc, handle, object, meant, given, gone, fresh, closes>>

Kinds == {"client", "identity"}
KindOf(o) == IF o \in Clients THEN "client" ELSE "identity"

\* Mutant: one counter for each kind in the C ABI as well.
CounterOfKind(k) == k

\* The C ABI has one counter for all kinds, the Android bridge one for each.
Counter(k) == IF bridge = "ffi" THEN "client" ELSE k

\* A counter is a u64 in the C ABI, with 0 for used up, and an i32 that wraps
\* in the Android bridge.
MAX == Last[bridge]
Handles == IF bridge = "ffi" THEN 0 .. MAX ELSE -MAX - 1 .. MAX

After(n) == IF n # MAX THEN n + 1 ELSE IF bridge = "ffi" THEN 0 ELSE -MAX - 1

\* Whether the value drawn is refused: nativeE2EOpen checks nothing.
Exhausted(k, n) == IF bridge = "ffi" THEN n = 0 ELSE k = "client" /\ n <= 0

Init ==
  /\ bridge \in Bridges
  /\ next = [k \in Kinds |-> 1]
  /\ registry = [k \in Kinds |-> [h \in Handles |-> 0]]
  /\ pc = [t \in Threads |-> "idle"]
  /\ handle = [t \in Threads |-> 0]
  /\ object = [t \in Threads |-> 0]
  /\ meant = [t \in Threads |-> 0]
  /\ given = {} /\ gone = {}
  /\ fresh = Objects
  /\ closes = [o \in Objects |-> 0]

Goto(t, to) == pc' = [pc EXCEPT ![t] = to]

(***************************************************************************)
(* Opening: the object is made, a handle is drawn, the object is put in    *)
(* the map under it and the handle is returned.  Other threads run between *)
(* the three.                                                              *)
(***************************************************************************)
Open(t) ==
  /\ pc[t] = "idle"
  /\ \E o \in fresh :
       /\ object' = [object EXCEPT ![t] = o]
       /\ fresh' = fresh \ {o}
  /\ Goto(t, "made")
  /\ UNCHANGED <<bridge, next, registry, handle, meant, given, gone, closes>>

\* Mutant: the counter is read here and written back by nobody.
DrawOnly(t) ==
  LET n == next[Counter(KindOf(object[t]))]
  IN  /\ pc[t] = "made"
      /\ handle' = [handle EXCEPT ![t] = n]
      /\ Goto(t, "drawn")
      /\ UNCHANGED <<bridge, next, registry, object, meant, given, gone, fresh, closes>>

Draw(t) ==
  LET k == KindOf(object[t])
      n == next[Counter(k)]
  IN  /\ pc[t] = "made"
      /\ next' = [next EXCEPT ![Counter(k)] = IF bridge = "ffi" /\ n = 0 THEN 0 ELSE After(n)]
      /\ \/ /\ Exhausted(k, n)
            /\ object' = [object EXCEPT ![t] = 0]
            /\ Goto(t, "idle")
            /\ UNCHANGED handle
         \/ /\ ~Exhausted(k, n)
            /\ handle' = [handle EXCEPT ![t] = n]
            /\ Goto(t, "drawn")
            /\ UNCHANGED object
      /\ UNCHANGED <<bridge, registry, meant, given, gone, fresh, closes>>

Insert(t) ==
  /\ pc[t] = "drawn"
  /\ registry' = [registry EXCEPT ![KindOf(object[t])][handle[t]] = object[t]]
  /\ given' = given \union {<<handle[t], object[t]>>}
  /\ object' = [object EXCEPT ![t] = 0]
  /\ Goto(t, "idle")
  /\ UNCHANGED <<bridge, next, handle, meant, gone, fresh, closes>>

(***************************************************************************)
(* A call of kind k: the object is looked up under the lock and used after *)
(* it; a handle that is not in the map is refused.  The host may come with *)
(* a handle of the other kind to the C ABI, where all kinds share one      *)
(* counter; a host of the Android bridge has to keep them apart itself.    *)
(***************************************************************************)
MayPass(k, g) == g \in given /\ (bridge = "jni" => k = KindOf(g[2]))

Lookup(t, k, g) ==
  /\ pc[t] = "idle" /\ MayPass(k, g)
  /\ meant' = [meant EXCEPT ![t] = g[2]]
  /\ handle' = [handle EXCEPT ![t] = g[1]]
  /\ object' = [object EXCEPT ![t] = registry[k][g[1]]]

Call(t, k, g) ==
  /\ Lookup(t, k, g)
  /\ Goto(t, IF registry[k][g[1]] = 0 THEN "idle" ELSE "calling")
  /\ UNCHANGED <<bridge, next, registry, given, gone, fresh, closes>>

Return(t) ==
  /\ pc[t] = "calling"
  /\ object' = [object EXCEPT ![t] = 0]
  /\ Goto(t, "idle")
  /\ UNCHANGED <<bridge, next, registry, handle, meant, given, gone, fresh, closes>>

Close(t, k, g) ==
  /\ Lookup(t, k, g)
  /\ registry' = [registry EXCEPT ![k][g[1]] = 0]
  /\ gone' = IF k = KindOf(g[2]) THEN gone \union {g} ELSE gone
  /\ Goto(t, IF registry[k][g[1]] = 0 THEN "idle" ELSE "closing")
  /\ UNCHANGED <<bridge, next, given, fresh, closes>>

\* close of a client; an identity is only dropped.
Closed(t) ==
  /\ pc[t] = "closing"
  /\ closes' = [closes EXCEPT ![object[t]] = IF object[t] \in Clients THEN @ + 1 ELSE @]
  /\ object' = [object EXCEPT ![t] = 0]
  /\ Goto(t, "idle")
  /\ UNCHANGED <<bridge, next, registry, handle, meant, given, gone, fresh>>

Next ==
  \E t \in Threads :
    \/ Open(t) \/ Draw(t) \/ Insert(t) \/ Return(t) \/ Closed(t)
    \/ \E k \in Kinds, g \in given : Call(t, k, g) \/ Close(t, k, g)

Spec == Init /\ [][Next]_vars

-------------------------------------------------------------------------------
(***************************************************************************)
(* Types.                                                                  *)
(***************************************************************************)
TypeOK ==
  /\ bridge \in Bridges
  /\ next \in [Kinds -> Handles]
  /\ registry \in [Kinds -> [Handles -> Objects \union {0}]]
  /\ pc \in [Threads -> {"idle", "made", "drawn", "calling", "closing"}]
  /\ handle \in [Threads -> Handles]
  /\ object \in [Threads -> Objects \union {0}] /\ meant \in [Threads -> Objects \union {0}]
  /\ given \subseteq Handles \X Objects /\ gone \subseteq given
  /\ fresh \subseteq Objects
  /\ closes \in [Objects -> Nat]

(***************************************************************************)
(* A handle leads to the object it was given for, whatever other threads   *)
(* open and close, until it is closed itself: two opens that overlap never *)
(* draw the same handle, not even when the counter is used up.             *)
(***************************************************************************)
LeadsToOwn == \A g \in given \ gone : registry[KindOf(g[2])][g[1]] = g[2]

(***************************************************************************)
(* Whatever handle a thread comes with, also one that another thread has   *)
(* closed since, or in the C ABI one of the other kind, it works on the    *)
(* object the handle was given for, or is refused.                         *)
(***************************************************************************)
NeverAnother == \A t \in Threads : pc[t] \in {"calling", "closing"} => object[t] = meant[t]

(***************************************************************************)
(* close is called once on a client, however many threads close it.        *)
(***************************************************************************)
ClosedOnce == \A o \in Clients : closes[o] <= 1

(***************************************************************************)
(* The variables keep their types, and every handle that is open leads to  *)
(* its own object.                                                         *)
(***************************************************************************)
RegistrySound == TypeOK /\ LeadsToOwn

(***************************************************************************)
(* A thread that uses or closes a handle meets its object or is refused,   *)
(* and no client is closed twice.                                          *)
(***************************************************************************)
HandlesUsed == NeverAnother /\ ClosedOnce
===============================================================================
