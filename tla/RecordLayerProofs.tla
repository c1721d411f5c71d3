-------------------------- MODULE RecordLayerProofs --------------------------
(***************************************************************************)
(* The record layer, for any sizes, bounds and faults: nonces are never    *)
(* reused, what is read is a beginning of what was sealed, and both ends   *)
(* replace the key at the same record.                                     *)
(*                                                                         *)
(* The argument is about one direction.  The ciphers the writer has used,  *)
(* with the one it will use next, form a chain: each follows from the one  *)
(* before by commit.  A chain only goes up (Ordered), so a key and a nonce *)
(* name one record of it.  The reader's cipher is the chain's entry after  *)
(* the records it has opened (InChain), so the only record it can accept   *)
(* is the next one.  The browser's ciphers stay with the first key, where  *)
(* the nonce alone is the place in the chain (FirstKey).                   *)
(***************************************************************************)
EXTENDS RecordLayer, TLAPS

\* The writer's cipher for the i-th record; past the last one, its current.
Keys(d) ==
  [i \in 1 .. Len(sealed[d]) + 1 |->
     IF i <= Len(sealed[d]) THEN sealed[d][i].cipher ELSE seal[d]]

AfterSeal(browser, s) ==
  IF browser THEN browser_commit(s.cipher)
             ELSE commit(s.cipher, PlaintextLen(s.payload))

Chain(d) ==
  /\ Keys(d)[1] = NewCipher
  /\ \A i \in 1 .. Len(sealed[d]) : Keys(d)[i + 1] = AfterSeal(SealsAsBrowser(d), sealed[d][i])

Before(a, b) == a.generation < b.generation \/ (a.generation = b.generation /\ a.nonce < b.nonce)

Ordered(d) ==
  \A j \in 1 .. Len(sealed[d]) :
    /\ Before(sealed[d][j].cipher, seal[d])
    /\ \A i \in 1 .. j - 1 : Before(sealed[d][i].cipher, sealed[d][j].cipher)

FirstKey(d) ==
  \A i \in 1 .. Len(sealed[d]) + 1 :
    /\ Keys(d)[i].generation = 0 => Keys(d)[i].nonce = i - 1
    /\ SealsAsBrowser(d) => Keys(d)[i].generation = 0

\* A native cipher is below the bounds at which commit replaces the key.
WithinKey(cipher) == cipher.nonce < REKEY_RECORDS /\ cipher.plaintext_bytes < REKEY_BYTES

Bounded(d) ==
  /\ ~SealsAsBrowser(d) => WithinKey(seal[d])
  /\ ~OpensAsBrowser(d) => WithinKey(open[d])

\* Nothing is sealed after a CLOSE record.
CloseIsLast(d) ==
  \A i \in 1 .. Len(sealed[d]) :
    /\ sealed[d][i].payload \in Payloads \union {0}
    /\ sealed[d][i].content = "close" => i = Len(sealed[d]) /\ sealing[d] = "closed"

\* Where the reader's cipher is in the chain.  A browser that has decrypted
\* a CLOSE record, which it does not return, is one further.
InChain(d) ==
  /\ client = "native" => open[d] = Keys(d)[Len(opened[d]) + 1]
  /\ client = "browser" /\ d = "up" /\ open[d].generation = 0 => open[d].nonce = Len(opened[d])
  /\ OpensAsBrowser(d) =>
       /\ open[d].generation = 0
       /\ \/ open[d].nonce = Len(opened[d])
          \/ /\ open[d].nonce = Len(opened[d]) + 1
             /\ open[d].nonce = Len(sealed[d])
             /\ sealing[d] = "closed"

\* What is whole on the wire was sealed in this direction.
FromWriter(d) ==
  \A i \in 1 .. Len(wire[d]) : wire[d][i].intact =>
    \E k \in 1 .. Len(sealed[d]) : wire[d][i] = RecordOf(sealed[d][k])

\* Without interference the wire holds the records not opened yet.
Undisturbed(d) ==
  client = "native" /\ faults = 0 =>
    /\ opening[d] # "failed"
    /\ Len(wire[d]) = Len(sealed[d]) - Len(opened[d])
    /\ \A i \in 1 .. Len(wire[d]) : wire[d][i] = RecordOf(sealed[d][Len(opened[d]) + i])

Prefix(d) ==
  /\ Len(opened[d]) <= Len(sealed[d])
  /\ \A i \in 1 .. Len(opened[d]) : opened[d][i] = RecordOf(sealed[d][i])
  /\ opening[d] = "closed" => sealing[d] = "closed" /\ Len(opened[d]) = Len(sealed[d])

DirInv(d) ==
  /\ Chain(d) /\ Ordered(d) /\ FirstKey(d) /\ Bounded(d) /\ CloseIsLast(d)
  /\ InChain(d) /\ FromWriter(d) /\ Undisturbed(d) /\ Prefix(d)

IInv == TypeOK /\ \A d \in Dirs : DirInv(d)
-----------------------------------------------------------------------------
(* Positions and sequences.                                                *)

\* The positions up to n, and the one after them.
LEMMA Positions ==
  ASSUME NEW n \in Nat
  PROVE  /\ n + 1 \in Nat /\ n + 1 \in 1 .. n + 1 /\ n + 2 \in 1 .. n + 2 /\ 1 \in 1 .. n + 1
         /\ n + 1 + 1 = n + 2
         /\ \A i \in 1 .. n : i \in 1 .. n + 1 /\ i + 1 \in 1 .. n + 1 /\ i \in Nat /\ i # n + 1
         /\ \A i \in 1 .. n + 1 : i \in 1 .. n \/ i = n + 1
         /\ \A i \in 1 .. n + 2 : i \in 1 .. n + 1 \/ i = n + 2
         /\ \A j \in 1 .. n + 1 : \A i \in 1 .. j - 1 : i \in 1 .. n
OBVIOUS

\* A position among the last w of n.
LEMMA Offset ==
  ASSUME NEW n \in Nat, NEW o \in Nat, NEW w, w = n - o, NEW i \in 1 .. w
  PROVE  o + i \in 1 .. n
OBVIOUS

\* A sequence has a length, and its entries are in the set it is over.
LEMMA Entries ==
  ASSUME NEW S, NEW q \in Seq(S)
  PROVE  Len(q) \in Nat /\ DOMAIN q = 1 .. Len(q) /\ \A i \in 1 .. Len(q) : q[i] \in S
OBVIOUS

\* Append keeps the entries and adds one.
LEMMA Appended ==
  ASSUME NEW S, NEW q \in Seq(S), NEW e \in S, NEW r, r = Append(q, e)
  PROVE  /\ Len(r) = Len(q) + 1
         /\ \A i \in 1 .. Len(q) : r[i] = q[i]
         /\ r[Len(q) + 1] = e
OBVIOUS

\* Tail keeps the entries after the first.
LEMMA Tailed ==
  ASSUME NEW S, NEW q \in Seq(S), q # <<>>, NEW r, r = Tail(q)
  PROVE  /\ Len(r) = Len(q) - 1
         /\ \A i \in 1 .. Len(r) : r[i] = q[i + 1] /\ i + 1 \in 1 .. Len(q)
         /\ 1 \in 1 .. Len(q) /\ Head(q) = q[1]
OBVIOUS

\* A sequence with an entry put before it.
LEMMA Prepended ==
  ASSUME NEW S, NEW q \in Seq(S), NEW e \in S, NEW r, r = <<e>> \o q
  PROVE  /\ r \in Seq(S) /\ Len(r) = Len(q) + 1
         /\ \A j \in 1 .. Len(q) + 1 : r[j] = IF j = 1 THEN e ELSE q[j - 1]
OBVIOUS

\* One entry of a sequence replaced.
LEMMA Replaced ==
  ASSUME NEW S, NEW q \in Seq(S), NEW i \in 1 .. Len(q), NEW e \in S
  PROVE  /\ [q EXCEPT ![i] = e] \in Seq(S) /\ Len([q EXCEPT ![i] = e]) = Len(q)
         /\ \A j \in 1 .. Len(q) : [q EXCEPT ![i] = e][j] = IF j = i THEN e ELSE q[j]
OBVIOUS

\* A sequence from a function on its positions.
LEMMA Listed ==
  ASSUME NEW S, NEW n \in Nat, NEW r \in [1 .. n -> S]
  PROVE  r \in Seq(S) /\ Len(r) = n
OBVIOUS

-----------------------------------------------------------------------------
(* Lengths and ciphers.                                                    *)

\* Rounding up gives a natural number.
LEMMA RoundUpNat ==
  ASSUME NEW n \in Nat, NEW block \in Nat \ {0}
  PROVE  RoundUp(n, block) \in Nat
<1> DEFINE q == (n + block - 1) \div block
<1>1. q \in Nat
  OBVIOUS
<1> HIDE DEF q
<1>2. q * block \in Nat
  BY <1>1
<1> QED BY <1>2 DEF RoundUp, q

\* The plaintext of a record has a length.
LEMMA PlaintextNat ==
  ASSUME NEW payload \in Nat
  PROVE  PlaintextLen(payload) \in Nat
<1>1. 5 + payload \in Nat
  OBVIOUS
<1> QED BY <1>1, RoundUpNat, PaddingAssumption DEF PlaintextLen

\* Payloads are natural numbers.
LEMMA PayloadNat == Payloads \union {0} \subseteq Nat
BY BoundsAssumption, PaddingAssumption

\* commit goes one up, by the nonce or by the key, and stays within the
\* bounds of a key.
LEMMA CommitUp ==
  ASSUME NEW c \in Ciphers, NEW bytes \in Nat
  PROVE  /\ commit(c, bytes) \in Ciphers
         /\ Before(c, commit(c, bytes))
         /\ WithinKey(commit(c, bytes))
         /\ commit(c, bytes).generation = 0 =>
              c.generation = 0 /\ commit(c, bytes).nonce = c.nonce + 1
<1>1. CASE \/ c.nonce + 1 >= REKEY_RECORDS
           \/ c.plaintext_bytes + bytes >= REKEY_BYTES
  BY <1>1, RekeyAssumption DEF commit, Ciphers, Before, WithinKey
<1>2. CASE ~(\/ c.nonce + 1 >= REKEY_RECORDS
             \/ c.plaintext_bytes + bytes >= REKEY_BYTES)
  <2>1. commit(c, bytes) = [generation |-> c.generation, nonce |-> c.nonce + 1,
                            plaintext_bytes |-> c.plaintext_bytes + bytes]
    BY <1>2, ZenonT(30) DEF commit, Ciphers
  <2> QED BY <1>2, <2>1, RekeyAssumption DEF Ciphers, Before, WithinKey
<1> QED BY <1>1, <1>2

\* The browser's cipher goes up by the nonce.
LEMMA BrowserCommitUp ==
  ASSUME NEW c \in Ciphers
  PROVE  /\ browser_commit(c) \in Ciphers
         /\ Before(c, browser_commit(c))
         /\ browser_commit(c).generation = c.generation
         /\ browser_commit(c).nonce = c.nonce + 1
BY DEF browser_commit, Ciphers, Before

\* The order of ciphers is transitive and has no cycle.
LEMMA BeforeOrder ==
  ASSUME NEW a \in Ciphers, NEW b \in Ciphers, NEW c \in Ciphers
  PROVE  /\ Before(a, b) /\ Before(b, c) => Before(a, c)
         /\ Before(a, b) => ~(a.generation = b.generation /\ a.nonce = b.nonce)
BY DEF Before, Ciphers

\* A cipher within its key is never refused by check_limit.
LEMMA WithinLimit ==
  ASSUME NEW c \in Ciphers, WithinKey(c), NEW payload \in Payloads \union {0}
  PROVE  check_limit(c, PlaintextLen(payload))
<1>1. PlaintextLen(payload) \in Nat
  BY PayloadNat, PlaintextNat
<1> QED BY <1>1, LengthAssumption, RekeyAssumption DEF check_limit, WithinKey, Ciphers

\* A record as it goes on the wire.
LEMMA RecordOfType ==
  ASSUME NEW s \in SealedRecords
  PROVE  RecordOf(s) \in Records
BY DEF SealedRecords, RecordOf, Records, Ciphers

-----------------------------------------------------------------------------
(* A step of one direction leaves the other alone.                         *)

Same(e) ==
  /\ client' = client
  /\ seal'[e] = seal[e] /\ open'[e] = open[e]
  /\ sealing'[e] = sealing[e] /\ opening'[e] = opening[e]
  /\ wire'[e] = wire[e] /\ sealed'[e] = sealed[e] /\ opened'[e] = opened[e]
  /\ faults' = 0 => faults = 0

\* What is not touched keeps its invariant.
LEMMA SameInv ==
  ASSUME NEW e \in Dirs, DirInv(e), Same(e)
  PROVE  DirInv(e)'
<1> USE DEF Same
<1>1. Chain(e)' /\ FirstKey(e)'
  <2>1. Keys(e)' = Keys(e) /\ SealsAsBrowser(e)' = SealsAsBrowser(e)
    BY DEF Keys, SealsAsBrowser
  <2> QED BY <2>1 DEF DirInv, Chain, FirstKey
<1>2. Ordered(e)' /\ CloseIsLast(e)'
  BY DEF DirInv, Ordered, CloseIsLast
<1>3. Bounded(e)' /\ InChain(e)'
  BY DEF DirInv, Bounded, InChain, Keys, SealsAsBrowser, OpensAsBrowser
<1>4. FromWriter(e)'
  BY DEF DirInv, FromWriter
<1>5. Undisturbed(e)'
  BY ZenonT(30) DEF DirInv, Undisturbed
<1>6. Prefix(e)'
  BY DEF DirInv, Prefix
<1> QED BY <1>1, <1>2, <1>3, <1>4, <1>5, <1>6 DEF DirInv

-----------------------------------------------------------------------------
(* Sealing.                                                                *)

\* Sealing never meets the limit, adds one record to the chain and keeps
\* the reader's place in it.
LEMMA SealStep ==
  ASSUME IInv, NEW d \in Dirs, NEW payload \in Payloads \union {0}, NEW content \in Contents,
         SealRecord(d, payload, content), content = "close" => ~SealsAsBrowser(d)
  PROVE  DirInv(d)'
<1> DEFINE s == [cipher |-> seal[d], payload |-> payload, content |-> content]
           n == Len(sealed[d])
<1>1. /\ seal[d] \in Ciphers /\ open[d] \in Ciphers
      /\ sealed[d] \in Seq(SealedRecords) /\ wire[d] \in Seq(Records) /\ opened[d] \in Seq(Records)
      /\ payload \in Nat /\ n \in Nat /\ Len(opened[d]) \in Nat /\ PlaintextLen(payload) \in Nat
  <2>1. seal[d] \in Ciphers /\ open[d] \in Ciphers
    BY DEF IInv, TypeOK
  <2>2. sealed[d] \in Seq(SealedRecords) /\ wire[d] \in Seq(Records) /\ opened[d] \in Seq(Records)
    BY DEF IInv, TypeOK
  <2>3. n \in Nat /\ Len(opened[d]) \in Nat
    BY <2>2
  <2>4. payload \in Nat
    BY PayloadNat
  <2> QED BY <2>1, <2>2, <2>3, <2>4, PlaintextNat
<1>2. s \in SealedRecords /\ RecordOf(s) \in Records
  BY <1>1, RecordOfType, ZenonT(30) DEF SealedRecords
<1>3. SealsAsBrowser(d) \/ check_limit(seal[d], PlaintextLen(payload))
  BY <1>1, WithinLimit DEF IInv, DirInv, Bounded
<1>4. /\ seal'[d] = AfterSeal(SealsAsBrowser(d), s)
      /\ sealed'[d] = Append(sealed[d], s)
      /\ wire'[d] = Append(wire[d], RecordOf(s))
      /\ sealing[d] = "open"
      /\ sealing'[d] = IF content = "close" THEN "closed" ELSE "open"
      /\ client' = client /\ open' = open /\ opening' = opening /\ opened' = opened /\ faults' = faults
  BY <1>3 DEF SealRecord, IInv, TypeOK, AfterSeal
<1>5. /\ AfterSeal(SealsAsBrowser(d), s) \in Ciphers /\ Before(seal[d], AfterSeal(SealsAsBrowser(d), s))
      /\ ~SealsAsBrowser(d) => WithinKey(AfterSeal(SealsAsBrowser(d), s))
      /\ AfterSeal(SealsAsBrowser(d), s).generation = 0 =>
           seal[d].generation = 0 /\ AfterSeal(SealsAsBrowser(d), s).nonce = seal[d].nonce + 1
      /\ SealsAsBrowser(d) => AfterSeal(SealsAsBrowser(d), s).generation = seal[d].generation
  BY <1>1, CommitUp, BrowserCommitUp, ZenonT(30) DEF AfterSeal
<1>6. s.cipher = seal[d] /\ s.payload = payload /\ s.content = content
  OBVIOUS
<1> HIDE DEF s
<1>7. /\ Len(sealed'[d]) = n + 1
      /\ \A i \in 1 .. n : sealed'[d][i] = sealed[d][i] /\ sealed[d][i] \in SealedRecords
      /\ sealed'[d][n + 1] = s
  <2>1. sealed[d] \in Seq(SealedRecords) /\ s \in SealedRecords /\ sealed'[d] = Append(sealed[d], s)
    BY <1>1, <1>2, <1>4, ZenonT(30)
  <2> QED BY <2>1, Entries, Appended
<1>8. /\ Len(wire'[d]) = Len(wire[d]) + 1 /\ Len(wire[d]) \in Nat
      /\ \A i \in 1 .. Len(wire[d]) : wire'[d][i] = wire[d][i]
      /\ wire'[d][Len(wire[d]) + 1] = RecordOf(s)
  <2>1. wire[d] \in Seq(Records) /\ RecordOf(s) \in Records /\ wire'[d] = Append(wire[d], RecordOf(s))
    BY <1>1, <1>2, <1>4, ZenonT(30)
  <2> QED BY <2>1, Entries, Appended
<1> HIDE DEF n
<1>9. /\ \A i \in 1 .. n + 1 : Keys(d)'[i] = Keys(d)[i]
      /\ Keys(d)'[n + 2] = AfterSeal(SealsAsBrowser(d), s)
      /\ Keys(d)[n + 1] = seal[d]
  <2>1. /\ \A i \in 1 .. n : Keys(d)[i] = sealed[d][i].cipher
        /\ Keys(d)[n + 1] = seal[d]
    BY <1>1 DEF Keys, n
  <2>2. /\ \A i \in 1 .. n + 1 : Keys(d)'[i] = sealed'[d][i].cipher
        /\ Keys(d)'[n + 2] = seal'[d]
    BY <1>1, <1>7 DEF Keys
  <2>3. ASSUME NEW i \in 1 .. n + 1
        PROVE  Keys(d)'[i] = Keys(d)[i]
    <3>1. CASE i \in 1 .. n
      BY <1>7, <2>1, <2>2, <3>1, ZenonT(30)
    <3>2. CASE i = n + 1
      BY <1>6, <1>7, <2>1, <2>2, <3>2, ZenonT(30)
    <3> QED BY <1>1, <3>1, <3>2, Positions, ZenonT(30)
  <2> QED BY <1>4, <2>1, <2>2, <2>3, ZenonT(30)
<1>10. Chain(d)'
  <2>1. SealsAsBrowser(d)' = SealsAsBrowser(d)
    BY <1>4 DEF SealsAsBrowser
  <2>2. ASSUME NEW i \in 1 .. n + 1
        PROVE  Keys(d)'[i + 1] = AfterSeal(SealsAsBrowser(d), sealed'[d][i])
    <3>1. CASE i \in 1 .. n
      <4>1. i + 1 \in 1 .. n + 1
        BY <1>1, <3>1
      <4> QED BY <1>7, <1>9, <3>1, <4>1, ZenonT(30) DEF IInv, DirInv, Chain, n
    <3>2. CASE i = n + 1
      BY <1>1, <1>7, <1>9, <3>2
    <3> QED BY <1>1, <3>1, <3>2
  <2>3. Keys(d)'[1] = NewCipher
    BY <1>1, <1>9 DEF IInv, DirInv, Chain
  <2> QED BY <1>7, <2>1, <2>2, <2>3 DEF Chain
<1>11. Ordered(d)'
  <2>1. ASSUME NEW j \in 1 .. n + 1
        PROVE  /\ Before(sealed'[d][j].cipher, seal'[d])
               /\ \A i \in 1 .. j - 1 : Before(sealed'[d][i].cipher, sealed'[d][j].cipher)
    <3>1. CASE j = n + 1
      <4>1. \A i \in 1 .. j - 1 : i \in 1 .. n
        BY <1>1, Positions, ZenonT(30)
      <4>2. \A i \in 1 .. n : Before(sealed[d][i].cipher, seal[d])
        BY ZenonT(30) DEF IInv, DirInv, Ordered, n
      <4> QED BY <1>4, <1>5, <1>7, <1>6, <3>1, <4>1, <4>2, ZenonT(30)
    <3>2. CASE j \in 1 .. n
      <4>1. sealed[d][j].cipher \in Ciphers /\ sealed'[d][j] = sealed[d][j]
        BY <1>7, <3>2 DEF SealedRecords
      <4>2. Before(sealed[d][j].cipher, seal[d])
        BY <3>2 DEF IInv, DirInv, Ordered, n
      <4>3. Before(sealed[d][j].cipher, AfterSeal(SealsAsBrowser(d), s))
        BY <1>1, <1>5, <4>1, <4>2, BeforeOrder
      <4>4. \A i \in 1 .. j - 1 : i \in 1 .. n
        BY <1>1, <3>2
      <4> QED BY <1>4, <1>7, <3>2, <4>1, <4>3, <4>4, ZenonT(30) DEF IInv, DirInv, Ordered, n
    <3> QED BY <1>1, <3>1, <3>2, Positions, ZenonT(30)
  <2> QED BY <1>7, <2>1, ZenonT(30) DEF Ordered
<1>12. FirstKey(d)'
  <2>1. \A i \in 1 .. n + 1 : /\ Keys(d)'[i].generation = 0 => Keys(d)'[i].nonce = i - 1
                              /\ SealsAsBrowser(d) => Keys(d)'[i].generation = 0
    BY <1>9 DEF IInv, DirInv, FirstKey, n
  <2>2. n + 1 \in 1 .. n + 1
    BY <1>1, Positions, ZenonT(30)
  <2>3. /\ Keys(d)'[n + 2].generation = 0 => Keys(d)'[n + 2].nonce = n + 1
        /\ SealsAsBrowser(d) => Keys(d)'[n + 2].generation = 0
    <3>1. /\ seal[d].generation = 0 => seal[d].nonce = (n + 1) - 1
          /\ SealsAsBrowser(d) => seal[d].generation = 0
      BY <1>9, <2>2, ZenonT(30) DEF IInv, DirInv, FirstKey, n
    <3>2. (n + 1) - 1 = n
      BY <1>1
    <3> QED BY <1>5, <1>9, <3>1, <3>2, ZenonT(30)
  <2>4. ASSUME NEW i \in 1 .. n + 2
        PROVE  /\ Keys(d)'[i].generation = 0 => Keys(d)'[i].nonce = i - 1
               /\ SealsAsBrowser(d) => Keys(d)'[i].generation = 0
    <3>1. i \in 1 .. n + 1 \/ i = n + 2
      BY <1>1, Positions, ZenonT(30)
    <3>2. (n + 2) - 1 = n + 1
      BY <1>1
    <3> QED BY <2>1, <2>3, <3>1, <3>2, ZenonT(30)
  <2>5. SealsAsBrowser(d)' = SealsAsBrowser(d)
    BY <1>4 DEF SealsAsBrowser
  <2>6. Len(sealed'[d]) + 1 = n + 2
    BY <1>1, <1>7, Positions, ZenonT(30)
  <2> QED BY <2>4, <2>5, <2>6, ZenonT(30) DEF FirstKey
<1>13. Bounded(d)'
  BY <1>4, <1>5, ZenonT(30) DEF IInv, DirInv, Bounded, SealsAsBrowser, OpensAsBrowser
<1>14. CloseIsLast(d)'
  <2>1. \A i \in 1 .. n : /\ sealed[d][i].payload \in Payloads \union {0}
                          /\ sealed[d][i].content # "close"
    BY <1>4, ZenonT(30) DEF IInv, DirInv, CloseIsLast, n
  <2>2. \A i \in 1 .. n + 1 :
          /\ sealed'[d][i].payload \in Payloads \union {0}
          /\ sealed'[d][i].content = "close" => i = n + 1 /\ sealing'[d] = "closed"
    <3>1. \A i \in 1 .. n : /\ sealed'[d][i].payload \in Payloads \union {0}
                            /\ sealed'[d][i].content # "close"
      BY <1>7, <2>1, ZenonT(30)
    <3>2. /\ sealed'[d][n + 1].payload \in Payloads \union {0}
          /\ sealed'[d][n + 1].content = "close" => sealing'[d] = "closed"
      BY <1>4, <1>6, <1>7, ZenonT(30)
    <3>3. \A i \in 1 .. n + 1 : i \in 1 .. n \/ i = n + 1
      BY <1>1, Positions, ZenonT(30)
    <3> QED BY <3>1, <3>2, <3>3, ZenonT(30)
  <2> QED BY <1>7, <2>2, ZenonT(30) DEF CloseIsLast
<1>15. InChain(d)'
  <2>1. Len(opened[d]) + 1 \in 1 .. n + 1
    BY <1>1 DEF IInv, DirInv, Prefix, n
  <2> QED BY <1>4, <1>9, <2>1, ZenonT(30) DEF IInv, DirInv, InChain, OpensAsBrowser
<1>16. FromWriter(d)'
  <2>1. ASSUME NEW i \in 1 .. Len(wire[d]) + 1, wire'[d][i].intact
        PROVE  \E k \in 1 .. n + 1 : wire'[d][i] = RecordOf(sealed'[d][k])
    <3>1. CASE i = Len(wire[d]) + 1
      BY <1>1, <1>7, <1>8, <3>1, Positions, ZenonT(30)
    <3>2. CASE i \in 1 .. Len(wire[d])
      <4>1. PICK k \in 1 .. n : wire[d][i] = RecordOf(sealed[d][k])
        BY <1>8, <2>1, <3>2, ZenonT(30) DEF IInv, DirInv, FromWriter, n
      <4> QED BY <1>1, <1>7, <1>8, <3>2, <4>1, Positions, ZenonT(30)
    <3> QED BY <1>8, <3>1, <3>2, Positions, ZenonT(30)
  <2> QED BY <1>7, <1>8, <2>1, ZenonT(30) DEF FromWriter
<1>17. Undisturbed(d)'
  <2>1. SUFFICES ASSUME client = "native", faults = 0
                 PROVE  /\ opening'[d] # "failed"
                        /\ Len(wire'[d]) = Len(sealed'[d]) - Len(opened'[d])
                        /\ \A i \in 1 .. Len(wire'[d]) :
                             wire'[d][i] = RecordOf(sealed'[d][Len(opened'[d]) + i])
    BY <1>4, ZenonT(30) DEF Undisturbed
  <2>2. /\ opening[d] # "failed" /\ Len(wire[d]) = n - Len(opened[d])
        /\ \A i \in 1 .. Len(wire[d]) : wire[d][i] = RecordOf(sealed[d][Len(opened[d]) + i])
    BY <2>1, ZenonT(30) DEF IInv, DirInv, Undisturbed, n
  <2>3. ASSUME NEW i \in 1 .. Len(wire[d]) + 1
        PROVE  wire'[d][i] = RecordOf(sealed'[d][Len(opened[d]) + i])
    <3>1. CASE i \in 1 .. Len(wire[d])
      <4>1. Len(opened[d]) + i \in 1 .. n
        BY <1>1, <2>2, <3>1, Offset, ZenonT(30)
      <4> QED BY <1>7, <1>8, <2>2, <3>1, <4>1, ZenonT(30)
    <3>2. CASE i = Len(wire[d]) + 1
      <4>1. Len(opened[d]) + i = n + 1
        BY <1>1, <1>8, <2>2, <3>2
      <4> QED BY <1>7, <1>8, <3>2, <4>1, ZenonT(30)
    <3> QED BY <1>8, <3>1, <3>2, Positions, ZenonT(30)
  <2>4. opened'[d] = opened[d] /\ opening'[d] = opening[d]
    BY <1>4
  <2> HIDE DEF n
  <2> QED BY <1>1, <1>7, <1>8, <2>2, <2>3, <2>4
<1>18. Prefix(d)'
  BY <1>1, <1>4, <1>7 DEF IInv, DirInv, Prefix, n
<1> QED BY <1>10, <1>11, <1>12, <1>13, <1>14, <1>15, <1>16, <1>17, <1>18 DEF DirInv

-----------------------------------------------------------------------------
(* Opening.                                                                *)

\* A record that decrypts is the one after those opened so far.
LEMMA DecryptedIsNext ==
  ASSUME IInv, NEW d \in Dirs, wire[d] # <<>>, BrowserDecrypts(d, Head(wire[d]))
  PROVE  LET n == Len(opened[d])
         IN  /\ n + 1 \in 1 .. Len(sealed[d])
             /\ Head(wire[d]) = RecordOf(sealed[d][n + 1])
             /\ OpensAsBrowser(d) => open[d].nonce = n
<1> DEFINE n == Len(opened[d])
           m == Len(sealed[d])
<1>1. /\ wire[d] \in Seq(Records) /\ n \in Nat /\ m \in Nat /\ n <= m
      /\ seal[d] \in Ciphers /\ open[d] \in Ciphers
      /\ \A i \in 1 .. m : sealed[d][i] \in SealedRecords
  <2>1. sealed[d] \in Seq(SealedRecords) /\ wire[d] \in Seq(Records) /\ opened[d] \in Seq(Records)
    BY DEF IInv, TypeOK
  <2>2. seal[d] \in Ciphers /\ open[d] \in Ciphers
    BY DEF IInv, TypeOK
  <2> QED BY <2>1, <2>2 DEF IInv, DirInv, Prefix
<1>2. 1 \in 1 .. Len(wire[d]) /\ Head(wire[d]) = wire[d][1]
  BY <1>1, Tailed, ZenonT(30)
<1>3. PICK k \in 1 .. m : Head(wire[d]) = RecordOf(sealed[d][k])
  <2>1. FromWriter(d) /\ wire[d][1].intact
    BY <1>2, ZenonT(30) DEF BrowserDecrypts, IInv, DirInv
  <2> QED BY <1>2, <2>1, ZenonT(30) DEF FromWriter
<1>4. sealed[d][k].cipher.generation = open[d].generation /\ sealed[d][k].cipher.nonce = open[d].nonce
  BY <1>3 DEF BrowserDecrypts, RecordOf
<1>5. Keys(d)[k] = sealed[d][k].cipher /\ k \in 1 .. m + 1
  BY <1>1 DEF Keys
<1>6. open[d].generation = 0 => open[d].nonce = k - 1
  BY <1>4, <1>5 DEF IInv, DirInv, FirstKey
<1>7. k = n + 1 /\ (OpensAsBrowser(d) => open[d].nonce = n)
  <2>1. CASE client = "native"
    <3>1. open[d] = Keys(d)[n + 1] /\ ~OpensAsBrowser(d)
      BY <2>1 DEF IInv, DirInv, InChain, OpensAsBrowser
    <3>2. CASE n = m
      <4>1. open[d] = seal[d]
        BY <1>1, <3>1, <3>2 DEF Keys
      <4>2. Before(sealed[d][k].cipher, seal[d]) /\ sealed[d][k].cipher \in Ciphers
        BY <1>1 DEF IInv, DirInv, Ordered, SealedRecords
      <4> QED BY <1>1, <1>4, <4>1, <4>2, BeforeOrder, ZenonT(30)
    <3>3. CASE n # m
      <4>1. n + 1 \in 1 .. m
        BY <1>1, <3>3
      <4>2. open[d] = sealed[d][n + 1].cipher
        BY <1>1, <3>1, <4>1 DEF Keys
      <4>3. \A i, j \in 1 .. m : i < j => Before(sealed[d][i].cipher, sealed[d][j].cipher)
        BY <1>1 DEF IInv, DirInv, Ordered
      <4>4. \A i, j \in 1 .. m : i < j =>
              ~(/\ sealed[d][i].cipher.generation = sealed[d][j].cipher.generation
                /\ sealed[d][i].cipher.nonce = sealed[d][j].cipher.nonce)
        BY <1>1, <4>3, BeforeOrder, ZenonT(30) DEF SealedRecords
      <4>5. ~(k < n + 1) /\ ~(n + 1 < k)
        BY <1>4, <4>1, <4>2, <4>4
      <4> QED BY <1>1, <3>1, <4>5
    <3> QED BY <3>2, <3>3
  <2>2. CASE client = "browser" /\ d = "up"
    <3>1. open[d].generation = 0
      BY <1>4, <1>5, <2>2 DEF IInv, DirInv, FirstKey, SealsAsBrowser
    <3> QED BY <1>1, <1>6, <2>2, <3>1 DEF IInv, DirInv, InChain, OpensAsBrowser
  <2>3. CASE client = "browser" /\ d = "down"
    <3>1. /\ open[d].generation = 0
          /\ open[d].nonce = n \/ (open[d].nonce = n + 1 /\ open[d].nonce = m)
      BY <2>3 DEF IInv, DirInv, InChain, OpensAsBrowser
    <3> QED BY <1>1, <1>6, <3>1
  <2> QED BY <2>1, <2>2, <2>3, BoundsAssumption DEF IInv, TypeOK, Dirs
<1> QED BY <1>3, <1>7, ZenonT(30)

\* A step that leaves the writer's end alone keeps what is said of it.
LEMMA WriterSame ==
  ASSUME NEW d \in Dirs, DirInv(d), client' = client,
         seal'[d] = seal[d], sealed'[d] = sealed[d], sealing'[d] = sealing[d]
  PROVE  /\ Chain(d)' /\ Ordered(d)' /\ FirstKey(d)' /\ CloseIsLast(d)'
         /\ Keys(d)' = Keys(d)
         /\ SealsAsBrowser(d)' = SealsAsBrowser(d) /\ OpensAsBrowser(d)' = OpensAsBrowser(d)
<1>1. /\ Keys(d)' = Keys(d)
      /\ SealsAsBrowser(d)' = SealsAsBrowser(d) /\ OpensAsBrowser(d)' = OpensAsBrowser(d)
  BY ZenonT(30) DEF Keys, SealsAsBrowser, OpensAsBrowser
<1>2. Chain(d)' /\ FirstKey(d)'
  BY <1>1, ZenonT(30) DEF DirInv, Chain, FirstKey
<1>3. Ordered(d)' /\ CloseIsLast(d)'
  BY DEF DirInv, Ordered, CloseIsLast
<1> QED BY <1>1, <1>2, <1>3

\* Taking a record off the wire leaves only records of the writer there.
LEMMA TailFromWriter ==
  ASSUME IInv, NEW d \in Dirs, wire[d] # <<>>, wire'[d] = Tail(wire[d]), sealed'[d] = sealed[d]
  PROVE  FromWriter(d)'
<1>1. wire[d] \in Seq(Records)
  BY DEF IInv, TypeOK
<1>2. /\ Len(wire[d]) \in Nat /\ Len(wire'[d]) = Len(wire[d]) - 1
      /\ \A i \in 1 .. Len(wire'[d]) : wire'[d][i] = wire[d][i + 1] /\ i + 1 \in 1 .. Len(wire[d])
  <2>1. Len(wire[d]) \in Nat
    BY <1>1, Entries, ZenonT(30)
  <2> QED BY <1>1, <2>1, Tailed, ZenonT(30)
<1> QED BY <1>2 DEF IInv, DirInv, FromWriter

\* While nobody interferes, a native reader accepts the next record.
LEMMA UndisturbedAccepts ==
  ASSUME IInv, NEW d \in Dirs, wire[d] # <<>>, client = "native", faults = 0
  PROVE  Accepts(d, Head(wire[d]))
<1> DEFINE n == Len(opened[d])
           m == Len(sealed[d])
<1>1. /\ wire[d] \in Seq(Records) /\ n \in Nat /\ m \in Nat
      /\ open[d] \in Ciphers
      /\ \A i \in 1 .. m : sealed[d][i] \in SealedRecords
  <2>1. sealed[d] \in Seq(SealedRecords) /\ wire[d] \in Seq(Records) /\ opened[d] \in Seq(Records)
    BY DEF IInv, TypeOK
  <2>2. open[d] \in Ciphers
    BY DEF IInv, TypeOK
  <2> QED BY <2>1, <2>2
<1>2. 1 \in 1 .. Len(wire[d]) /\ Head(wire[d]) = wire[d][1]
  BY <1>1
<1>3. n + 1 \in 1 .. m /\ Head(wire[d]) = RecordOf(sealed[d][n + 1])
  <2>1. /\ Len(wire[d]) = m - n
        /\ \A i \in 1 .. Len(wire[d]) : wire[d][i] = RecordOf(sealed[d][n + i])
    BY ZenonT(30) DEF IInv, DirInv, Undisturbed
  <2> HIDE DEF n, m
  <2> QED BY <1>1, <1>2, <2>1
<1>4. open[d] = sealed[d][n + 1].cipher
  <2>1. open[d] = Keys(d)[n + 1]
    BY ZenonT(30) DEF IInv, DirInv, InChain
  <2> QED BY <1>1, <1>3, <2>1 DEF Keys
<1>5. sealed[d][n + 1].payload \in Payloads \union {0}
  BY <1>3, ZenonT(30) DEF IInv, DirInv, CloseIsLast
<1>6. WithinKey(open[d])
  BY DEF IInv, DirInv, Bounded, OpensAsBrowser
<1>7. check_limit(open[d], PlaintextLen(sealed[d][n + 1].payload))
  BY <1>1, <1>5, <1>6, WithinLimit
<1>8. LengthAccepted(RecordLen(sealed[d][n + 1].payload))
  BY <1>5, LengthAssumption
<1> QED BY <1>3, <1>4, <1>7, <1>8 DEF Accepts, RecordOf

\* Opening the next record, or refusing one, keeps the reader in the chain.
LEMMA OpenStep ==
  ASSUME IInv, NEW d \in Dirs, OpenRecord(d)
  PROVE  DirInv(d)'
<1> DEFINE r == Head(wire[d])
           n == Len(opened[d])
           m == Len(sealed[d])
<1>1. /\ wire[d] \in Seq(Records) /\ opened[d] \in Seq(Records)
      /\ n \in Nat /\ m \in Nat /\ open[d] \in Ciphers /\ wire[d] # <<>>
      /\ \A i \in 1 .. m : sealed[d][i] \in SealedRecords
  <2>1. sealed[d] \in Seq(SealedRecords) /\ wire[d] \in Seq(Records) /\ opened[d] \in Seq(Records)
    BY DEF IInv, TypeOK
  <2>2. open[d] \in Ciphers
    BY DEF IInv, TypeOK
  <2> QED BY <2>1, <2>2 DEF OpenRecord
<1>2. /\ client' = client /\ seal'[d] = seal[d] /\ sealed'[d] = sealed[d]
      /\ sealing'[d] = sealing[d] /\ faults' = faults
      /\ wire'[d] = Tail(wire[d]) /\ opening[d] = "open"
  BY ZenonT(30) DEF OpenRecord, IInv, TypeOK
<1>3. /\ Chain(d)' /\ Ordered(d)' /\ FirstKey(d)' /\ CloseIsLast(d)' /\ Keys(d)' = Keys(d)
      /\ SealsAsBrowser(d)' = SealsAsBrowser(d) /\ OpensAsBrowser(d)' = OpensAsBrowser(d)
  BY <1>2, WriterSame, ZenonT(30) DEF IInv
<1>4. FromWriter(d)'
  BY <1>1, <1>2, TailFromWriter
<1>5. r \in Records /\ r.payload \in Nat /\ PlaintextLen(r.payload) \in Nat
  <2>1. r \in Records
    BY <1>1
  <2>2. r.payload \in Nat
    BY <2>1 DEF Records
  <2> QED BY <2>1, <2>2, PlaintextNat
<1>6. CASE BrowserDecrypts(d, r) /\ (OpensAsBrowser(d) => r.content = "application")
           /\ (~OpensAsBrowser(d) => Accepts(d, r))
  <2>1. /\ n + 1 \in 1 .. m /\ r = RecordOf(sealed[d][n + 1])
        /\ OpensAsBrowser(d) => open[d].nonce = n
    BY <1>1, <1>6, DecryptedIsNext, ZenonT(30)
  <2>2. /\ opened'[d] = Append(opened[d], r)
        /\ open'[d] = IF OpensAsBrowser(d) THEN browser_commit(open[d])
                                            ELSE commit(open[d], PlaintextLen(r.payload))
        /\ opening'[d] = IF r.content = "close" THEN "closed" ELSE "open"
    BY <1>2, <1>6, ZenonT(30) DEF OpenRecord, OpenNative, OpenBrowser, BrowserAccepts, IInv, TypeOK
  <2>3. /\ Len(opened'[d]) = n + 1 /\ opened'[d][n + 1] = r
        /\ \A i \in 1 .. n : opened'[d][i] = opened[d][i]
    <3>1. opened[d] \in Seq(Records) /\ r \in Records /\ opened'[d] = Append(opened[d], r)
      BY <1>1, <1>5, <2>2, ZenonT(30)
    <3> HIDE DEF r
    <3> QED BY <3>1, Appended
  <2>4. /\ r.payload = sealed[d][n + 1].payload /\ r.content = sealed[d][n + 1].content
        /\ sealed[d][n + 1].content = "close" => n + 1 = m /\ sealing[d] = "closed"
    BY <2>1, SMTT(30) DEF RecordOf, IInv, DirInv, CloseIsLast
  <2> HIDE DEF r, n, m
  <2>5. Bounded(d)'
    BY <1>1, <1>2, <1>3, <1>5, <2>2, CommitUp, ZenonT(30) DEF IInv, DirInv, Bounded
  <2>6. InChain(d)'
    <3>1. CASE client = "native"
      <4>1. open[d] = sealed[d][n + 1].cipher /\ ~SealsAsBrowser(d) /\ ~OpensAsBrowser(d)
        <5>1. open[d] = Keys(d)[n + 1]
          BY <3>1, ZenonT(30) DEF IInv, DirInv, InChain, n
        <5> QED BY <1>1, <2>1, <3>1, <5>1, SMTT(30) DEF Keys, SealsAsBrowser, OpensAsBrowser, m
      <4>2. Keys(d)[n + 2] = commit(open[d], PlaintextLen(r.payload))
        <5>1. Keys(d)[(n + 1) + 1] = AfterSeal(SealsAsBrowser(d), sealed[d][n + 1])
          BY <2>1, ZenonT(30) DEF IInv, DirInv, Chain, m
        <5>2. (n + 1) + 1 = n + 2
          BY <1>1, Positions, ZenonT(30)
        <5> QED BY <2>4, <4>1, <5>1, <5>2, ZenonT(30) DEF AfterSeal
      <4>3. open'[d] = Keys(d)'[Len(opened'[d]) + 1]
        <5>1. Len(opened'[d]) + 1 = n + 2
          BY <1>1, <2>3, Positions, ZenonT(30)
        <5>2. open'[d] = commit(open[d], PlaintextLen(r.payload))
          BY <2>2, <4>1
        <5> QED BY <1>3, <4>2, <5>1, <5>2, ZenonT(30)
      <4> QED BY <1>2, <3>1, <4>3 DEF InChain, OpensAsBrowser
    <3>2. CASE client = "browser" /\ d = "up"
      <4>1. open'[d].generation = 0 => open[d].generation = 0 /\ open'[d].nonce = open[d].nonce + 1
        BY <1>1, <1>5, <2>2, <3>2, CommitUp, ZenonT(30) DEF OpensAsBrowser
      <4>2. open'[d].generation = 0 => open'[d].nonce = n + 1
        BY <3>2, <4>1 DEF IInv, DirInv, InChain, n
      <4> QED BY <1>2, <2>3, <3>2, <4>2 DEF InChain, OpensAsBrowser
    <3>3. CASE client = "browser" /\ d = "down"
      <4>1. open'[d].generation = 0 /\ open'[d].nonce = n + 1
        BY <1>1, <2>1, <2>2, <3>3, BrowserCommitUp, SMTT(30) DEF IInv, DirInv, InChain, OpensAsBrowser
      <4> QED BY <1>2, <2>3, <3>3, <4>1, ZenonT(30) DEF InChain, OpensAsBrowser
    <3> QED BY <3>1, <3>2, <3>3, BoundsAssumption DEF IInv, TypeOK, Dirs
  <2>7. Undisturbed(d)'
    <3>1. SUFFICES ASSUME client = "native", faults = 0
                   PROVE  /\ opening'[d] # "failed"
                          /\ Len(wire'[d]) = Len(sealed'[d]) - Len(opened'[d])
                          /\ \A i \in 1 .. Len(wire'[d]) :
                               wire'[d][i] = RecordOf(sealed'[d][Len(opened'[d]) + i])
      BY <1>2, ZenonT(30) DEF Undisturbed
    <3>2. /\ Len(wire[d]) = m - n
          /\ \A i \in 1 .. Len(wire[d]) : wire[d][i] = RecordOf(sealed[d][n + i])
      BY <3>1, ZenonT(30) DEF IInv, DirInv, Undisturbed, n, m
    <3>3. /\ Len(wire'[d]) = Len(wire[d]) - 1
          /\ \A i \in 1 .. Len(wire'[d]) : wire'[d][i] = wire[d][i + 1] /\ i + 1 \in 1 .. Len(wire[d])
      BY <1>1, <1>2
    <3>4. \A i \in 1 .. Len(wire'[d]) : wire'[d][i] = RecordOf(sealed[d][(n + 1) + i])
      <4>1. \A i \in 1 .. Len(wire'[d]) : n + (i + 1) = (n + 1) + i
        BY <1>1
      <4> QED BY <3>2, <3>3, <4>1
    <3>5. Len(wire'[d]) = m - (n + 1)
      BY <1>1, <3>2, <3>3
    <3>6. opening'[d] # "failed"
      BY <2>2
    <3> QED BY <1>2, <2>3, <3>4, <3>5, <3>6, ZenonT(30) DEF m
  <2>8. Prefix(d)'
    <3>1. \A i \in 1 .. n + 1 : opened'[d][i] = RecordOf(sealed[d][i])
      <4>1. \A i \in 1 .. n : opened[d][i] = RecordOf(sealed[d][i])
        BY ZenonT(30) DEF IInv, DirInv, Prefix, n
      <4> QED BY <1>1, <2>1, <2>3, <4>1, Positions, ZenonT(30)
    <3>2. opening'[d] = "closed" => n + 1 = m /\ sealing[d] = "closed"
      BY <2>2, <2>4, ZenonT(30)
    <3>3. n + 1 <= m
      BY <1>1, <2>1
    <3> QED BY <1>2, <2>3, <3>1, <3>2, <3>3, ZenonT(30) DEF Prefix, m
  <2> QED BY <1>3, <1>4, <2>5, <2>6, <2>7, <2>8, ZenonT(30) DEF DirInv
<1>7. CASE BrowserDecrypts(d, r) /\ OpensAsBrowser(d) /\ r.content # "application"
  <2>1. /\ n + 1 \in 1 .. m /\ r = RecordOf(sealed[d][n + 1])
        /\ open[d].nonce = n
    BY <1>1, <1>7, DecryptedIsNext
  <2>2. /\ opened'[d] = opened[d] /\ opening'[d] = opening[d]
        /\ open'[d] = browser_commit(open[d])
    BY <1>2, <1>7, SMTT(30) DEF OpenRecord, OpenBrowser, BrowserAccepts, IInv, TypeOK
  <2>3. n + 1 = m /\ sealing[d] = "closed"
    <3>1. sealed[d][n + 1].content \in Contents
      <4>1. sealed[d][n + 1] \in SealedRecords
        BY <1>1, <2>1, ZenonT(30)
      <4> QED BY <4>1 DEF SealedRecords
    <3>2. r.content = sealed[d][n + 1].content
      BY <2>1 DEF RecordOf
    <3>3. CloseIsLast(d)
      BY ZenonT(30) DEF IInv, DirInv
    <3> QED BY <1>7, <2>1, <3>1, <3>2, <3>3, ZenonT(30) DEF CloseIsLast, Contents
  <2>4. open'[d].generation = 0 /\ open'[d].nonce = n + 1
    BY <1>1, <1>7, <2>1, <2>2, BrowserCommitUp, ZenonT(30) DEF IInv, DirInv, InChain
  <2>5. client = "browser" /\ d = "down"
    BY <1>7 DEF OpensAsBrowser
  <2> HIDE DEF r, n, m
  <2>6. Bounded(d)'
    BY <1>2, <1>3, <1>7, ZenonT(30) DEF IInv, DirInv, Bounded
  <2>7. InChain(d)'
    BY <1>2, <2>2, <2>3, <2>4, <2>5, ZenonT(30) DEF InChain, OpensAsBrowser, n, m
  <2>8. Undisturbed(d)' /\ Prefix(d)'
    BY <1>2, <2>2, <2>5 DEF IInv, DirInv, Undisturbed, Prefix
  <2> QED BY <1>3, <1>4, <2>6, <2>7, <2>8, ZenonT(30) DEF DirInv
<1>8. CASE IF OpensAsBrowser(d) THEN ~BrowserDecrypts(d, r) ELSE ~Accepts(d, r)
  <2>1. /\ opened'[d] = opened[d] /\ open'[d] = open[d]
        /\ opening'[d] = IF OpensAsBrowser(d) THEN "open" ELSE "failed"
    BY <1>2, <1>8, ZenonT(30) DEF OpenRecord, OpenNative, OpenBrowser, BrowserAccepts, IInv, TypeOK
  <2>2. Bounded(d)' /\ InChain(d)'
    BY <1>2, <1>3, <2>1, ZenonT(30) DEF IInv, DirInv, Bounded, InChain
  <2>3. ~(client = "native" /\ faults = 0)
    BY <1>1, <1>8, UndisturbedAccepts DEF OpensAsBrowser
  <2>4. Undisturbed(d)'
    BY <1>2, <2>3, ZenonT(30) DEF Undisturbed
  <2>5. Prefix(d)'
    BY <1>2, <2>1, ZenonT(30) DEF IInv, DirInv, Prefix
  <2> QED BY <1>3, <1>4, <2>2, <2>4, <2>5 DEF DirInv
<1>9. Accepts(d, r) => BrowserDecrypts(d, r)
  BY ZenonT(30) DEF Accepts, BrowserDecrypts
<1> QED BY <1>6, <1>7, <1>8, <1>9

-----------------------------------------------------------------------------
(* The end of a stream, and the transport.                                 *)

\* A writer that is cut off, and a reader that meets the end of the stream
\* without a CLOSE record, change only how they stand.
LEMMA EndStep ==
  ASSUME IInv, NEW d \in Dirs, Cut(d) \/ OpenEof(d)
  PROVE  DirInv(d)'
<1>1. /\ client' = client /\ faults' = faults
      /\ seal' = seal /\ open' = open /\ wire' = wire /\ sealed' = sealed /\ opened' = opened
  BY DEF Cut, OpenEof
<1>2. /\ opening'[d] \in {opening[d], "eof"}
      /\ sealing'[d] = sealing[d] \/ sealing[d] = "open"
  BY DEF Cut, OpenEof, IInv, TypeOK
<1>3. Keys(d)' = Keys(d) /\ SealsAsBrowser(d)' = SealsAsBrowser(d) /\ OpensAsBrowser(d)' = OpensAsBrowser(d)
  BY <1>1, SMTT(30) DEF Keys, SealsAsBrowser, OpensAsBrowser
<1>4. Chain(d)' /\ FirstKey(d)'
  BY <1>1, <1>3, ZenonT(30) DEF IInv, DirInv, Chain, FirstKey
<1>5. Ordered(d)' /\ CloseIsLast(d)'
  BY <1>1, <1>2, ZenonT(30) DEF IInv, DirInv, Ordered, CloseIsLast
<1>6. Bounded(d)' /\ InChain(d)'
  BY <1>1, <1>2, <1>3, ZenonT(30) DEF IInv, DirInv, Bounded, InChain
<1>7. FromWriter(d)' /\ Undisturbed(d)'
  BY <1>1, <1>2, ZenonT(30) DEF IInv, DirInv, FromWriter, Undisturbed
<1>8. Prefix(d)'
  BY <1>1, <1>2, ZenonT(30) DEF IInv, DirInv, Prefix
<1> QED BY <1>4, <1>5, <1>6, <1>7, <1>8 DEF DirInv

\* What the transport does: it changes the wire, and what it leaves whole
\* there was sealed.
LEMMA InterfereStep ==
  ASSUME IInv, NEW d \in Dirs, NEW records, Interfere(d, records),
         \A i \in 1 .. Len(records) : records[i].intact =>
           \E k \in 1 .. Len(sealed[d]) : records[i] = RecordOf(sealed[d][k])
  PROVE  DirInv(d)'
<1>1. /\ client' = client /\ faults' = faults + 1 /\ faults \in Nat /\ wire'[d] = records
      /\ seal' = seal /\ open' = open /\ sealed' = sealed /\ opened' = opened
      /\ sealing' = sealing /\ opening' = opening
  BY SMTT(30) DEF Interfere, IInv, TypeOK
<1>2. /\ Chain(d)' /\ Ordered(d)' /\ FirstKey(d)' /\ CloseIsLast(d)' /\ Keys(d)' = Keys(d)
      /\ SealsAsBrowser(d)' = SealsAsBrowser(d) /\ OpensAsBrowser(d)' = OpensAsBrowser(d)
  BY <1>1, WriterSame, ZenonT(30) DEF IInv
<1>3. Bounded(d)' /\ InChain(d)'
  BY <1>1, <1>2, ZenonT(30) DEF IInv, DirInv, Bounded, InChain
<1>4. Undisturbed(d)'
  <2>1. faults' # 0
    BY <1>1, SMTT(30)
  <2> QED BY <2>1, ZenonT(30) DEF Undisturbed
<1>5. Prefix(d)'
  BY <1>1 DEF IInv, DirInv, Prefix
<1>6. FromWriter(d)'
  BY <1>1 DEF FromWriter
<1> QED BY <1>2, <1>3, <1>4, <1>5, <1>6, ZenonT(30) DEF DirInv

\* Damaging, losing and replaying a record: what stays whole was sealed.
LEMMA TransportStep ==
  ASSUME IInv, NEW d \in Dirs, Damage(d) \/ Lose(d) \/ Replay(d)
  PROVE  DirInv(d)' /\ (wire'[d] \in Seq(Records))
<1> DEFINE Sealed(x) == x.intact => \E k \in 1 .. Len(sealed[d]) : x = RecordOf(sealed[d][k])
<1>1. wire[d] \in Seq(Records) /\ sealed[d] \in Seq(SealedRecords)
  BY ZenonT(30) DEF IInv, TypeOK
<1>2. /\ DOMAIN wire[d] = 1 .. Len(wire[d]) /\ Len(wire[d]) \in Nat
      /\ \A i \in 1 .. Len(wire[d]) : wire[d][i] \in Records
      /\ DOMAIN sealed[d] = 1 .. Len(sealed[d])
      /\ \A i \in 1 .. Len(sealed[d]) : sealed[d][i] \in SealedRecords
  BY <1>1, Entries, ZenonT(30)
<1>3. \A i \in 1 .. Len(wire[d]) : Sealed(wire[d][i])
  BY DEF IInv, DirInv, FromWriter
<1>4. SUFFICES ASSUME NEW records \in Seq(Records), Interfere(d, records),
                      \A i \in 1 .. Len(records) : Sealed(records[i])
               PROVE  DirInv(d)' /\ wire'[d] \in Seq(Records)
  <2>1. ASSUME NEW i \in DOMAIN wire[d],
               Interfere(d, [wire[d] EXCEPT ![i] = [@ EXCEPT !.intact = FALSE]])
        PROVE  \E records \in Seq(Records) :
                 Interfere(d, records) /\ \A j \in 1 .. Len(records) : Sealed(records[j])
    <3> DEFINE x == [wire[d][i] EXCEPT !.intact = FALSE]
               records == [wire[d] EXCEPT ![i] = x]
    <3>1. x \in Records /\ ~x.intact
      BY <1>2, <2>1, ZenonT(30) DEF Records
    <3> HIDE DEF x
    <3>2. /\ records \in Seq(Records) /\ Len(records) = Len(wire[d])
          /\ \A j \in 1 .. Len(wire[d]) : records[j] = IF j = i THEN x ELSE wire[d][j]
      BY <1>1, <1>2, <2>1, <3>1, Replaced
    <3> HIDE DEF records
    <3>3. \A j \in 1 .. Len(records) : Sealed(records[j])
      BY <1>3, <3>1, <3>2, ZenonT(30)
    <3>4. Interfere(d, records)
      BY <2>1, SMTT(30) DEF x, records
    <3> QED BY <3>2, <3>3, <3>4, ZenonT(30)
  <2>2. ASSUME NEW i \in DOMAIN wire[d], Interfere(d, Drop(wire[d], i))
        PROVE  \E records \in Seq(Records) :
                 Interfere(d, records) /\ \A j \in 1 .. Len(records) : Sealed(records[j])
    <3> DEFINE n == Len(wire[d]) - 1
    <3>1. n \in Nat /\ \A j \in 1 .. n : j \in 1 .. Len(wire[d]) /\ j + 1 \in 1 .. Len(wire[d])
      <4>1. Len(wire[d]) \in Nat /\ i \in 1 .. Len(wire[d])
        BY <1>2, <2>2, ZenonT(30)
      <4> QED BY <4>1
    <3>2. Drop(wire[d], i) = [j \in 1 .. n |-> IF j < i THEN wire[d][j] ELSE wire[d][j + 1]]
      BY ZenonT(30) DEF Drop
    <3> HIDE DEF n
    <3>3. /\ Drop(wire[d], i) \in Seq(Records) /\ Len(Drop(wire[d], i)) = n
          /\ \A j \in 1 .. n : Drop(wire[d], i)[j] = IF j < i THEN wire[d][j] ELSE wire[d][j + 1]
      <4>1. \A j \in 1 .. n : wire[d][j] \in Records /\ wire[d][j + 1] \in Records
        BY <1>2, <3>1, ZenonT(30)
      <4>2. Drop(wire[d], i) \in [1 .. n -> Records]
        BY <3>2, <4>1, ZenonT(30)
      <4>3. Drop(wire[d], i) \in Seq(Records) /\ Len(Drop(wire[d], i)) = n
        BY <3>1, <4>2, Listed, ZenonT(30)
      <4> QED BY <3>2, <4>3, ZenonT(30)
    <3>4. \A j \in 1 .. n : Sealed(Drop(wire[d], i)[j])
      BY <1>3, <3>1, <3>3, ZenonT(30)
    <3> QED BY <2>2, <3>3, <3>4, ZenonT(30)
  <2>3. ASSUME NEW i \in DOMAIN sealed[d], Interfere(d, <<RecordOf(sealed[d][i])>> \o wire[d])
        PROVE  \E records \in Seq(Records) :
                 Interfere(d, records) /\ \A j \in 1 .. Len(records) : Sealed(records[j])
    <3> DEFINE x == RecordOf(sealed[d][i])
               records == <<x>> \o wire[d]
    <3>1. x \in Records /\ Sealed(x)
      BY <1>2, <2>3, RecordOfType, ZenonT(30)
    <3> HIDE DEF x
    <3>2. /\ records \in Seq(Records) /\ Len(records) = Len(wire[d]) + 1
          /\ \A j \in 1 .. Len(wire[d]) + 1 : records[j] = IF j = 1 THEN x ELSE wire[d][j - 1]
      <4>1. wire[d] \in Seq(Records) /\ x \in Records
        BY <1>1, <3>1, ZenonT(30)
      <4> QED BY <4>1, Prepended
    <3> HIDE DEF records
    <3>3. \A j \in 1 .. Len(records) : Sealed(records[j])
      <4>1. \A j \in 1 .. Len(wire[d]) + 1 : j # 1 => j - 1 \in 1 .. Len(wire[d])
        BY <1>2
      <4>2. \A j \in 1 .. Len(wire[d]) + 1 : j # 1 => Sealed(wire[d][j - 1])
        BY <1>3, <4>1, ZenonT(30)
      <4> HIDE DEF Sealed
      <4> QED BY <3>1, <3>2, <4>2, ZenonT(30)
    <3>4. Interfere(d, records)
      BY <2>3 DEF x, records
    <3> QED BY <3>2, <3>3, <3>4, ZenonT(30)
  <2> HIDE DEF Sealed
  <2> QED BY <2>1, <2>2, <2>3, ZenonT(30) DEF Damage, Lose, Replay
<1>5. wire'[d] = records
  BY <1>4 DEF Interfere, IInv, TypeOK
<1> QED BY <1>4, <1>5, InterfereStep

-----------------------------------------------------------------------------
(* Types.                                                                  *)

\* Every step keeps the types.
LEMMA TypeStep ==
  ASSUME IInv, NEW d \in Dirs, Step(d)
  PROVE  TypeOK'
<1> USE DEF IInv
<1>1. TypeOK
  BY ZenonT(30)
<1>2. ASSUME NEW payload \in Payloads \union {0}, NEW content \in Contents,
             SealRecord(d, payload, content)
      PROVE  TypeOK'
  <2> DEFINE s == [cipher |-> seal[d], payload |-> payload, content |-> content]
  <2>1. payload \in Nat /\ PlaintextLen(payload) \in Nat /\ seal[d] \in Ciphers
    BY PayloadNat, PlaintextNat, ZenonT(30) DEF TypeOK
  <2>2. s \in SealedRecords /\ RecordOf(s) \in Records
    BY <2>1, RecordOfType, ZenonT(30) DEF SealedRecords
  <2>3. browser_commit(seal[d]) \in Ciphers /\ commit(seal[d], PlaintextLen(payload)) \in Ciphers
    BY <2>1, CommitUp, BrowserCommitUp
  <2>4. /\ Append(sealed[d], s) \in Seq(SealedRecords)
        /\ Append(wire[d], RecordOf(s)) \in Seq(Records)
    BY <2>2 DEF TypeOK
  <2> HIDE DEF s
  <2>5. seal' \in [Dirs -> Ciphers]
    BY <1>2, <2>3, ZenonT(30) DEF SealRecord, TypeOK
  <2>6. sealed' \in [Dirs -> Seq(SealedRecords)]
    BY <1>2, <2>4, ZenonT(30) DEF SealRecord, TypeOK, s
  <2>7. wire' \in [Dirs -> Seq(Records)]
    BY <1>2, <2>4, ZenonT(30) DEF SealRecord, TypeOK, s
  <2>8. sealing' \in [Dirs -> Statuses]
    BY <1>2, ZenonT(30) DEF SealRecord, TypeOK, Statuses
  <2> QED BY <1>2, <2>5, <2>6, <2>7, <2>8 DEF SealRecord, TypeOK
<1>3. CASE SealApplication(d)
  BY <1>2, <1>3 DEF SealApplication, Contents
<1>4. CASE SealClose(d)
  BY <1>2, <1>4 DEF SealClose, Contents
<1>5. CASE Cut(d)
  BY <1>5 DEF Cut, TypeOK, Statuses
<1>6. CASE OpenRecord(d)
  <2> DEFINE r == Head(wire[d])
  <2>1. wire[d] \in Seq(Records) /\ wire[d] # <<>> /\ open[d] \in Ciphers /\ opened[d] \in Seq(Records)
    BY <1>6, ZenonT(30) DEF OpenRecord, TypeOK
  <2>2. r \in Records /\ Tail(wire[d]) \in Seq(Records)
    BY <2>1
  <2>3. PlaintextLen(r.payload) \in Nat
    BY <2>2, PlaintextNat, ZenonT(30) DEF Records
  <2>4. browser_commit(open[d]) \in Ciphers /\ commit(open[d], PlaintextLen(r.payload)) \in Ciphers
    BY <2>1, <2>3, CommitUp, BrowserCommitUp, ZenonT(30)
  <2>5. Append(opened[d], r) \in Seq(Records)
    BY <2>1, <2>2
  <2> HIDE DEF r
  <2>6. open' \in [Dirs -> Ciphers]
    BY <1>6, <2>4, ZenonT(30) DEF OpenRecord, OpenNative, OpenBrowser, TypeOK, r
  <2>7. opened' \in [Dirs -> Seq(Records)]
    BY <1>6, <2>5, ZenonT(30) DEF OpenRecord, OpenNative, OpenBrowser, TypeOK, r
  <2>8. wire' \in [Dirs -> Seq(Records)]
    BY <1>6, <2>2 DEF OpenRecord, TypeOK
  <2>9. opening' \in [Dirs -> Statuses]
    BY <1>6, ZenonT(30) DEF OpenRecord, OpenNative, OpenBrowser, TypeOK, Statuses
  <2> QED BY <1>6, <2>6, <2>7, <2>8, <2>9 DEF OpenRecord, TypeOK
<1>7. CASE OpenEof(d)
  BY <1>7 DEF OpenEof, TypeOK, Statuses
<1>8. CASE Damage(d) \/ Lose(d) \/ Replay(d)
  <2>1. wire'[d] \in Seq(Records)
    BY <1>8, TransportStep
  <2>2. PICK records : Interfere(d, records)
    BY <1>8, ZenonT(30) DEF Damage, Lose, Replay
  <2>3. wire' \in [Dirs -> Seq(Records)]
    BY <2>1, <2>2 DEF Interfere, TypeOK
  <2> QED BY <2>2, <2>3 DEF Interfere, TypeOK
<1> QED BY <1>3, <1>4, <1>5, <1>6, <1>7, <1>8 DEF Step

-----------------------------------------------------------------------------
(* The invariant and the theorems.                                         *)

\* A new connection is at the start of both chains.
LEMMA InitInv == Init => IInv
<1> SUFFICES ASSUME Init PROVE IInv
  OBVIOUS
<1> USE DEF Init
<1>1. TypeOK
  <2>1. NewCipher \in Ciphers /\ "open" \in Statuses
    BY DEF NewCipher, Ciphers, Statuses
  <2>2. <<>> \in Seq(Records) /\ <<>> \in Seq(SealedRecords)
    OBVIOUS
  <2>3. wire \in [Dirs -> Seq(Records)] /\ opened \in [Dirs -> Seq(Records)]
    BY <2>2
  <2>4. sealed \in [Dirs -> Seq(SealedRecords)]
    BY <2>2
  <2> QED BY <2>1, <2>3, <2>4 DEF TypeOK
<1>2. ASSUME NEW d \in Dirs PROVE DirInv(d)
  <2>1. /\ sealed[d] = <<>> /\ opened[d] = <<>> /\ wire[d] = <<>>
        /\ seal[d] = NewCipher /\ open[d] = NewCipher /\ opening[d] = "open"
    OBVIOUS
  <2>2. Len(sealed[d]) = 0 /\ Len(opened[d]) = 0 /\ Len(wire[d]) = 0
    BY <2>1
  <2>3. Keys(d)[1] = NewCipher
    BY <2>1, <2>2 DEF Keys
  <2>4. NewCipher.generation = 0 /\ NewCipher.nonce = 0 /\ NewCipher.plaintext_bytes = 0
    BY ZenonT(30) DEF NewCipher
  <2>5. Chain(d) /\ Ordered(d) /\ CloseIsLast(d)
    BY <2>2, <2>3 DEF Chain, Ordered, CloseIsLast
  <2>6. FirstKey(d)
    BY <2>2, <2>3, <2>4 DEF FirstKey
  <2>7. Bounded(d)
    BY <2>1, <2>4, RekeyAssumption DEF Bounded, WithinKey
  <2>8. InChain(d)
    BY <2>1, <2>2, <2>3, <2>4 DEF InChain
  <2>9. FromWriter(d) /\ Undisturbed(d) /\ Prefix(d)
    BY <2>1, <2>2 DEF FromWriter, Undisturbed, Prefix
  <2> QED BY <2>5, <2>6, <2>7, <2>8, <2>9 DEF DirInv
<1> QED BY <1>1, <1>2 DEF IInv

\* The invariant is inductive: a step of one direction keeps that one's part,
\* and does not touch the other's.
LEMMA Inductive == IInv /\ [Next]_vars => IInv'
<1> SUFFICES ASSUME IInv, [Next]_vars PROVE IInv'
  OBVIOUS
<1>1. CASE UNCHANGED vars
  <2>1. \A e \in Dirs : Same(e)
    BY <1>1 DEF vars, Same
  <2>2. TypeOK'
    BY <1>1 DEF vars, IInv, TypeOK
  <2> QED BY <2>1, <2>2, SameInv DEF IInv
<1>2. ASSUME NEW d \in Dirs, Step(d) PROVE IInv'
  <2>1. TypeOK'
    BY <1>2, TypeStep
  <2>2. DirInv(d)'
    <3>1. CASE SealApplication(d)
      BY <3>1, SealStep DEF SealApplication, Contents
    <3>2. CASE SealClose(d)
      BY <3>2, SealStep DEF SealClose, Contents
    <3>3. CASE Cut(d) \/ OpenEof(d)
      BY <3>3, EndStep
    <3>4. CASE OpenRecord(d)
      BY <3>4, OpenStep
    <3>5. CASE Damage(d) \/ Lose(d) \/ Replay(d)
      BY <3>5, TransportStep
    <3> QED BY <1>2, <3>1, <3>2, <3>3, <3>4, <3>5 DEF Step
  <2>3. ASSUME NEW e \in Dirs, e # d PROVE DirInv(e)'
    <3>1. Same(e)
      <4>1. ASSUME NEW payload, NEW content, SealRecord(d, payload, content) PROVE Same(e)
        BY <2>3, <4>1 DEF SealRecord, Same, IInv, TypeOK
      <4>2. CASE SealApplication(d) \/ SealClose(d)
        BY <4>1, <4>2, ZenonT(30) DEF SealApplication, SealClose
      <4>3. CASE Cut(d) \/ OpenEof(d)
        BY <2>3, <4>3, ZenonT(30) DEF Cut, OpenEof, Same, IInv, TypeOK
      <4>4. CASE OpenRecord(d)
        BY <2>3, <4>4 DEF OpenRecord, OpenNative, OpenBrowser, Same, IInv, TypeOK
      <4>5. ASSUME NEW records, Interfere(d, records) PROVE Same(e)
        BY <2>3, <4>5 DEF Interfere, Same, IInv, TypeOK
      <4>6. CASE Damage(d) \/ Lose(d) \/ Replay(d)
        BY <4>5, <4>6, ZenonT(30) DEF Damage, Lose, Replay
      <4> QED BY <1>2, <4>2, <4>3, <4>4, <4>6, ZenonT(30) DEF Step
    <3> QED BY <3>1, SameInv DEF IInv
  <2> QED BY <2>1, <2>2, <2>3 DEF IInv
<1> QED BY <1>1, <1>2 DEF Next

\* The chains, the reader's place in them and the types, in every state.
THEOREM RecordInvariance == Spec => []IInv
BY InitInv, Inductive, PTL DEF Spec

\* However many records are sealed and however often commit replaces the
\* key, no key seals two records with one nonce, in the native client, the
\* node or the browser.
THEOREM NoncesNeverReused == Spec => []NonceFresh
<1>1. IInv => NonceFresh
  <2> SUFFICES ASSUME IInv, NEW d \in Dirs, NEW i \in DOMAIN sealed[d], NEW j \in DOMAIN sealed[d],
                      sealed[d][i].cipher.generation = sealed[d][j].cipher.generation,
                      sealed[d][i].cipher.nonce = sealed[d][j].cipher.nonce
               PROVE  i = j
    BY DEF NonceFresh
  <2>1. sealed[d] \in Seq(SealedRecords)
    BY ZenonT(30) DEF IInv, TypeOK
  <2>2. /\ i \in 1 .. Len(sealed[d]) /\ j \in 1 .. Len(sealed[d])
        /\ sealed[d][i].cipher \in Ciphers /\ sealed[d][j].cipher \in Ciphers
    <3>1. i \in 1 .. Len(sealed[d]) /\ j \in 1 .. Len(sealed[d])
      BY <2>1
    <3>2. sealed[d][i] \in SealedRecords /\ sealed[d][j] \in SealedRecords
      BY <2>1, <3>1, Entries, ZenonT(30)
    <3> QED BY <3>1, <3>2, ZenonT(30) DEF SealedRecords
  <2>3. /\ i < j => Before(sealed[d][i].cipher, sealed[d][j].cipher)
        /\ j < i => Before(sealed[d][j].cipher, sealed[d][i].cipher)
    <3>1. Ordered(d)
      BY ZenonT(30) DEF IInv, DirInv
    <3>2. (i < j => i \in 1 .. j - 1) /\ (j < i => j \in 1 .. i - 1)
      BY <2>1, <2>2
    <3> QED BY <2>2, <3>1, <3>2, ZenonT(30) DEF Ordered
  <2>4. ~(i < j) /\ ~(j < i)
    BY <2>2, <2>3, BeforeOrder
  <2> QED BY <2>2, <2>4
<1> QED BY <1>1, RecordInvariance, PTL

\* Whatever is lost, damaged or replayed, in whatever order and across any
\* rekeying, open_record returns a beginning of what was sealed, and a
\* reader that has seen CLOSE has all of it.
THEOREM RecordsReadFaithfully == Spec => []ReadFaithfully
<1>1. IInv => ReadFaithfully
  <2> SUFFICES ASSUME IInv PROVE ReadFaithfully
    OBVIOUS
  <2>1. OpenedPrefix
    <3>1. \A d \in Dirs : opened[d] \in Seq(Records)
      BY DEF IInv, TypeOK
    <3>2. \A d \in Dirs : DOMAIN opened[d] = 1 .. Len(opened[d])
      BY <3>1, Entries, ZenonT(30)
    <3> QED BY <3>2, ZenonT(30) DEF IInv, DirInv, Prefix, OpenedPrefix
  <2>2. ClosedComplete
    BY DEF IInv, DirInv, Prefix, ClosedComplete
  <2> QED BY <2>1, <2>2 DEF ReadFaithfully
<1> QED BY <1>1, RecordInvariance, PTL

\* Without a message about it, both ends replace the key at the same record:
\* a native reader refuses nothing the transport has left alone, and a
\* writer never meets check_limit.
THEOREM EndsRekeyTogether == Spec => []KeysInStep
<1>1. IInv => KeysInStep
  <2> SUFFICES ASSUME IInv PROVE KeysInStep
    OBVIOUS
  <2>1. SharedBoundary
    BY ZenonT(30) DEF IInv, DirInv, Undisturbed, SharedBoundary
  <2>2. LimitUnreached
    <3>1. \A d \in Dirs : seal[d] \in Ciphers
      BY DEF IInv, TypeOK
    <3> QED BY <3>1, WithinLimit DEF IInv, DirInv, Bounded, LimitUnreached
  <2> QED BY <2>1, <2>2 DEF KeysInStep, IInv
<1> QED BY <1>1, RecordInvariance, PTL
=============================================================================
