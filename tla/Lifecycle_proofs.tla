-------------------------- MODULE Lifecycle_proofs --------------------------
(***************************************************************************)
(* Who holds which authority, for any number of processes, services and    *)
(* capability slots.                                                       *)
(***************************************************************************)
EXTENDS Lifecycle, CapTable_proofs

-----------------------------------------------------------------------------
(* A table that grew by root capabilities.                                 *)

(* n is t and some more capabilities, all of them in N.                    *)
Grew(t, n, N) ==
  /\ InUse(t) \subseteq InUse(n)
  /\ \A s \in InUse(t) : n.cap[s] = t.cap[s] /\ n.generation[s] = t.generation[s]
  /\ \A s \in InUse(n) \ InUse(t) : n.cap[s] \in N

LEMMA GrewSame == ASSUME NEW t, NEW N PROVE Grew(t, t, N)
  BY DEF Grew

LEMMA GrewTwice ==
  ASSUME NEW t, NEW n, NEW m, NEW N, Grew(t, n, N), Grew(n, m, N)
  PROVE  Grew(t, m, N)
  BY DEF Grew

LEMMA GrewMore ==
  ASSUME NEW t, NEW n, NEW N, NEW M, N \subseteq M, Grew(t, n, N)
  PROVE  Grew(t, n, M)
  BY DEF Grew

(* cap_create() mints one root, or none when the table is full.            *)
Minted(t, n, c) ==
  /\ SoundTable(n) /\ Grew(t, n, {c})
  /\ FreeSlots(t) = {} => n = t
  /\ FreeSlots(t) # {} => /\ InUse(n) = InUse(t) \cup {FirstFree(t)}
                          /\ FirstFree(t) \in Slots \ InUse(t)
                          /\ n.cap[FirstFree(t)] = c

LEMMA CreateGrows ==
  ASSUME NEW t, NEW o, NEW r, NEW q, NEW e, SoundTable(t)
  PROVE  Minted(t, cap_create(t, o, r, q, e), Root(o, r, q, e))
<1> DEFINE c == Root(o, r, q, e)
           n == cap_create(t, o, r, q, e)
<1>1. CASE FreeSlots(t) = {}
  BY <1>1, GrewSame DEF cap_create, Minted
<1>2. CASE FreeSlots(t) # {}
  <2>1. n = Mint(t, c)
    BY <1>2 DEF cap_create
  <2>2. Admissible(t, c)
    BY DEF Admissible, Root
  <2>3. SoundTable(n)
    BY <1>2, <2>1, <2>2, MintKeepsTableSound
  <2>4. /\ FirstFree(t) \in Slots /\ FirstFree(t) \notin InUse(t)
        /\ InUse(n) = InUse(t) \cup {FirstFree(t)}
        /\ n.cap[FirstFree(t)] = c
        /\ \A s \in InUse(t) : n.cap[s] = t.cap[s]
        /\ n.generation = t.generation
    BY <1>2, <2>1, MintFacts DEF SoundTable
  <2> HIDE DEF c, n
  <2>5. Grew(t, n, {c})
    BY <2>4 DEF Grew
  <2> QED BY <1>2, <2>3, <2>4, <2>5 DEF c, n, Minted
<1> QED BY <1>1, <1>2

(* Roots are not derived, and nothing in the table hangs on a new one.     *)
LEMMA GrownDerivations ==
  ASSUME NEW t, NEW n, NEW N, SoundTable(t), SoundTable(n), Grew(t, n, N),
         \A c \in N : c.parent = CAP_ID_INVALID
  PROVE  /\ Derived(n) = Derived(t)
         /\ \A s, p \in InUse(t) : IsChildOf(n, s, p) <=> IsChildOf(t, s, p)
         /\ \A s, p \in InUse(n) : IsChildOf(n, s, p) => s \in InUse(t) /\ p \in InUse(t)
<1>1. Derived(n) = Derived(t)
  BY DEF Derived, Grew
<1>2. \A s, p \in InUse(t) : IsChildOf(n, s, p) <=> IsChildOf(t, s, p)
  BY DEF IsChildOf, HandleOf, Grew
<1>3. ASSUME NEW s \in InUse(n), NEW p \in InUse(n), IsChildOf(n, s, p)
      PROVE  s \in InUse(t) /\ p \in InUse(t)
  <2>1. s \in Slots /\ p \in Slots
    BY DEF SoundTable, TableShape
  <2>2. s \in Derived(n)
    BY <1>3, <2>1, HandlesDiffer DEF Derived, IsChildOf
  <2>3. PICK q \in InUse(t) : IsChildOf(t, s, q)
    BY <1>1, <2>2 DEF SoundTable, SoundDerivations
  <2>4. s \in InUse(t)
    BY <1>1, <2>2 DEF Derived
  <2>5. q \in InUse(n) /\ q \in Slots /\ IsChildOf(n, s, q)
    BY <1>2, <2>3, <2>4 DEF Grew, SoundTable, TableShape
  <2>6. q = p
    BY <1>3, <2>1, <2>5, HandlesDiffer DEF IsChildOf
  <2> QED BY <2>3, <2>4, <2>6
<1> QED BY <1>1, <1>2, <1>3

-----------------------------------------------------------------------------
(* mint_ipc_pair().                                                        *)

LEMMA OfferIs ==
  ASSUME NEW t, NEW a, NEW b, NEW perms
  PROVE  Offer(t, a, b, perms) =
           IF perms = {} THEN t ELSE cap_create(t, a, IpcTo(b), perms, 0)
  BY DEF Offer, Then

LEMMA PairIs ==
  ASSUME NEW t, NEW a, NEW b, NEW to, NEW from
  PROVE  mint_ipc_pair(t, a, b, to, from) = MintBack(t, Offer(t, a, b, to), a, b, to, from)
  BY DEF mint_ipc_pair, Then

(* Revoking the capability that was minted last takes back just that one.  *)
LEMMA TakeBack ==
  ASSUME NEW t, NEW a, NEW b, NEW to, SoundTable(t), FreeSlots(t) # {}, to # {}
  PROVE  LET n == cap_revoke(Offer(t, a, b, to), FirstFree(t), a)
         IN  SoundTable(n) /\ Grew(t, n, {}) /\ InUse(n) = InUse(t)
<1> DEFINE f == FirstFree(t)
           t1 == Offer(t, a, b, to)
           n == cap_revoke(t1, f, a)
           c == Root(a, IpcTo(b), to, 0)
<1>1. t1 = cap_create(t, a, IpcTo(b), to, 0)
  BY OfferIs
<1>2. /\ SoundTable(t1) /\ Grew(t, t1, {c}) /\ t1.cap[f] = c
      /\ InUse(t1) = InUse(t) \cup {f} /\ f \in Slots \ InUse(t)
  <2>1. Minted(t, t1, c)
    BY <1>1, CreateGrows
  <2> HIDE DEF c, t1
  <2> QED BY <2>1 DEF Minted
<1>3. c.parent = CAP_ID_INVALID /\ c.owner = a
  BY DEF Root
<1>4. \A s \in InUse(t1) : ~ IsChildOf(t1, s, f)
  <2> HIDE DEF c, t1, f
  <2>1. \A d \in {c} : d.parent = CAP_ID_INVALID
    BY <1>3
  <2> QED BY <1>2, <2>1, GrownDerivations
<1> HIDE DEF c, t1, f
<1>5. Cascade(t1, {f}) = {f}
  <2>1. HoldsChildren(t1, {f}, {})
    BY <1>4 DEF HoldsChildren, Derived
  <2> QED BY <2>1 DEF Cascade, Descendants
<1>6. n = Free(t1, {f})
  BY <1>2, <1>3, <1>5 DEF cap_revoke, MayRevoke
<1>7. SoundTable(n)
  BY <1>2, <1>5, <1>6, RevokeKeepsTableSound
<1>8. /\ InUse(n) = InUse(t1) \ {f}
      /\ \A s \in InUse(n) : n.cap[s] = t1.cap[s]
      /\ \A s \in Slots \ {f} : n.generation[s] = t1.generation[s]
  <2>1. {f} \in SUBSET InUse(t1) /\ TableShape(t1)
    BY <1>2 DEF SoundTable
  <2> QED BY <1>6, <2>1, FreeFacts
<1>9. InUse(n) = InUse(t) /\ InUse(t) \subseteq Slots
  BY <1>2, <1>8 DEF SoundTable, TableShape
<1> HIDE DEF n
<1>10. Grew(t, n, {})
  BY <1>2, <1>8, <1>9 DEF Grew
<1> QED BY <1>7, <1>9, <1>10 DEF n, t1, f

(* The capabilities o holds for r, and that perms added one to them.       *)
Held(t, o, r) == {s \in InUse(t) : t.cap[s].owner = o /\ t.cap[s].res = r}
OneAdded(t, n, o, r, perms) ==
  IF perms = {} THEN Held(n, o, r) = Held(t, o, r)
  ELSE \E f \in Slots \ InUse(t) : Held(n, o, r) = Held(t, o, r) \cup {f}

LEMMA HeldAfterCreate ==
  ASSUME NEW t, NEW o, NEW r, NEW q, NEW e, SoundTable(t)
  PROVE  LET n == cap_create(t, o, r, q, e)
         IN  /\ FreeSlots(t) # {} => Held(n, o, r) = Held(t, o, r) \cup {FirstFree(t)}
             /\ \A x, y : <<x, y>> # <<o, r>> => Held(n, x, y) = Held(t, x, y)
<1> DEFINE n == cap_create(t, o, r, q, e)
           c == Root(o, r, q, e)
<1>1. Minted(t, n, c)
  BY CreateGrows
<1>2. c.owner = o /\ c.res = r
  BY DEF Root
<1> HIDE DEF n, c
<1>3. CASE FreeSlots(t) = {}
  BY <1>1, <1>3 DEF Minted, n
<1>4. CASE FreeSlots(t) # {}
  <2>1. /\ InUse(n) = InUse(t) \cup {FirstFree(t)} /\ n.cap[FirstFree(t)] = c
        /\ \A s \in InUse(t) : n.cap[s] = t.cap[s]
    BY <1>1, <1>4 DEF Minted, Grew
  <2> QED BY <2>1, <1>2 DEF Held, n
<1> QED BY <1>3, <1>4

LEMMA HeldSame ==
  ASSUME NEW t, NEW n, NEW N, Grew(t, n, N), InUse(n) = InUse(t)
  PROVE  \A x, y : Held(n, x, y) = Held(t, x, y)
  BY DEF Held, Grew

(* A pair is minted whole or not at all, and touches no other.             *)
Ends(a, b, to, from) == {Root(a, IpcTo(b), to, 0), Root(b, IpcTo(a), from, 0)}
PairWhole(t, n, a, b, to, from) ==
  OneAdded(t, n, a, IpcTo(b), to) /\ OneAdded(t, n, b, IpcTo(a), from)
PairDone(t, n, a, b, to, from) ==
  /\ SoundTable(n) /\ Grew(t, n, Ends(a, b, to, from))
  /\ \/ \A x, y : Held(n, x, y) = Held(t, x, y)
     \/ PairWhole(t, n, a, b, to, from)
  /\ \A x, y : <<x, y>> \notin {<<a, IpcTo(b)>>, <<b, IpcTo(a)>>}
       => Held(n, x, y) = Held(t, x, y)

Offered(t, n, a, b, perms) ==
  /\ SoundTable(n) /\ Grew(t, n, {Root(a, IpcTo(b), perms, 0)})
  /\ OneAdded(t, n, a, IpcTo(b), perms)
  /\ \A x, y : <<x, y>> # <<a, IpcTo(b)>> => Held(n, x, y) = Held(t, x, y)

LEMMA OfferDone ==
  ASSUME NEW t, NEW a, NEW b, NEW perms, SoundTable(t), ~ Full(t, perms)
  PROVE  Offered(t, Offer(t, a, b, perms), a, b, perms)
<1> DEFINE n == Offer(t, a, b, perms)
           r == IpcTo(b)
<1>1. CASE perms = {}
  BY <1>1, OfferIs, GrewSame DEF OneAdded, Offered
<1>2. CASE perms # {}
  <2>1. FreeSlots(t) # {}
    BY <1>2 DEF Full
  <2>2. n = cap_create(t, a, r, perms, 0)
    BY <1>2, OfferIs
  <2>3. Minted(t, n, Root(a, r, perms, 0))
    BY <2>2, CreateGrows
  <2>4. /\ Held(n, a, r) = Held(t, a, r) \cup {FirstFree(t)}
        /\ \A x, y : <<x, y>> # <<a, r>> => Held(n, x, y) = Held(t, x, y)
    BY <2>1, <2>2, HeldAfterCreate
  <2>5. SoundTable(n) /\ Grew(t, n, {Root(a, r, perms, 0)}) /\ FirstFree(t) \in Slots \ InUse(t)
    BY <2>1, <2>3 DEF Minted
  <2> QED BY <1>2, <2>4, <2>5 DEF OneAdded, Offered
<1> QED BY <1>1, <1>2

LEMMA PairGrows ==
  ASSUME NEW t, NEW a, NEW b, NEW to, NEW from, SoundTable(t), a # b
  PROVE  PairDone(t, mint_ipc_pair(t, a, b, to, from), a, b, to, from)
<1> DEFINE t1 == Offer(t, a, b, to)
           n == mint_ipc_pair(t, a, b, to, from)
<1>0. n = MintBack(t, t1, a, b, to, from)
  BY PairIs
<1>1. ASSUME n = t PROVE PairDone(t, n, a, b, to, from)
  BY <1>1, GrewSame DEF PairDone
<1>2. CASE ~ Full(t, to) /\ ~ Full(t1, from)
  <2>1. n = Offer(t1, b, a, from)
    BY <1>0, <1>2 DEF MintBack
  <2>2. /\ SoundTable(t1) /\ Grew(t, t1, {Root(a, IpcTo(b), to, 0)})
        /\ OneAdded(t, t1, a, IpcTo(b), to)
        /\ \A x, y : <<x, y>> # <<a, IpcTo(b)>> => Held(t1, x, y) = Held(t, x, y)
    <3>1. Offered(t, t1, a, b, to)
      BY <1>2, OfferDone
    <3> HIDE DEF t1
    <3> QED BY <3>1 DEF Offered
  <2>3. /\ SoundTable(n) /\ Grew(t1, n, {Root(b, IpcTo(a), from, 0)})
        /\ OneAdded(t1, n, b, IpcTo(a), from)
        /\ \A x, y : <<x, y>> # <<b, IpcTo(a)>> => Held(n, x, y) = Held(t1, x, y)
    <3>1. Offered(t1, n, b, a, from)
      BY <1>2, <2>1, <2>2, OfferDone
    <3> HIDE DEF n, t1
    <3> QED BY <3>1 DEF Offered
  <2> HIDE DEF t1, n
  <2>4. Grew(t, n, Ends(a, b, to, from))
    BY <2>2, <2>3, GrewTwice, GrewMore DEF Ends
  <2>5. <<a, IpcTo(b)>> # <<b, IpcTo(a)>>
    OBVIOUS
  <2>6. InUse(t) \subseteq InUse(t1)
    BY <2>2 DEF Grew
  <2>7. PairWhole(t, n, a, b, to, from)
    BY <2>2, <2>3, <2>5, <2>6 DEF PairWhole, OneAdded
  <2> QED BY <2>2, <2>3, <2>4, <2>5, <2>7 DEF PairDone, n
<1>3. CASE ~ Full(t, to) /\ Full(t1, from) /\ t1 # t
  <2>1. n = cap_revoke(t1, FirstFree(t), a)
    BY <1>0, <1>3 DEF MintBack
  <2>2. to # {} /\ FreeSlots(t) # {}
    BY <1>3, OfferIs DEF Full
  <2>3. SoundTable(n) /\ Grew(t, n, {}) /\ InUse(n) = InUse(t)
    BY <2>1, <2>2, TakeBack
  <2> HIDE DEF n
  <2>4. Grew(t, n, Ends(a, b, to, from))
    BY <2>3, GrewMore
  <2>5. \A x, y : Held(n, x, y) = Held(t, x, y)
    BY <2>3, HeldSame
  <2> QED BY <2>3, <2>4, <2>5 DEF PairDone, n
<1>4. CASE Full(t, to) \/ (~ Full(t, to) /\ Full(t1, from) /\ t1 = t)
  BY <1>0, <1>1, <1>4 DEF MintBack
<1> QED BY <1>2, <1>3, <1>4

-----------------------------------------------------------------------------
(* The loops that mint.  Each is a recursive function over the number of   *)
(* turns made; such a function exists, turn by turn.                       *)

LEMMA MintAllGrows ==
  ASSUME NEW t, NEW roots, Len(roots) \in Nat, SoundTable(t), NEW N,
         \A i \in 1 .. Len(roots) :
           Root(roots[i].owner, roots[i].res, roots[i].perms, 0) \in N
  PROVE  LET n == MintAll(t, roots) IN SoundTable(n) /\ Grew(t, n, N)
<1> DEFINE L == Len(roots)
           turn(i, x) == Then(x, LAMBDA v :
                          cap_create(v, roots[i].owner, roots[i].res, roots[i].perms, 0))
           loop(f, k) == [i \in 0 .. k |-> IF i = 0 THEN t ELSE turn(i, f[i - 1])]
           B == {k \in 0 .. L : \E f : f = loop(f, k)}
<1>1. \A i \in 0 .. L : i \in B
  <2>1. 0 \in B
    <3> HIDE DEF turn
    <3>1. [i \in 0 .. 0 |-> t] = loop([i \in 0 .. 0 |-> t], 0)
      OBVIOUS
    <3>2. \E f : f = loop(f, 0)
      BY <3>1
    <3> HIDE DEF loop
    <3> QED BY <3>2
  <2>2. ASSUME NEW k \in 1 .. L, k - 1 \in B PROVE k \in B
    <3> HIDE DEF turn
    <3>1. PICK f : f = loop(f, k - 1)
      BY <2>2
    <3> DEFINE g == [i \in 0 .. k |-> IF i = k THEN turn(k, f[k - 1]) ELSE f[i]]
    <3>2. ASSUME NEW i \in 0 .. k PROVE g[i] = IF i = 0 THEN t ELSE turn(i, g[i - 1])
      <4>1. CASE i = k
        BY <4>1
      <4>2. CASE i # k
        <5>1. i \in 0 .. k - 1 /\ (i # 0 => i - 1 \in 0 .. k - 1)
          BY <4>2
        <5>2. f[i] = IF i = 0 THEN t ELSE turn(i, f[i - 1])
          BY <3>1, <5>1
        <5>3. g[i] = f[i] /\ (i # 0 => g[i - 1] = f[i - 1])
          BY <4>2, <5>1
        <5> HIDE DEF g
        <5> QED BY <5>2, <5>3
      <4> QED BY <4>1, <4>2
    <3>3. g = loop(g, k)
      BY <3>2
    <3>4. \E h : h = loop(h, k)
      BY <3>3
    <3> HIDE DEF loop, g
    <3> QED BY <3>4
  <2> HIDE DEF B, L
  <2> QED BY <2>1, <2>2, LoopInduction DEF L
<1>2. PICK f : f = CHOOSE g : g = loop(g, L)
  OBVIOUS
<1>3. f = loop(f, L)
  <2> HIDE DEF turn, loop
  <2>1. \E g : g = loop(g, L)
    <3>1. L \in B
      BY <1>1
    <3> QED BY <3>1
  <2> QED BY <1>2, <2>1
<1>4. MintAll(t, roots) = f[L]
  BY <1>2 DEF MintAll
<1>5. f[0] = t
  BY <1>3
<1>6. ASSUME NEW i \in 1 .. L
      PROVE  f[i] = cap_create(f[i - 1], roots[i].owner, roots[i].res, roots[i].perms, 0)
  <2>1. f[i] = turn(i, f[i - 1])
    <3> HIDE DEF turn
    <3> QED BY <1>3
  <2> QED BY <2>1 DEF Then
<1> DEFINE good == {k \in 0 .. L : SoundTable(f[k]) /\ Grew(t, f[k], N)}
<1>7. \A i \in 0 .. L : i \in good
  <2>1. 0 \in good
    BY <1>5, GrewSame
  <2>2. ASSUME NEW k \in 1 .. L, k - 1 \in good PROVE k \in good
    <3> DEFINE c == Root(roots[k].owner, roots[k].res, roots[k].perms, 0)
    <3>1. Minted(f[k - 1], f[k], c)
      BY <1>6, <2>2, CreateGrows
    <3> HIDE DEF c
    <3>2. SoundTable(f[k]) /\ Grew(f[k - 1], f[k], {c})
      BY <3>1 DEF Minted
    <3>3. {c} \subseteq N
      BY DEF c
    <3>4. Grew(f[k - 1], f[k], N)
      BY <3>2, <3>3, GrewMore
    <3>5. Grew(t, f[k], N)
      BY <2>2, <3>4, GrewTwice
    <3> QED BY <3>2, <3>5
  <2> HIDE DEF good, L
  <2> QED BY <2>1, <2>2, LoopInduction DEF L
<1> QED BY <1>4, <1>7

(* The ends of the declared pair i, with p as the process of s.            *)
Of(i, s, p) == PidOf(Peers[i].of, s, p)
Peer(i, s, p) == PidOf(Peers[i].peer, s, p)
Minting(v, i, s, p) ==
  mint_ipc_pair(v, Of(i, s, p), Peer(i, s, p), Peers[i].to, Peers[i].from)

LEMMA WireLoop ==
  ASSUME NEW t, NEW Which, NEW s, NEW p, Len(Peers) \in Nat
  PROVE  \E f : /\ f[0] = t /\ WirePairs(t, Which, s, p) = f[Len(Peers)]
                /\ \A i \in 1 .. Len(Peers) :
                     f[i] = IF i \in Which THEN Minting(f[i - 1], i, s, p) ELSE f[i - 1]
<1> DEFINE L == Len(Peers)
           turn(i, x) ==
             IF i \notin Which THEN x
             ELSE LET d == Peers[i]
                  IN  Then(x, LAMBDA v :
                        mint_ipc_pair(v, PidOf(d.of, s, p), PidOf(d.peer, s, p), d.to, d.from))
           loop(f, k) == [i \in 0 .. k |->
                            IF i = 0 THEN t
                            ELSE IF i \notin Which THEN f[i - 1]
                            ELSE LET d == Peers[i]
                                 IN  Then(f[i - 1], LAMBDA v :
                                       mint_ipc_pair(v, PidOf(d.of, s, p), PidOf(d.peer, s, p),
                                                     d.to, d.from))]
           B == {k \in 0 .. L : \E f : f = loop(f, k)}
<1>0. \A f, k : loop(f, k) = [i \in 0 .. k |-> IF i = 0 THEN t ELSE turn(i, f[i - 1])]
  <2> SUFFICES ASSUME NEW f, NEW k
               PROVE  loop(f, k) = [i \in 0 .. k |-> IF i = 0 THEN t ELSE turn(i, f[i - 1])]
    OBVIOUS
  <2> QED OBVIOUS
<1>1. \A i \in 0 .. L : i \in B
  <2> HIDE DEF turn, loop
  <2>1. 0 \in B
    <3>1. [i \in 0 .. 0 |-> t] = loop([i \in 0 .. 0 |-> t], 0)
      BY <1>0
    <3> QED BY <3>1
  <2>2. ASSUME NEW k \in 1 .. L, k - 1 \in B PROVE k \in B
    <3>1. PICK f : f = loop(f, k - 1)
      BY <2>2
    <3> DEFINE g == [i \in 0 .. k |-> IF i = k THEN turn(k, f[k - 1]) ELSE f[i]]
    <3>2. ASSUME NEW i \in 0 .. k PROVE g[i] = IF i = 0 THEN t ELSE turn(i, g[i - 1])
      <4>1. CASE i = k
        BY <4>1
      <4>2. CASE i # k
        <5>1. i \in 0 .. k - 1 /\ (i # 0 => i - 1 \in 0 .. k - 1)
          BY <4>2
        <5>2. f[i] = IF i = 0 THEN t ELSE turn(i, f[i - 1])
          BY <3>1, <5>1, <1>0
        <5>3. g[i] = f[i] /\ (i # 0 => g[i - 1] = f[i - 1])
          BY <4>2, <5>1
        <5> HIDE DEF g
        <5> QED BY <5>2, <5>3
      <4> QED BY <4>1, <4>2
    <3>3. g = loop(g, k)
      BY <3>2, <1>0
    <3>4. \E h : h = loop(h, k)
      BY <3>3
    <3> HIDE DEF g
    <3> QED BY <3>4
  <2> HIDE DEF B, L
  <2> QED BY <2>1, <2>2, LoopInduction DEF L
<1>2. PICK f : f = CHOOSE g : g = loop(g, L)
  OBVIOUS
<1>3. f = loop(f, L)
  <2> HIDE DEF turn, loop
  <2>1. \E g : g = loop(g, L)
    <3>1. L \in B
      BY <1>1
    <3> QED BY <3>1
  <2> QED BY <1>2, <2>1
<1>4. WirePairs(t, Which, s, p) = f[L]
  BY <1>2 DEF WirePairs
<1>5. f[0] = t
  BY <1>3
<1>6. ASSUME NEW i \in 1 .. L
      PROVE  f[i] = IF i \in Which THEN Minting(f[i - 1], i, s, p) ELSE f[i - 1]
  <2>1. f[i] = turn(i, f[i - 1])
    <3> HIDE DEF turn, loop
    <3> QED BY <1>3, <1>0
  <2> QED BY <2>1 DEF Then, Minting, Of, Peer
<1> QED BY <1>4, <1>5, <1>6

(* start_slot()'s passes only add ends of the pairs they look at ...       *)
LEMMA WireGrows ==
  ASSUME NEW t, NEW Which, NEW s, NEW p, Len(Peers) \in Nat, SoundTable(t), NEW N,
         \A i \in Which \cap DOMAIN Peers :
           /\ Of(i, s, p) # Peer(i, s, p)
           /\ Ends(Of(i, s, p), Peer(i, s, p), Peers[i].to, Peers[i].from) \subseteq N,
         DOMAIN Peers = 1 .. Len(Peers)
  PROVE  LET n == WirePairs(t, Which, s, p) IN SoundTable(n) /\ Grew(t, n, N)
<1> DEFINE L == Len(Peers)
<1>1. PICK f : /\ f[0] = t /\ WirePairs(t, Which, s, p) = f[Len(Peers)]
               /\ \A i \in 1 .. Len(Peers) :
                    f[i] = IF i \in Which THEN Minting(f[i - 1], i, s, p) ELSE f[i - 1]
  BY WireLoop
<1> DEFINE good == {k \in 0 .. L : SoundTable(f[k]) /\ Grew(t, f[k], N)}
<1>2. \A i \in 0 .. L : i \in good
  <2>1. 0 \in good
    BY <1>1, GrewSame
  <2>2. ASSUME NEW k \in 1 .. L, k - 1 \in good PROVE k \in good
    <3>1. CASE k \notin Which
      BY <1>1, <2>2, <3>1
    <3>2. CASE k \in Which
      <4>1. f[k] = Minting(f[k - 1], k, s, p)
        BY <1>1, <3>2
      <4>2. PairDone(f[k - 1], f[k], Of(k, s, p), Peer(k, s, p), Peers[k].to, Peers[k].from)
        BY <4>1, <2>2, <3>2, PairGrows DEF Minting
      <4>3. SoundTable(f[k]) /\ Grew(f[k - 1], f[k], N)
        BY <4>2, <3>2, GrewMore DEF PairDone
      <4>4. Grew(t, f[k], N)
        BY <2>2, <4>3, GrewTwice
      <4> QED BY <4>3, <4>4
    <3> QED BY <3>1, <3>2
  <2> HIDE DEF good, L
  <2> QED BY <2>1, <2>2, LoopInduction DEF L
<1> QED BY <1>1, <1>2

(* ... and mint a pair whole or not at all when no other pair has its ends.*)
PairKept(t, n, a, b) ==
  Held(n, a, IpcTo(b)) = Held(t, a, IpcTo(b)) /\ Held(n, b, IpcTo(a)) = Held(t, b, IpcTo(a))

OnlyPair(Which, s, p, m, a, b) ==
  /\ a = Of(m, s, p) /\ b = Peer(m, s, p)
  /\ \A i \in Which \cap DOMAIN Peers : Of(i, s, p) # Peer(i, s, p)
  /\ \A i \in (Which \cap DOMAIN Peers) \ {m} : {Of(i, s, p), Peer(i, s, p)} # {a, b}
PassDone(t, n, Which, m, a, b) ==
  \/ PairKept(t, n, a, b)
  \/ m \in Which /\ PairWhole(t, n, a, b, Peers[m].to, Peers[m].from)

LEMMA WireOnePair ==
  ASSUME NEW t, NEW Which, NEW s, NEW p, NEW m \in DOMAIN Peers, NEW a, NEW b,
         SoundTable(t), Len(Peers) \in Nat, DOMAIN Peers = 1 .. Len(Peers),
         OnlyPair(Which, s, p, m, a, b)
  PROVE  PassDone(t, WirePairs(t, Which, s, p), Which, m, a, b)
<1>0. /\ a = Of(m, s, p) /\ b = Peer(m, s, p)
      /\ \A i \in Which \cap DOMAIN Peers : Of(i, s, p) # Peer(i, s, p)
      /\ \A i \in (Which \cap DOMAIN Peers) \ {m} : {Of(i, s, p), Peer(i, s, p)} # {a, b}
  BY DEF OnlyPair
<1> DEFINE to == Peers[m].to
           from == Peers[m].from
<1> DEFINE L == Len(Peers)
<1>1. PICK f : /\ f[0] = t /\ WirePairs(t, Which, s, p) = f[Len(Peers)]
               /\ \A i \in 1 .. Len(Peers) :
                    f[i] = IF i \in Which THEN Minting(f[i - 1], i, s, p) ELSE f[i - 1]
  BY WireLoop
<1>2. ASSUME NEW k \in 1 .. L, SoundTable(f[k - 1]), k \in Which
      PROVE  PairDone(f[k - 1], f[k], Of(k, s, p), Peer(k, s, p), Peers[k].to, Peers[k].from)
  <2>1. f[k] = Minting(f[k - 1], k, s, p)
    BY <1>1, <1>2
  <2> QED BY <1>0, <2>1, <1>2, PairGrows DEF Minting
<1>3. ASSUME NEW k \in 1 .. L, SoundTable(f[k - 1])
      PROVE  SoundTable(f[k]) /\ InUse(f[k - 1]) \subseteq InUse(f[k])
  BY <1>1, <1>2, <1>3 DEF PairDone, Grew
<1>4. ASSUME NEW k \in 1 .. L, SoundTable(f[k - 1]), k # m
      PROVE  PairKept(f[k - 1], f[k], a, b)
  <2>1. CASE k \notin Which
    BY <1>1, <2>1 DEF PairKept
  <2>2. CASE k \in Which
    <3> DEFINE x == Of(k, s, p)
               y == Peer(k, s, p)
    <3>1. \A u, v : <<u, v>> \notin {<<x, IpcTo(y)>>, <<y, IpcTo(x)>>}
                       => Held(f[k], u, v) = Held(f[k - 1], u, v)
      BY <1>2, <1>4, <2>2 DEF PairDone
    <3>2. {x, y} # {a, b}
      BY <1>0, <2>2, <1>4
    <3> HIDE DEF x, y
    <3>3. /\ <<a, IpcTo(b)>> \notin {<<x, IpcTo(y)>>, <<y, IpcTo(x)>>}
          /\ <<b, IpcTo(a)>> \notin {<<x, IpcTo(y)>>, <<y, IpcTo(x)>>}
      BY <3>2 DEF IpcTo
    <3> QED BY <3>1, <3>3 DEF PairKept
  <2> QED BY <2>1, <2>2
<1> DEFINE good == {k \in 0 .. L :
                      /\ SoundTable(f[k]) /\ InUse(t) \subseteq InUse(f[k])
                      /\ PairKept(t, f[k], a, b)
                           \/ (k >= m /\ m \in Which /\ PairWhole(t, f[k], a, b, to, from))}
<1>5. \A i \in 0 .. L : i \in good
  <2>1. 0 \in good
    BY <1>1 DEF PairKept
  <2>2. ASSUME NEW k \in 1 .. L, k - 1 \in good PROVE k \in good
    <3>1. /\ SoundTable(f[k - 1]) /\ InUse(t) \subseteq InUse(f[k - 1])
          /\ PairKept(t, f[k - 1], a, b)
               \/ (k - 1 >= m /\ m \in Which /\ PairWhole(t, f[k - 1], a, b, to, from))
      BY <2>2
    <3>2. SoundTable(f[k]) /\ InUse(t) \subseteq InUse(f[k])
      BY <3>1, <1>3
    <3>3. CASE k # m
      <4>1. PairKept(f[k - 1], f[k], a, b)
        BY <3>1, <3>3, <1>4
      <4> QED BY <3>1, <3>2, <4>1 DEF PairKept, PairWhole, OneAdded
    <3>4. CASE k = m
      <4>1. PairKept(t, f[k - 1], a, b)
        BY <3>1, <3>4
      <4>2. CASE m \notin Which
        <5>1. PairKept(f[k - 1], f[k], a, b)
          BY <1>1, <3>4, <4>2 DEF PairKept
        <5> QED BY <3>1, <3>2, <4>1, <5>1 DEF PairKept
      <4>3. CASE m \in Which
        <5>1. PairDone(f[k - 1], f[k], a, b, to, from)
          BY <1>0, <1>2, <3>1, <3>4, <4>3
        <5>2. PairKept(f[k - 1], f[k], a, b) \/ PairWhole(f[k - 1], f[k], a, b, to, from)
          BY <5>1 DEF PairDone, PairKept
        <5> QED BY <3>1, <3>2, <3>4, <4>1, <4>3, <5>2 DEF PairKept, PairWhole, OneAdded
      <4> QED BY <4>2, <4>3
    <3> QED BY <3>3, <3>4
  <2> HIDE DEF good, L
  <2> QED BY <2>1, <2>2, LoopInduction DEF L
<1>6. L \in good
  BY <1>5
<1> QED BY <1>1, <1>6 DEF PassDone

-----------------------------------------------------------------------------
(* The two sweeps of process_destroy().                                    *)

Shrunk(t, n, S) ==
  /\ SoundTable(n) /\ InUse(n) \subseteq InUse(t) \ S
  /\ \A s \in InUse(n) : n.cap[s] = t.cap[s] /\ n.generation[s] = t.generation[s]
  /\ Derived(n) \subseteq Derived(t)
  /\ InUse(t) \ (S \cup Derived(t)) \subseteq InUse(n)

LEMMA RevokeShrinks ==
  ASSUME NEW t, NEW S \in SUBSET InUse(t), SoundTable(t)
  PROVE  Shrunk(t, Free(t, Cascade(t, S)), S)
<1> DEFINE F == Cascade(t, S)
           n == Free(t, F)
<1>1. F \in SUBSET InUse(t) /\ S \subseteq F /\ F \subseteq S \cup Derived(t)
  BY CascadeInUse DEF Cascade, Descendants
<1>2. SoundTable(n)
  BY RevokeKeepsTableSound
<1>3. TableShape(t) /\ InUse(t) \subseteq Slots
  BY DEF SoundTable, TableShape
<1> HIDE DEF F
<1>4. /\ InUse(n) = InUse(t) \ F
      /\ \A s \in InUse(n) : n.cap[s] = t.cap[s]
      /\ \A s \in Slots \ F : n.generation[s] = t.generation[s]
  BY <1>1, <1>3, FreeFacts
<1>5. Derived(n) = Derived(t) \ F
  BY <1>1, <1>3, FreeKeepsChildren
<1> HIDE DEF n
<1> QED BY <1>1, <1>2, <1>3, <1>4, <1>5 DEF Shrunk, n, F

Touches(c, dead) == c.owner \in dead \/ \E d \in dead : c.res = IpcTo(d)
Swept(t, n, dead) ==
  /\ SoundTable(n) /\ InUse(n) \subseteq InUse(t)
  /\ \A s \in InUse(n) : /\ n.cap[s] = t.cap[s] /\ n.generation[s] = t.generation[s]
                         /\ ~ Touches(t.cap[s], dead)
  /\ \A s \in InUse(t) \ Derived(t) : ~ Touches(t.cap[s], dead) => s \in InUse(n)

LEMMA SweepSweeps ==
  ASSUME NEW t, NEW dead, SoundTable(t)
  PROVE  Swept(t, Sweep(t, dead), dead)
<1> DEFINE u == cap_revoke_all_for_process(t, dead)
           n == cap_revoke_ipc_targets(u, dead)
<1>1. Sweep(t, dead) = n
  BY DEF Sweep, Then
<1>2. Shrunk(t, u, OwnedBy(t, dead))
  <2>1. OwnedBy(t, dead) \in SUBSET InUse(t)
    BY DEF OwnedBy
  <2> QED BY <2>1, RevokeShrinks DEF cap_revoke_all_for_process
<1>3. Shrunk(u, n, IpcNaming(u, dead))
  <2>1. IpcNaming(u, dead) \in SUBSET InUse(u) /\ SoundTable(u)
    BY <1>2 DEF IpcNaming, Shrunk
  <2> QED BY <2>1, RevokeShrinks DEF cap_revoke_ipc_targets
<1> HIDE DEF u, n
<1>4. /\ SoundTable(n) /\ InUse(n) \subseteq InUse(u) /\ InUse(u) \subseteq InUse(t)
      /\ \A s \in InUse(n) : n.cap[s] = t.cap[s] /\ n.generation[s] = t.generation[s]
      /\ \A s \in InUse(u) : u.cap[s] = t.cap[s]
      /\ Derived(u) \subseteq Derived(t)
  BY <1>2, <1>3 DEF Shrunk
<1>5. ASSUME NEW s \in InUse(n) PROVE ~ Touches(t.cap[s], dead)
  BY <1>2, <1>3, <1>4 DEF Shrunk, Touches, OwnedBy, IpcNaming
<1>6. ASSUME NEW s \in InUse(t) \ Derived(t), ~ Touches(t.cap[s], dead) PROVE s \in InUse(n)
  <2>1. s \notin OwnedBy(t, dead)
    BY <1>6 DEF OwnedBy, Touches
  <2>2. s \in InUse(u)
    BY <1>2, <2>1 DEF Shrunk
  <2>3. s \notin IpcNaming(u, dead)
    BY <1>4, <1>6, <2>2 DEF IpcNaming, Touches
  <2>4. s \notin Derived(u)
    BY <1>4, <1>6
  <2> QED BY <1>3, <2>2, <2>3, <2>4 DEF Shrunk
<1> QED BY <1>1, <1>4, <1>5, <1>6 DEF Swept

-----------------------------------------------------------------------------
(* Types.                                                                  *)

LEMMA PeersShape ==
  /\ Len(Peers) \in Nat /\ DOMAIN Peers = 1 .. Len(Peers)
  /\ \A i \in DOMAIN Peers : /\ Peers[i] \in Range(Peers)
                             /\ Peers[i].of \in Names /\ Peers[i].peer \in Names
                             /\ Peers[i].of # Peers[i].peer
                             /\ "GRANT" \notin Peers[i].to \cup Peers[i].from
<1>1. Len(Peers) \in Nat /\ DOMAIN Peers = 1 .. Len(Peers)
  BY PeersAssumption
<1>2. \A i \in DOMAIN Peers : Peers[i] \in Range(Peers)
  BY DEF Range
<1> QED BY <1>1, <1>2, PeersAssumption

LEMMA ServicesShape ==
  /\ Len(Services) \in Nat /\ DOMAIN Services = 1 .. Len(Services)
  /\ \A i \in 1 .. Len(Services) : Services[i] \in Names
  /\ \A s \in Names : \E i \in 1 .. Len(Services) : s = Services[i]
  BY ServicesAssumption DEF Names, Range

LEMMA FreePid ==
  ASSUME Unused # {}
  PROVE  find_free_pid \in Unused
<1>1. Unused \in SUBSET Nat
  BY PidsAssumption DEF Unused
<1>2. \E s \in Unused : \A t \in Unused : s <= t
  BY <1>1, LeastExists
<1> QED BY <1>2 DEF find_free_pid, Lowest

LEMMA NobodyZero == Nobody \in ({0} \cup Pids) \X Nat /\ 0 \notin Pids
  BY PidsAssumption DEF Nobody

ProcRecords == [state : {"UNUSED", "LIVE", "TERMINATED"}, generation : Nat,
                spawner : ({0} \cup Pids) \X Nat]
ManRecords == [bound : BOOLEAN, rows : SUBSET Rows, spawn_max : Nat,
               spawn_channel : BOOLEAN, spawn_used : Nat]
SvcRecords == [state : {"STOPPED", "RUNNING", "CRASHED"}, pid : {0} \cup Pids,
               generation : Nat, restarts : Nat]

(* The rows of a manifest that a definition declares.                      *)
LEMMA DeclaredRows ==
  ASSUME NEW s \in Names
  PROVE  /\ GrantManifest(s) \in ManRecords /\ IsFiniteSet(GrantManifest(s).rows)
         /\ Cardinality(GrantManifest(s).rows) <= MaxRows
<1> DEFINE gs == Def[s].grants
           m == GrantManifest(s)
<1>1. /\ gs \in Seq(Range(gs)) /\ Len(gs) <= MaxRows /\ Len(gs) \in Nat
      /\ Def[s].spawn_max \in Nat /\ Def[s].spawn_channel \in BOOLEAN
  BY DefAssumption
<1>2. m.rows = {g.res : g \in Range(gs)}
  BY DEF GrantManifest
<1>3. m.rows \subseteq Rows
  BY <1>2 DEF Rows
<1>4. m \in ManRecords
  BY <1>1, <1>3 DEF GrantManifest, ManRecords
<1>5. PICK k \in Nat : k = Len(gs)
  BY <1>1
<1>6. IsFiniteSet(1 .. k) /\ Cardinality(1 .. k) = k
  BY FS_Interval
<1>7. IsFiniteSet(m.rows) /\ Cardinality(m.rows) <= Cardinality(1 .. k)
  <2> DEFINE f == [i \in 1 .. k |-> gs[i].res]
  <2>1. m.rows = {gs[i].res : i \in 1 .. k}
    BY <1>1, <1>2, <1>5 DEF Range
  <2>2. f \in Surjection(1 .. k, m.rows)
    BY <2>1 DEF Surjection
  <2> QED BY <1>6, <2>2, FS_Surjection
<1>8. Cardinality(m.rows) \in Nat
  BY <1>7, FS_CardinalityType
<1>9. Cardinality(m.rows) <= MaxRows
  <2> HIDE DEF m, gs
  <2> QED BY <1>1, <1>5, <1>6, <1>7, <1>8, MaxRowsAssumption
<1> QED BY <1>4, <1>7, <1>9

LEMMA EmptyRows ==
  NoManifest \in ManRecords /\ NoManifest.rows = {} /\ Cardinality(NoManifest.rows) <= MaxRows
  BY FS_EmptySet, MaxRowsAssumption DEF NoManifest, ManRecords

TableOK == TypeOK /\ SoundTable(ct)

LEMMA TypeParts ==
  ASSUME TypeOK
  PROVE  /\ proc \in [Pids -> ProcRecords] /\ man \in [Pids -> ManRecords]
         /\ svc \in [Names -> SvcRecords]
         /\ \A p \in Pids : Cardinality(man[p].rows) <= MaxRows
  BY DEF TypeOK, ProcRecords, ManRecords, SvcRecords

(* What the destruction of the processes in dead does.                     *)
Destroyed(dead) ==
  /\ Swept(ct, ct', dead)
  /\ proc' \in [Pids -> ProcRecords] /\ man' \in [Pids -> ManRecords]
  /\ \A p \in Pids : Cardinality(man'[p].rows) <= MaxRows
  /\ \A p \in Pids : proc'[p].generation = proc[p].generation
  /\ \A p \in Pids \ dead : proc'[p] = proc[p] /\ man'[p] = man[p]
  /\ \A p \in dead : /\ proc'[p].state = "UNUSED" /\ proc'[p].spawner = Nobody
                     /\ man'[p].rows = {}

LEMMA DestroyFacts ==
  ASSUME TableOK, NEW dead \in SUBSET Pids, Destroy(dead)
  PROVE  Destroyed(dead)
<1>1. Swept(ct, ct', dead)
  BY SweepSweeps DEF TableOK, Destroy
<1>2. proc \in [Pids -> ProcRecords] /\ man \in [Pids -> ManRecords]
      /\ \A p \in Pids : Cardinality(man[p].rows) <= MaxRows
  BY TypeParts DEF TableOK
<1>3. /\ man' = [p \in Pids |-> IF p \in dead THEN NoManifest ELSE man[p]]
      /\ proc' = [p \in Pids |-> IF p \in dead
                     THEN [proc[p] EXCEPT !.state = "UNUSED", !.spawner = Nobody] ELSE proc[p]]
  BY DEF Destroy
<1>4. man' \in [Pids -> ManRecords] /\ \A p \in Pids : Cardinality(man'[p].rows) <= MaxRows
  <2>1. ASSUME NEW p \in Pids
        PROVE  man'[p] \in ManRecords /\ Cardinality(man'[p].rows) <= MaxRows
    BY <1>2, <1>3, EmptyRows
  <2> QED BY <1>3, <2>1
<1>5. ASSUME NEW p \in dead
      PROVE  /\ proc'[p] \in ProcRecords /\ proc'[p].generation = proc[p].generation
             /\ proc'[p].state = "UNUSED" /\ proc'[p].spawner = Nobody
  <2>1. proc[p] \in ProcRecords
    BY <1>2
  <2>2. proc'[p] = [proc[p] EXCEPT !.state = "UNUSED", !.spawner = Nobody]
    BY <1>3
  <2> QED BY <2>1, <2>2, NobodyZero DEF ProcRecords
<1>6. \A p \in Pids \ dead : proc'[p] = proc[p] /\ man'[p] = man[p]
  BY <1>3
<1>7. proc' \in [Pids -> ProcRecords]
  <2>1. \A p \in Pids : proc'[p] \in ProcRecords
    BY <1>2, <1>5, <1>6
  <2> QED BY <1>3, <2>1
<1>8. \A p \in Pids : proc'[p].generation = proc[p].generation
  BY <1>5, <1>6
<1>9. \A p \in dead : man'[p].rows = {}
  BY <1>3, EmptyRows
<1> QED BY <1>1, <1>4, <1>5, <1>6, <1>7, <1>8, <1>9 DEF Destroyed

-----------------------------------------------------------------------------
(* The inductive invariant.                                                *)

(* A slot of services[] names at most the incarnation it was given: no two *)
(* services have the same one, and a slot's generation is never ahead of   *)
(* its process's.                                                          *)
GenerationsTell ==
  /\ \A s \in Names : svc[s].pid # 0 => svc[s].generation <= proc[svc[s].pid].generation
  /\ \A a, b \in Names :
       svc[a].pid # 0 /\ svc[a].pid = svc[b].pid /\ svc[a].generation = svc[b].generation
         => a = b

(* start_slot() only ever runs for a slot without a pid, and while it is   *)
(* booting nothing dies.                                                   *)
RestartsAreEmpty == mon.pc = "start" => svc[mon.s].pid = 0
BootOrder ==
  /\ \A i \in DOMAIN Services : i > boot => svc[Services[i]].pid = 0
  /\ ~ Booted => /\ mon = Idle
                 /\ \A i \in DOMAIN Services :
                      i <= boot => Holds(svc[Services[i]].pid, Services[i])

SlotsTell == GenerationsTell /\ RestartsAreEmpty /\ BootOrder

(* Nobody can pass a channel on, so channels are roots and none falls with *)
(* another capability.                                                     *)
ChannelsStay ==
  \A s \in InUse(ct) :
    ct.cap[s].res[1] = "IPC" =>
      ct.cap[s].res = IpcTo(ct.cap[s].res[2]) /\ "GRANT" \notin ct.cap[s].perms

(* A declared pair between services that are up is whole or absent, told   *)
(* by the slots instead of by their number.                                *)
Has(S, perms) == IF perms = {} THEN S = {} ELSE \E f \in Slots : S = {f}
Stands(t, a, b, to, from) ==
  \/ Held(t, a, IpcTo(b)) = {} /\ Held(t, b, IpcTo(a)) = {}
  \/ Has(Held(t, a, IpcTo(b)), to) /\ Has(Held(t, b, IpcTo(a)), from)
PairsStand ==
  \A i \in DOMAIN Peers :
    slot_peer_live(Peers[i].of) /\ slot_peer_live(Peers[i].peer) =>
      Stands(ct, svc[Peers[i].of].pid, svc[Peers[i].peer].pid, Peers[i].to, Peers[i].from)

RowsFinite == \A p \in Pids : IsFiniteSet(man[p].rows)

(* Every capability is meant, every pair whole, every manifest in step.    *)
Dated == \A s \in InUse(ct) : ct.cap[s].expiration \in Nat
Meant == AuthorityIsMeant /\ ChannelsAreMeant /\ ChannelsStay /\ Dated
Authority ==
  RowsFinite /\ SoundTable(ct) /\ Meant /\ PairsStand /\ IntentCoversAuthority

AuthorityInv == TypeOK /\ SlotsTell /\ Authority

-----------------------------------------------------------------------------
(* What a step leaves of the processes it spares: all but those in dead.   *)

Spares(dead) ==
  \A q \in (Pids \ Unused) \ dead :
    /\ proc'[q].state # "UNUSED" /\ proc'[q].generation = proc[q].generation
    /\ proc'[q].spawner = proc[q].spawner
    /\ \A s \in Names : Holds(q, s) =>
         svc'[s].pid = q /\ svc'[s].generation = svc[s].generation

LEMMA SparedHold ==
  ASSUME NEW dead, Spares(dead), NEW q \in (Pids \ Unused) \ dead
  PROVE  /\ q \in (Pids \ Unused)' /\ (Incarnation(q) = Incarnation(q)')
         /\ \A s \in Names : Holds(q, s) => Holds(q, s)'
<1>1. q \in (Pids \ Unused)'
  BY DEF Spares, Unused
<1>2. Incarnation(q) = Incarnation(q)'
  BY DEF Spares, Incarnation
<1>3. ASSUME NEW s \in Names, Holds(q, s) PROVE Holds(q, s)'
  BY <1>1, <1>3 DEF Spares, Holds
<1> QED BY <1>1, <1>2, <1>3

LEMMA SparedChannels ==
  ASSUME NEW dead, Spares(dead), NEW o, NEW r, NEW q, ChannelIsMeant(o, r, q),
         o \notin dead, r \notin dead
  PROVE  ChannelIsMeant(o, r, q)'
<1>1. o \in (Pids \ Unused) \ dead /\ r \in (Pids \ Unused) \ dead
  BY DEF ChannelIsMeant
<1>2. /\ o \in (Pids \ Unused)' /\ r \in (Pids \ Unused)'
      /\ Incarnation(o) = Incarnation(o)' /\ Incarnation(r) = Incarnation(r)'
      /\ \A s \in Names : (Holds(o, s) => Holds(o, s)') /\ (Holds(r, s) => Holds(r, s)')
  BY <1>1, SparedHold
<1>3. proc'[o].spawner = proc[o].spawner /\ proc'[r].spawner = proc[r].spawner
  BY <1>1 DEF Spares
<1> QED BY <1>2, <1>3 DEF ChannelIsMeant, DeclaredTo

LEMMA SparedGrants ==
  ASSUME NEW dead, Spares(dead), NEW c, Granted(c), c.owner \in (Pids \ Unused) \ dead
  PROVE  Granted(c)'
<1>1. \A s \in Names : Holds(c.owner, s) => Holds(c.owner, s)'
  BY SparedHold
<1> QED BY <1>1 DEF Granted

(* The same, capability by capability.                                     *)
ChannelMeant(c) ==
  /\ ChannelIsMeant(c.owner, c.res[2], c.perms)
  /\ c.res = IpcTo(c.res[2]) /\ "GRANT" \notin c.perms
RootMeant(c) ==
  /\ c.owner \in Pids \ Unused /\ c.expiration \in Nat
  /\ IF c.res[1] = "IPC" THEN ChannelMeant(c) ELSE Granted(c)
CapMeant(s) ==
  /\ ct.cap[s].owner \in Pids \ Unused /\ ct.cap[s].expiration \in Nat
  /\ ct.cap[s].res[1] = "IPC" => ChannelMeant(ct.cap[s])
  /\ ct.cap[s].res[1] # "IPC" =>
       IF s \in Derived(ct) THEN Delegated(s) ELSE Granted(ct.cap[s])

LEMMA MeantEach == Meant <=> \A s \in InUse(ct) : CapMeant(s)
  BY DEF Meant, AuthorityIsMeant, ChannelsAreMeant, ChannelsStay, Dated, CapMeant, ChannelMeant

LEMMA NoDerivedChannels ==
  ASSUME Meant, SoundTable(ct), NEW s \in InUse(ct), ct.cap[s].res[1] = "IPC"
  PROVE  s \notin Derived(ct)
<1> SUFFICES ASSUME s \in Derived(ct) PROVE FALSE
  OBVIOUS
<1>1. PICK p \in InUse(ct) : Narrower(ct.cap[s], ct.cap[p])
  BY DEF SoundTable, SoundDerivations
<1>2. ct.cap[p].res[1] = "IPC" /\ "GRANT" \in ct.cap[p].perms
  BY <1>1 DEF Narrower
<1> QED BY <1>2 DEF Meant, ChannelsStay

LEMMA SparedRoots ==
  ASSUME NEW dead, Spares(dead), NEW c, RootMeant(c), ~ Touches(c, dead)
  PROVE  RootMeant(c)'
<1>1. c.owner \in (Pids \ Unused) \ dead
  BY DEF RootMeant, Touches
<1>2. c.owner \in (Pids \ Unused)'
  BY <1>1, SparedHold
<1>3. CASE c.res[1] = "IPC"
  <2>1. c.res[2] \notin dead
    BY <1>3 DEF RootMeant, ChannelMeant, Touches
  <2>2. ChannelIsMeant(c.owner, c.res[2], c.perms)'
    BY <1>1, <1>3, <2>1, SparedChannels DEF RootMeant, ChannelMeant
  <2> QED BY <1>2, <1>3, <2>2 DEF RootMeant, ChannelMeant
<1>4. CASE c.res[1] # "IPC"
  BY <1>1, <1>2, <1>4, SparedGrants DEF RootMeant
<1> QED BY <1>3, <1>4

(* A table that grew by roots that are meant; nobody died.                 *)
LEMMA GrowthMeant ==
  ASSUME SoundTable(ct), SoundTable(ct'), Meant, Spares({}), NEW N, Grew(ct, ct', N),
         \A c \in N : c.parent = CAP_ID_INVALID /\ RootMeant(c)'
  PROVE  Meant'
<1>1. /\ Derived(ct') = Derived(ct)
      /\ \A s, p \in InUse(ct) : IsChildOf(ct', s, p) <=> IsChildOf(ct, s, p)
  BY GrownDerivations
<1>2. \A s \in InUse(ct) : CapMeant(s)
  BY MeantEach
<1>3. ASSUME NEW s \in InUse(ct), ct.cap[s].res[1] # "IPC", s \in Derived(ct)
      PROVE  CapMeant(s)'
  <2>1. /\ s \in InUse(ct') /\ ct'.cap[s] = ct.cap[s]
        /\ ct.cap[s].owner \in Pids \ Unused /\ ct.cap[s].expiration \in Nat
    BY <1>2, <1>3 DEF Grew, CapMeant
  <2>2. PICK o : o = ct.cap[s].owner
    OBVIOUS
  <2>3. o \in (Pids \ Unused)'
    BY <2>1, <2>2, SparedHold
  <2>4. Delegated(s)
    BY <1>2, <1>3 DEF CapMeant
  <2>5. Delegated(s)'
    BY <2>1, <2>4, <1>1, <1>3 DEF Delegated, Grew
  <2> QED BY <1>1, <1>3, <2>1, <2>2, <2>3, <2>5 DEF CapMeant
<1>4. ASSUME NEW s \in InUse(ct), ~ (ct.cap[s].res[1] # "IPC" /\ s \in Derived(ct))
      PROVE  CapMeant(s)'
  <2>1. s \in InUse(ct') /\ ct'.cap[s] = ct.cap[s]
    BY DEF Grew
  <2>2. PICK c : c = ct.cap[s]
    OBVIOUS
  <2>3. RootMeant(c)
    BY <1>2, <1>4, <2>2 DEF CapMeant, RootMeant
  <2>4. RootMeant(c)'
    BY <2>3, SparedRoots DEF Touches
  <2> QED BY <1>1, <1>4, <2>1, <2>2, <2>4 DEF CapMeant, RootMeant
<1>5. ASSUME NEW s \in InUse(ct') \ InUse(ct)
      PROVE  CapMeant(s)'
  <2>1. PICK c \in N : c = ct'.cap[s]
    BY DEF Grew
  <2>2. RootMeant(c)' /\ c.parent = CAP_ID_INVALID
    OBVIOUS
  <2>3. s \notin Derived(ct')
    BY <2>1, <2>2 DEF Derived
  <2> QED BY <2>1, <2>2, <2>3 DEF CapMeant, RootMeant
<1>6. \A s \in InUse(ct') : CapMeant(s)'
  BY <1>3, <1>4, <1>5
<1> QED BY <1>6 DEF Meant, AuthorityIsMeant, ChannelsAreMeant, ChannelsStay, Dated, CapMeant,
       ChannelMeant

(* A table that was swept: what is left is meant as before.                *)
LEMMA SweepMeant ==
  ASSUME NEW dead, SoundTable(ct), Meant, Spares(dead), Swept(ct, ct', dead)
  PROVE  Meant'
<1>1. \A s \in InUse(ct) : CapMeant(s)
  BY MeantEach
<1>2. SUFFICES ASSUME NEW s \in InUse(ct') PROVE CapMeant(s)'
  BY DEF Meant, AuthorityIsMeant, ChannelsAreMeant, ChannelsStay, Dated, CapMeant,
       ChannelMeant
<1>3. /\ s \in InUse(ct) /\ ct'.cap[s] = ct.cap[s] /\ ~ Touches(ct.cap[s], dead)
      /\ s \in Derived(ct') <=> s \in Derived(ct)
  BY DEF Swept, Derived
<1>4. PICK c : c = ct.cap[s]
  OBVIOUS
<1>5. CASE ~ (c.res[1] # "IPC" /\ s \in Derived(ct))
  <2>1. RootMeant(c)
    BY <1>1, <1>3, <1>4, <1>5 DEF CapMeant, RootMeant
  <2>2. RootMeant(c)'
    BY <1>3, <1>4, <2>1, SparedRoots
  <2> QED BY <1>3, <1>4, <1>5, <2>2 DEF CapMeant, RootMeant
<1>6. CASE c.res[1] # "IPC" /\ s \in Derived(ct)
  <2>1. c.owner \in (Pids \ Unused)' /\ c.expiration \in Nat
    <3>1. c.owner \in (Pids \ Unused) \ dead /\ c.expiration \in Nat
      BY <1>1, <1>3, <1>4 DEF CapMeant, Touches
    <3> QED BY <3>1, SparedHold
  <2>2. Delegated(s)
    BY <1>1, <1>3, <1>4, <1>6 DEF CapMeant
  <2>3. PICK p \in InUse(ct) :
          /\ IsChildOf(ct, s, p) /\ ct.cap[p].parent = CAP_ID_INVALID
          /\ ct.cap[s].perms \cap {"GRANT", "REVOKE"} = {}
          /\ \E t \in InUse(ct) : /\ ct.cap[t].owner = ct.cap[p].owner
                                  /\ ct.cap[t].res = IpcTo(ct.cap[s].owner)
                                  /\ "WRITE" \in ct.cap[t].perms
    BY <2>2 DEF Delegated
  <2>4. p \in InUse(ct') /\ IsChildOf(ct', s, p) /\ ct'.cap[p] = ct.cap[p]
        /\ ~ Touches(ct.cap[p], dead)
    <3>1. PICK q \in InUse(ct') : IsChildOf(ct', s, q)
      BY <1>3, <1>6 DEF Swept, SoundTable, SoundDerivations
    <3>2. q \in InUse(ct) /\ IsChildOf(ct, s, q)
      BY <1>3, <3>1 DEF Swept, IsChildOf, HandleOf
    <3>3. q = p
      BY <2>3, <3>2, HandlesDiffer DEF IsChildOf, SoundTable, TableShape
    <3> QED BY <3>1, <3>3 DEF Swept
  <2>5. PICK t \in InUse(ct) : /\ ct.cap[t].owner = ct.cap[p].owner
                               /\ ct.cap[t].res = IpcTo(c.owner)
                               /\ "WRITE" \in ct.cap[t].perms
    BY <2>3, <1>4
  <2>6. t \in InUse(ct') /\ ct'.cap[t] = ct.cap[t]
    <3>1. ~ Touches(ct.cap[t], dead)
      BY <1>3, <1>4, <2>4, <2>5 DEF Touches, IpcTo
    <3>2. t \notin Derived(ct)
      BY <2>5, NoDerivedChannels DEF IpcTo
    <3> QED BY <3>1, <3>2 DEF Swept
  <2>7. Delegated(s)'
    BY <1>3, <1>4, <2>3, <2>4, <2>5, <2>6 DEF Delegated
  <2> QED BY <1>3, <1>4, <1>6, <2>1, <2>7 DEF CapMeant
<1> QED BY <1>5, <1>6

-----------------------------------------------------------------------------
(* Pairs that a step leaves alone, and manifests that it leaves standing.  *)

BothLive(i) == slot_peer_live(Peers[i].of) /\ slot_peer_live(Peers[i].peer)
SamePids(i) ==
  /\ svc'[Peers[i].of].pid = svc[Peers[i].of].pid
  /\ svc'[Peers[i].peer].pid = svc[Peers[i].peer].pid

LEMMA PairsKept ==
  ASSUME PairsStand,
         \A i \in DOMAIN Peers : BothLive(i)' =>
           /\ BothLive(i) /\ SamePids(i)
           /\ PairKept(ct, ct', svc[Peers[i].of].pid, svc[Peers[i].peer].pid)
  PROVE  PairsStand'
<1> SUFFICES ASSUME NEW i \in DOMAIN Peers, BothLive(i)'
             PROVE  Stands(ct', svc'[Peers[i].of].pid, svc'[Peers[i].peer].pid,
                           Peers[i].to, Peers[i].from)
  BY DEF PairsStand, BothLive
<1>1. Stands(ct, svc[Peers[i].of].pid, svc[Peers[i].peer].pid, Peers[i].to, Peers[i].from)
  BY DEF PairsStand, BothLive
<1> QED BY <1>1 DEF Stands, PairKept, SamePids

LEMMA GrowthKeeps ==
  ASSUME NEW t, NEW n, NEW N, NEW a, NEW b, Grew(t, n, N),
         \A c \in N : <<c.owner, c.res>> \notin {<<a, IpcTo(b)>>, <<b, IpcTo(a)>>}
  PROVE  PairKept(t, n, a, b)
<1>1. \A s \in InUse(n) \ InUse(t) :
        <<n.cap[s].owner, n.cap[s].res>> \notin {<<a, IpcTo(b)>>, <<b, IpcTo(a)>>}
  BY DEF Grew
<1> QED BY <1>1 DEF Grew, PairKept, Held

LEMMA SweepKeeps ==
  ASSUME NEW t, NEW n, NEW dead, NEW a, NEW b, Swept(t, n, dead), a \notin dead, b \notin dead,
         \A s \in InUse(t) : t.cap[s].res[1] = "IPC" => s \notin Derived(t)
  PROVE  PairKept(t, n, a, b)
<1>1. ASSUME NEW x, NEW y, x \notin dead, y \notin dead
      PROVE  Held(n, x, IpcTo(y)) = Held(t, x, IpcTo(y))
  <2>1. ASSUME NEW s \in Held(t, x, IpcTo(y)) PROVE s \in InUse(n)
    <3>1. s \in InUse(t) /\ t.cap[s].owner = x /\ t.cap[s].res = IpcTo(y)
      BY DEF Held
    <3>2. ~ Touches(t.cap[s], dead)
      BY <1>1, <3>1 DEF Touches, IpcTo
    <3>3. s \notin Derived(t)
      BY <3>1 DEF IpcTo
    <3> QED BY <3>1, <3>2, <3>3 DEF Swept
  <2> QED BY <2>1 DEF Held, Swept
<1> QED BY <1>1 DEF PairKept

LEMMA OneHolder ==
  ASSUME SlotsTell, NEW a \in Names, NEW b \in Names, NEW p, Holds(p, a), Holds(p, b)
  PROVE  a = b
  BY NobodyZero DEF SlotsTell, GenerationsTell, Holds

Covered(c) ==
  (c.res[1] \in {"IPC", "SERVICE"} \/ c.res = <<"PROCESS", c.owner>>)
    \/ c.res \in man[c.owner].rows

LEMMA GrowthCovered ==
  ASSUME IntentCoversAuthority, Meant, NEW N, Grew(ct, ct', N), \A c \in N : Covered(c)',
         \A q \in Pids \ Unused : man[q].rows \subseteq man'[q].rows
  PROVE  IntentCoversAuthority'
<1>1. ASSUME NEW s \in InUse(ct')
      PROVE  \/ ct'.cap[s].res[1] \in {"IPC", "SERVICE"}
             \/ ct'.cap[s].res = <<"PROCESS", ct'.cap[s].owner>>
             \/ ct'.cap[s].res \in man'[ct'.cap[s].owner].rows
  <2>1. CASE s \in InUse(ct)
    <3>1. ct'.cap[s] = ct.cap[s] /\ ct.cap[s].owner \in Pids \ Unused
      BY <2>1, MeantEach DEF Grew, CapMeant
    <3> QED BY <2>1, <3>1 DEF IntentCoversAuthority
  <2>2. CASE s \notin InUse(ct)
    <3>1. PICK c \in N : c = ct'.cap[s]
      BY <2>2 DEF Grew
    <3>2. Covered(c)'
      OBVIOUS
    <3> QED BY <3>1, <3>2 DEF Covered
  <2> QED BY <2>1, <2>2
<1> QED BY <1>1 DEF IntentCoversAuthority

LEMMA SweepCovered ==
  ASSUME IntentCoversAuthority, Meant, NEW dead, Swept(ct, ct', dead),
         \A q \in Pids \ dead : man'[q] = man[q]
  PROVE  IntentCoversAuthority'
<1>1. \A s \in InUse(ct') : /\ s \in InUse(ct) /\ ct'.cap[s] = ct.cap[s]
                            /\ ct.cap[s].owner \in Pids \ dead
  BY MeantEach DEF Swept, Touches, CapMeant
<1> QED BY <1>1 DEF IntentCoversAuthority

-----------------------------------------------------------------------------
(* start_slot().                                                           *)

OwnCaps(s, p) ==
  {Root(p, <<"PROCESS", p>>, Perms, 0), Root(p, <<"SERVICE", s>>, RW, 0)}
    \cup {Root(p, g.res, g.perms, 0) : g \in Range(Def[s].grants)}
PairCaps(s, p) ==
  UNION {Ends(Of(i, s, p), Peer(i, s, p), Peers[i].to, Peers[i].from) :
           i \in Pass1Pairs(s) \cup Pass2Pairs(s)}

Started(s, p) ==
  /\ proc' = Create(p, Nobody)
  /\ man' = [man EXCEPT ![p] = GrantManifest(s)]
  /\ svc' = [svc EXCEPT ![s].state = "RUNNING", ![s].pid = p,
                        ![s].generation = proc'[p].generation]

LEMMA StartIs ==
  ASSUME NEW s, StartCommit(s)
  PROVE  \E p \in Unused :
           /\ Started(s, p)
           /\ ct' = Pass2(Pass1(MintGrants(RootCap(ct, p), s, p), s, p), s, p)
<1>1. find_free_pid \in Unused
  BY FreePid DEF StartCommit
<1>2. PICK p : p = find_free_pid
  OBVIOUS
<1>3. Started(s, p)
  BY <1>2 DEF StartCommit, Started
<1>4. ct' = Pass2(Pass1(MintGrants(RootCap(ct, p), s, p), s, p), s, p)
  BY <1>2 DEF StartCommit, Then
<1> QED BY <1>1, <1>2, <1>3, <1>4

LEMMA OwnMinted ==
  ASSUME NEW s \in Names, NEW p, SoundTable(ct)
  PROVE  LET t == MintGrants(RootCap(ct, p), s, p)
         IN  SoundTable(t) /\ Grew(ct, t, OwnCaps(s, p))
<1> DEFINE t0 == RootCap(ct, p)
           t == MintGrants(t0, s, p)
           gs == Def[s].grants
           N == OwnCaps(s, p)
<1>1. Minted(ct, t0, Root(p, <<"PROCESS", p>>, Perms, 0))
  BY CreateGrows DEF RootCap
<1>2. SoundTable(t0) /\ Grew(ct, t0, N)
  <2>1. {Root(p, <<"PROCESS", p>>, Perms, 0)} \subseteq N
    BY DEF OwnCaps
  <2> HIDE DEF N, t0
  <2> QED BY <1>1, <2>1, GrewMore DEF Minted
<1>3. PICK k \in Nat : k = Len(gs) /\ DOMAIN gs = 1 .. k
  BY DefAssumption
<1>4. PICK roots : roots = Grants(s, p)
  OBVIOUS
<1>5. roots = [i \in 1 .. k + 1 |->
                 IF i = 1 THEN [owner |-> p, res |-> <<"SERVICE", s>>, perms |-> RW]
                 ELSE [owner |-> p, res |-> gs[i - 1].res, perms |-> gs[i - 1].perms]]
  BY <1>3, <1>4 DEF Grants
<1>6. Len(roots) = k + 1
  BY <1>5
<1>7. ASSUME NEW i \in 1 .. k + 1
      PROVE  Root(roots[i].owner, roots[i].res, roots[i].perms, 0) \in N
  <2>1. CASE i = 1
    BY <1>5, <2>1 DEF OwnCaps
  <2>2. CASE i # 1
    <3>1. i - 1 \in 1 .. k /\ gs[i - 1] \in Range(gs)
      BY <1>3, <2>2 DEF Range
    <3>2. roots[i] = [owner |-> p, res |-> gs[i - 1].res, perms |-> gs[i - 1].perms]
      BY <1>5, <2>2
    <3>3. \E g \in Range(gs) : Root(roots[i].owner, roots[i].res, roots[i].perms, 0)
                                 = Root(p, g.res, g.perms, 0)
      BY <3>1, <3>2
    <3> QED BY <3>3 DEF OwnCaps
  <2> QED BY <2>1, <2>2
<1> HIDE DEF N, t0
<1>8. PICK n : n = MintAll(t0, roots)
  OBVIOUS
<1>9. SoundTable(n) /\ Grew(t0, n, N)
  BY <1>2, <1>6, <1>7, <1>8, MintAllGrows
<1>10. Grew(ct, n, N)
  BY <1>2, <1>9, GrewTwice
<1> QED BY <1>4, <1>8, <1>9, <1>10 DEF MintGrants, t0, N

LEMMA CreateFacts ==
  ASSUME TypeOK, NEW p \in Pids, NEW by \in ({0} \cup Pids) \X Nat, proc' = Create(p, by)
  PROVE  /\ proc' \in [Pids -> ProcRecords]
         /\ proc'[p].state = "LIVE" /\ proc'[p].spawner = by
         /\ proc'[p].generation = proc[p].generation + 1
         /\ \A q \in Pids \ {p} : proc'[q] = proc[q]
<1>1. proc \in [Pids -> ProcRecords] /\ proc[p].generation \in Nat
  BY TypeParts DEF ProcRecords
<1>2. PICK r : r = [state |-> "LIVE", generation |-> proc[p].generation + 1, spawner |-> by]
  OBVIOUS
<1>3. proc' = [proc EXCEPT ![p] = r]
  BY <1>2 DEF Create
<1>4. r \in ProcRecords
  BY <1>1, <1>2 DEF ProcRecords
<1> QED BY <1>1, <1>2, <1>3, <1>4

StartedFacts(s, p) ==
  /\ proc' \in [Pids -> ProcRecords] /\ man' \in [Pids -> ManRecords]
  /\ svc' \in [Names -> SvcRecords]
  /\ proc'[p].state = "LIVE" /\ proc'[p].spawner = Nobody
  /\ proc'[p].generation = proc[p].generation + 1
  /\ \A q \in Pids \ {p} : proc'[q] = proc[q] /\ man'[q] = man[q]
  /\ man'[p] = GrantManifest(s)
  /\ svc'[s].state = "RUNNING" /\ svc'[s].pid = p
  /\ svc'[s].generation = proc[p].generation + 1
  /\ svc'[s].restarts = svc[s].restarts
  /\ \A o \in Names \ {s} : svc'[o] = svc[o]

LEMMA StartedHas ==
  ASSUME TypeOK, NEW s \in Names, NEW p \in Unused, Started(s, p)
  PROVE  StartedFacts(s, p)
<1>1. /\ proc \in [Pids -> ProcRecords] /\ man \in [Pids -> ManRecords]
      /\ svc \in [Names -> SvcRecords] /\ p \in Pids
  BY TypeParts DEF Unused
<1>2. /\ proc' \in [Pids -> ProcRecords]
      /\ proc'[p].state = "LIVE" /\ proc'[p].spawner = Nobody
      /\ proc'[p].generation = proc[p].generation + 1
      /\ \A q \in Pids \ {p} : proc'[q] = proc[q]
  BY <1>1, CreateFacts, NobodyZero DEF Started
<1>3. PICK g \in Nat : g = proc'[p].generation
  BY <1>1, <1>2 DEF ProcRecords
<1>4. svc' = [svc EXCEPT ![s].state = "RUNNING", ![s].pid = p, ![s].generation = g]
  BY <1>3 DEF Started
<1>5. PICK r : r = [svc[s] EXCEPT !.state = "RUNNING", !.pid = p, !.generation = g]
  OBVIOUS
<1>6. r \in SvcRecords /\ r.state = "RUNNING" /\ r.pid = p /\ r.generation = g
      /\ r.restarts = svc[s].restarts
  <2>1. svc[s] \in SvcRecords
    BY <1>1
  <2> QED BY <1>1, <1>5, <2>1 DEF SvcRecords
<1>7. svc' = [svc EXCEPT ![s] = r]
  BY <1>1, <1>4, <1>5
<1>8. svc' \in [Names -> SvcRecords] /\ svc'[s] = r /\ \A o \in Names \ {s} : svc'[o] = svc[o]
  BY <1>1, <1>6, <1>7
<1>9. man' \in [Pids -> ManRecords] /\ man'[p] = GrantManifest(s)
      /\ \A q \in Pids \ {p} : man'[q] = man[q]
  BY <1>1, DeclaredRows DEF Started
<1> QED BY <1>2, <1>3, <1>6, <1>8, <1>9 DEF StartedFacts

(* The new process is nobody who was there, and holds the service's slot.  *)
LEMMA StartSpares ==
  ASSUME TypeOK, NEW s \in Names, NEW p \in Unused, StartedFacts(s, p), svc[s].pid = 0
  PROVE  Spares({}) /\ p \in (Pids \ Unused)' /\ Holds(p, s)'
<1>1. p \in Pids /\ \A q \in Pids \ Unused : q # p /\ q # 0
  BY NobodyZero DEF Unused
<1>2. p \in (Pids \ Unused)'
  BY <1>1 DEF StartedFacts, Unused
<1>3. Holds(p, s)'
  BY <1>2 DEF StartedFacts, Holds
<1>4. ASSUME NEW q \in Pids \ Unused
      PROVE  /\ proc'[q].state # "UNUSED" /\ proc'[q] = proc[q]
             /\ \A o \in Names : Holds(q, o) => svc'[o] = svc[o] /\ svc[o].pid = q
  BY <1>1, <1>4 DEF StartedFacts, Holds, Unused
<1> QED BY <1>2, <1>3, <1>4 DEF Spares

(* The ends of the pairs that the two passes look at.                      *)
LEMMA PassEnds ==
  ASSUME TypeOK, NEW s \in Names, NEW p \in Unused, svc[s].pid = 0,
         NEW i \in Pass1Pairs(s) \cup Pass2Pairs(s)
  PROVE  \E o \in Names \ {s} :
           /\ slot_peer_live(o) /\ svc[o].pid \in Pids \ Unused /\ svc[o].pid # p
           /\ \/ /\ Peers[i].of = s /\ Peers[i].peer = o
                 /\ Of(i, s, p) = p /\ Peer(i, s, p) = svc[o].pid
              \/ /\ Peers[i].of = o /\ Peers[i].peer = s
                 /\ Of(i, s, p) = svc[o].pid /\ Peer(i, s, p) = p
<1>1. i \in DOMAIN Peers /\ Peers[i].of \in Names /\ Peers[i].peer \in Names
      /\ Peers[i].of # Peers[i].peer
  BY PeersShape DEF Pass1Pairs, Pass2Pairs
<1>2. \A o \in Names : slot_peer_live(o) => svc[o].pid \in Pids \ Unused /\ svc[o].pid # p
  BY DEF slot_peer_live, Holds
<1>3. CASE i \in Pass1Pairs(s)
  <2>1. Peers[i].of = s /\ slot_peer_live(Peers[i].peer) /\ Peers[i].peer \in Names \ {s}
    BY <1>1, <1>3 DEF Pass1Pairs
  <2>2. Of(i, s, p) = p /\ Peer(i, s, p) = svc[Peers[i].peer].pid
    BY <2>1 DEF Of, Peer, PidOf
  <2> QED BY <1>2, <2>1, <2>2
<1>4. CASE i \in Pass2Pairs(s)
  <2>1. Peers[i].peer = s /\ slot_peer_live(Peers[i].of) /\ Peers[i].of \in Names \ {s}
    BY <1>1, <1>4 DEF Pass2Pairs
  <2>2. Of(i, s, p) = svc[Peers[i].of].pid /\ Peer(i, s, p) = p
    BY <2>1 DEF Of, Peer, PidOf
  <2> QED BY <1>2, <2>1, <2>2
<1> QED BY <1>3, <1>4

LEMMA OwnCapsMeant ==
  ASSUME NEW s \in Names, NEW p, StartedFacts(s, p), p \in (Pids \ Unused)', Holds(p, s)',
         NEW c \in OwnCaps(s, p)
  PROVE  /\ c.parent = CAP_ID_INVALID /\ RootMeant(c)' /\ Covered(c)'
         /\ c.owner = p /\ c.res[1] # "IPC"
<1>1. CASE c = Root(p, <<"PROCESS", p>>, Perms, 0)
  BY <1>1 DEF Root, RootMeant, Granted, Covered
<1>2. CASE c = Root(p, <<"SERVICE", s>>, RW, 0)
  BY <1>2 DEF Root, RootMeant, Granted, Covered
<1>3. ASSUME NEW g \in Range(Def[s].grants), c = Root(p, g.res, g.perms, 0)
      PROVE  /\ c.parent = CAP_ID_INVALID /\ RootMeant(c)' /\ Covered(c)'
             /\ c.owner = p /\ c.res[1] # "IPC"
  <2>1. /\ c.parent = CAP_ID_INVALID /\ c.owner = p /\ c.res = g.res /\ c.perms = g.perms
        /\ c.expiration = 0 /\ c.res[1] # "IPC"
    BY <1>3, DefAssumption DEF Root
  <2>2. c.res \in man'[p].rows
    BY <2>1 DEF StartedFacts, GrantManifest
  <2>3. Granted(c)'
    BY <2>1 DEF Granted
  <2> QED BY <2>1, <2>2, <2>3 DEF RootMeant, Covered
<1> QED BY <1>1, <1>2, <1>3 DEF OwnCaps

LEMMA PairCapsMeant ==
  ASSUME TypeOK, NEW s \in Names, NEW p \in Unused, svc[s].pid = 0,
         Spares({}), p \in (Pids \ Unused)', Holds(p, s)', NEW c \in PairCaps(s, p)
  PROVE  c.parent = CAP_ID_INVALID /\ RootMeant(c)' /\ Covered(c)'
<1>1. PICK i \in Pass1Pairs(s) \cup Pass2Pairs(s) :
        c \in Ends(Of(i, s, p), Peer(i, s, p), Peers[i].to, Peers[i].from)
  BY DEF PairCaps
<1>2. PICK o \in Names \ {s} :
        /\ slot_peer_live(o) /\ svc[o].pid \in Pids \ Unused
        /\ \/ /\ Peers[i].of = s /\ Peers[i].peer = o
              /\ Of(i, s, p) = p /\ Peer(i, s, p) = svc[o].pid
           \/ /\ Peers[i].of = o /\ Peers[i].peer = s
              /\ Of(i, s, p) = svc[o].pid /\ Peer(i, s, p) = p
  BY PassEnds
<1>3. PICK q \in Pids \ Unused : q = svc[o].pid
  BY <1>2
<1>4. Holds(q, o)' /\ q \in (Pids \ Unused)'
  BY <1>2, <1>3, SparedHold DEF slot_peer_live
<1>5. /\ Peers[i] \in Range(Peers)
      /\ "GRANT" \notin Peers[i].to /\ "GRANT" \notin Peers[i].from
  BY PeersShape DEF Pass1Pairs, Pass2Pairs
<1>6. ASSUME NEW x \in {p, q}, NEW y \in {p, q}, NEW a \in Names, NEW b \in Names, NEW perms,
             Holds(x, a)', Holds(y, b)', DeclaredTo(a, b, perms), "GRANT" \notin perms,
             c = Root(x, IpcTo(y), perms, 0)
      PROVE  c.parent = CAP_ID_INVALID /\ RootMeant(c)' /\ Covered(c)'
  <2>1. /\ c.parent = CAP_ID_INVALID /\ c.expiration = 0 /\ c.owner = x /\ c.res = IpcTo(y)
        /\ c.res[1] = "IPC" /\ c.res[2] = y /\ c.perms = perms
    BY <1>6 DEF Root, IpcTo
  <2>2. x \in (Pids \ Unused)' /\ y \in (Pids \ Unused)'
    BY <1>4
  <2>3. ChannelIsMeant(x, y, perms)'
    BY <1>6, <2>2 DEF ChannelIsMeant, DeclaredTo
  <2> QED BY <1>6, <2>1, <2>2, <2>3 DEF RootMeant, ChannelMeant, Covered
<1>7. CASE Peers[i].of = s /\ Peers[i].peer = o
             /\ Of(i, s, p) = p /\ Peer(i, s, p) = svc[o].pid
  <2>1. DeclaredTo(s, o, Peers[i].to) /\ DeclaredTo(o, s, Peers[i].from)
    BY <1>5, <1>7 DEF DeclaredTo
  <2>2. c = Root(p, IpcTo(q), Peers[i].to, 0) \/ c = Root(q, IpcTo(p), Peers[i].from, 0)
    BY <1>1, <1>3, <1>7 DEF Ends
  <2> QED BY <1>4, <1>5, <1>6, <2>1, <2>2
<1>8. CASE Peers[i].of = o /\ Peers[i].peer = s
             /\ Of(i, s, p) = svc[o].pid /\ Peer(i, s, p) = p
  <2>1. DeclaredTo(o, s, Peers[i].to) /\ DeclaredTo(s, o, Peers[i].from)
    BY <1>5, <1>8 DEF DeclaredTo
  <2>2. c = Root(q, IpcTo(p), Peers[i].to, 0) \/ c = Root(p, IpcTo(q), Peers[i].from, 0)
    BY <1>1, <1>3, <1>8 DEF Ends
  <2> QED BY <1>4, <1>5, <1>6, <2>1, <2>2
<1> QED BY <1>2, <1>7, <1>8

(* The table after start_slot(): first the process's own, then the pairs.  *)
WiredBy(s, p, t, u) ==
  /\ SoundTable(t) /\ Grew(ct, t, OwnCaps(s, p))
  /\ u = Pass1(t, s, p) /\ SoundTable(u) /\ Grew(t, u, PairCaps(s, p))
  /\ ct' = Pass2(u, s, p) /\ SoundTable(ct') /\ Grew(u, ct', PairCaps(s, p))

LEMMA StartWires ==
  ASSUME TypeOK, SoundTable(ct), NEW s \in Names, NEW p \in Unused, svc[s].pid = 0,
         ct' = Pass2(Pass1(MintGrants(RootCap(ct, p), s, p), s, p), s, p)
  PROVE  \E t, u : WiredBy(s, p, t, u)
<1>1. PICK t : t = MintGrants(RootCap(ct, p), s, p)
  OBVIOUS
<1>2. PICK u : u = Pass1(t, s, p)
  OBVIOUS
<1>3. SoundTable(t) /\ Grew(ct, t, OwnCaps(s, p))
  BY <1>1, OwnMinted
<1>4. \A i \in Pass1Pairs(s) \cup Pass2Pairs(s) :
        /\ Of(i, s, p) # Peer(i, s, p)
        /\ Ends(Of(i, s, p), Peer(i, s, p), Peers[i].to, Peers[i].from) \subseteq PairCaps(s, p)
  BY PassEnds DEF PairCaps
<1>5. SoundTable(u) /\ Grew(t, u, PairCaps(s, p))
  BY <1>2, <1>3, <1>4, PeersShape, WireGrows DEF Pass1
<1>6. ct' = Pass2(u, s, p)
  BY <1>1, <1>2
<1>7. SoundTable(ct') /\ Grew(u, ct', PairCaps(s, p))
  BY <1>4, <1>5, <1>6, PeersShape, WireGrows DEF Pass2
<1> QED BY <1>2, <1>3, <1>5, <1>6, <1>7 DEF WiredBy

(* Another service that is up afterwards was up before.                    *)
LEMMA StillUp ==
  ASSUME TypeOK, SlotsTell, NEW s \in Names, NEW p \in Unused, StartedFacts(s, p),
         NEW o \in Names \ {s}, slot_peer_live(o)'
  PROVE  slot_peer_live(o) /\ svc[o].pid \in Pids \ Unused /\ svc[o].pid # p
<1>1. svc'[o] = svc[o]
  BY DEF StartedFacts
<1>2. PICK q : q = svc[o].pid
  OBVIOUS
<1>3. svc[o].state = "RUNNING" /\ q \in (Pids \ Unused)' /\ svc[o].generation = proc'[q].generation
  BY <1>1, <1>2 DEF slot_peer_live, Holds
<1>4. q # p
  <2> SUFFICES ASSUME q = p PROVE FALSE
    OBVIOUS
  <2>1. p \in Pids /\ q # 0
    BY <1>3, NobodyZero
  <2>2. svc[o].generation <= proc[p].generation
    BY <1>2, <2>1 DEF SlotsTell, GenerationsTell
  <2>3. svc[o].generation = proc[p].generation + 1 /\ proc[p].generation \in Nat
    BY <1>3, <2>1, TypeParts DEF StartedFacts, ProcRecords
  <2> QED BY <2>2, <2>3
<1>5. q \in Pids \ Unused /\ proc'[q] = proc[q]
  BY <1>3, <1>4 DEF StartedFacts, Unused
<1> QED BY <1>2, <1>3, <1>4, <1>5 DEF slot_peer_live, Holds

LEMMA WholeStands ==
  ASSUME NEW t, NEW n, NEW a, NEW b, NEW to, NEW from,
         Held(t, a, IpcTo(b)) = {}, Held(t, b, IpcTo(a)) = {},
         PairKept(t, n, a, b) \/ PairWhole(t, n, a, b, to, from)
  PROVE  Stands(n, a, b, to, from)
<1>1. CASE PairKept(t, n, a, b)
  BY <1>1 DEF Stands, PairKept
<1>2. CASE PairWhole(t, n, a, b, to, from)
  <2>1. ASSUME NEW x, NEW r, NEW perms, OneAdded(t, n, x, r, perms), Held(t, x, r) = {}
        PROVE  Has(Held(n, x, r), perms)
    BY <2>1 DEF OneAdded, Has
  <2>2. Has(Held(n, a, IpcTo(b)), to) /\ Has(Held(n, b, IpcTo(a)), from)
    BY <1>2, <2>1 DEF PairWhole
  <2> QED BY <2>2 DEF Stands
<1> QED BY <1>1, <1>2

LEMMA KeptStands ==
  ASSUME NEW t, NEW n, NEW a, NEW b, NEW to, NEW from, PairKept(t, n, a, b),
         Stands(t, a, b, to, from)
  PROVE  Stands(n, a, b, to, from)
  BY DEF Stands, PairKept

(* No channel leads to or from a slot of the process table nobody is in.   *)
LEMMA UnusedHoldsNone ==
  ASSUME Meant, NEW p \in Unused, NEW q
  PROVE  Held(ct, p, IpcTo(q)) = {} /\ Held(ct, q, IpcTo(p)) = {}
<1> SUFFICES ASSUME NEW s \in InUse(ct), NEW x,
                    \/ ct.cap[s].owner = p
                    \/ ct.cap[s].res = IpcTo(p)
             PROVE  FALSE
  BY DEF Held
<1>1. CapMeant(s)
  BY MeantEach
<1>2. p \notin Pids \ Unused
  OBVIOUS
<1>3. CASE ct.cap[s].owner = p
  BY <1>1, <1>2, <1>3 DEF CapMeant
<1>4. CASE ct.cap[s].res = IpcTo(p)
  BY <1>1, <1>2, <1>4 DEF CapMeant, ChannelMeant, ChannelIsMeant, IpcTo
<1> QED BY <1>3, <1>4

LEMMA PassPairsDiffer ==
  ASSUME TypeOK, SlotsTell, NEW s \in Names, NEW p \in Unused, svc[s].pid = 0,
         NEW i \in Pass1Pairs(s) \cup Pass2Pairs(s), NEW j \in Pass1Pairs(s) \cup Pass2Pairs(s),
         {Of(i, s, p), Peer(i, s, p)} = {Of(j, s, p), Peer(j, s, p)}
  PROVE  i = j
<1>1. PICK o \in Names : /\ slot_peer_live(o) /\ svc[o].pid # p
                         /\ {Of(i, s, p), Peer(i, s, p)} = {p, svc[o].pid}
                         /\ {Peers[i].of, Peers[i].peer} = {s, o}
  BY PassEnds
<1>2. PICK r \in Names : /\ slot_peer_live(r) /\ svc[r].pid # p
                         /\ {Of(j, s, p), Peer(j, s, p)} = {p, svc[r].pid}
                         /\ {Peers[j].of, Peers[j].peer} = {s, r}
  BY PassEnds
<1>3. svc[o].pid = svc[r].pid
  BY <1>1, <1>2
<1>4. o = r
  BY <1>1, <1>2, <1>3, OneHolder DEF slot_peer_live
<1>5. i \in DOMAIN Peers /\ j \in DOMAIN Peers
  BY DEF Pass1Pairs, Pass2Pairs
<1> QED BY <1>1, <1>2, <1>4, <1>5, PeersAssumption

LEMMA PairCapsTouch ==
  ASSUME TypeOK, NEW s \in Names, NEW p \in Unused, svc[s].pid = 0, NEW c \in PairCaps(s, p)
  PROVE  c.owner = p \/ c.res = IpcTo(p)
<1>1. PICK i \in Pass1Pairs(s) \cup Pass2Pairs(s) :
        c \in Ends(Of(i, s, p), Peer(i, s, p), Peers[i].to, Peers[i].from)
  BY DEF PairCaps
<1>2. Of(i, s, p) = p \/ Peer(i, s, p) = p
  BY PassEnds
<1> QED BY <1>1, <1>2 DEF Ends, Root

LEMMA StartPairs ==
  ASSUME TypeOK, SoundTable(ct), SlotsTell, Meant, PairsStand, NEW s \in Names, NEW p \in Unused,
         svc[s].pid = 0, StartedFacts(s, p), NEW t, NEW u, WiredBy(s, p, t, u),
         p \in (Pids \ Unused)', Holds(p, s)'
  PROVE  PairsStand'
<1> SUFFICES ASSUME NEW i \in DOMAIN Peers, BothLive(i)'
             PROVE  Stands(ct', svc'[Peers[i].of].pid, svc'[Peers[i].peer].pid,
                           Peers[i].to, Peers[i].from)
  BY DEF PairsStand, BothLive
<1> DEFINE P == Pass1Pairs(s) \cup Pass2Pairs(s)
<1>1. /\ Peers[i].of \in Names /\ Peers[i].peer \in Names /\ Peers[i].of # Peers[i].peer
  BY PeersShape
<1>2. \A o \in Names \ {s} : slot_peer_live(o)' =>
        slot_peer_live(o) /\ svc[o].pid \in Pids \ Unused /\ svc[o].pid # p
  BY StillUp
<1>3. /\ \A o \in Names \ {s} : svc'[o] = svc[o]
      /\ svc'[s].pid = p
  BY DEF StartedFacts
<1>4. CASE Peers[i].of # s /\ Peers[i].peer # s
  <2>1. PICK a, b : a = svc[Peers[i].of].pid /\ b = svc[Peers[i].peer].pid
    OBVIOUS
  <2>2. a # p /\ b # p /\ Stands(ct, a, b, Peers[i].to, Peers[i].from)
    BY <1>1, <1>2, <1>4, <2>1 DEF BothLive, PairsStand
  <2>3. \A c \in OwnCaps(s, p) \cup PairCaps(s, p) :
          <<c.owner, c.res>> \notin {<<a, IpcTo(b)>>, <<b, IpcTo(a)>>}
    <3>1. \A c \in OwnCaps(s, p) : c.owner = p
      BY OwnCapsMeant
    <3>2. \A c \in PairCaps(s, p) : c.owner = p \/ c.res = IpcTo(p)
      BY PairCapsTouch
    <3> QED BY <2>2, <3>1, <3>2 DEF IpcTo
  <2>4. PairKept(ct, t, a, b) /\ PairKept(t, u, a, b) /\ PairKept(u, ct', a, b)
    BY <2>3, GrowthKeeps DEF WiredBy
  <2>5. Stands(ct', a, b, Peers[i].to, Peers[i].from)
    BY <2>2, <2>4, KeptStands
  <2> QED BY <1>1, <1>3, <1>4, <2>1, <2>5
<1>5. CASE Peers[i].of = s \/ Peers[i].peer = s
  <2>1. i \in P /\ ~ (i \in Pass1Pairs(s) /\ i \in Pass2Pairs(s))
    BY <1>1, <1>2, <1>5 DEF BothLive, Pass1Pairs, Pass2Pairs
  <2>2. PICK a, b : a = Of(i, s, p) /\ b = Peer(i, s, p)
    OBVIOUS
  <2>3. a = svc'[Peers[i].of].pid /\ b = svc'[Peers[i].peer].pid
    BY <1>1, <1>3, <2>2 DEF Of, Peer, PidOf
  <2>4. a = p \/ b = p
    BY <1>3, <1>5, <2>3
  <2>5. Held(ct, a, IpcTo(b)) = {} /\ Held(ct, b, IpcTo(a)) = {}
    BY <2>4, UnusedHoldsNone
  <2>6. PairKept(ct, t, a, b)
    <3>1. \A c \in OwnCaps(s, p) : c.res[1] # "IPC"
      BY OwnCapsMeant
    <3>2. \A c \in OwnCaps(s, p) :
            <<c.owner, c.res>> \notin {<<a, IpcTo(b)>>, <<b, IpcTo(a)>>}
      BY <3>1 DEF IpcTo
    <3> QED BY <3>2, GrowthKeeps DEF WiredBy
  <2>7. \A j \in P \cap DOMAIN Peers : Of(j, s, p) # Peer(j, s, p)
    BY PassEnds
  <2>8. \A j \in P \ {i} : {Of(j, s, p), Peer(j, s, p)} # {a, b}
    BY <2>1, <2>2, PassPairsDiffer
  <2>9. ASSUME NEW Which \in SUBSET P, NEW v, SoundTable(v)
        PROVE  PassDone(v, WirePairs(v, Which, s, p), Which, i, a, b)
    <3>1. OnlyPair(Which, s, p, i, a, b)
      BY <2>2, <2>7, <2>8 DEF OnlyPair
    <3> QED BY <2>9, <3>1, PeersShape, WireOnePair
  <2>10. PassDone(t, u, Pass1Pairs(s), i, a, b) /\ PassDone(u, ct', Pass2Pairs(s), i, a, b)
    <3>1. /\ u = WirePairs(t, Pass1Pairs(s), s, p) /\ SoundTable(t)
          /\ ct' = WirePairs(u, Pass2Pairs(s), s, p) /\ SoundTable(u)
      BY DEF WiredBy, Pass1, Pass2
    <3>2. Pass1Pairs(s) \in SUBSET P /\ Pass2Pairs(s) \in SUBSET P
      OBVIOUS
    <3>3. PICK W1, W2 : W1 = Pass1Pairs(s) /\ W2 = Pass2Pairs(s)
      OBVIOUS
    <3> QED BY <2>9, <3>1, <3>2, <3>3
  <2>11. Held(t, a, IpcTo(b)) = {} /\ Held(t, b, IpcTo(a)) = {}
    BY <2>5, <2>6 DEF PairKept
  <2>12. CASE PairKept(t, u, a, b)
    <3>1. Held(u, a, IpcTo(b)) = {} /\ Held(u, b, IpcTo(a)) = {}
      BY <2>11, <2>12 DEF PairKept
    <3>2. PairKept(u, ct', a, b) \/ PairWhole(u, ct', a, b, Peers[i].to, Peers[i].from)
      BY <2>10 DEF PassDone
    <3> QED BY <2>3, <3>1, <3>2, WholeStands
  <2>13. CASE ~ PairKept(t, u, a, b)
    <3>1. PairWhole(t, u, a, b, Peers[i].to, Peers[i].from) /\ PairKept(u, ct', a, b)
      BY <2>1, <2>10, <2>13 DEF PassDone
    <3>2. Stands(u, a, b, Peers[i].to, Peers[i].from)
      BY <2>11, <3>1, WholeStands
    <3> QED BY <2>3, <3>1, <3>2, KeptStands
  <2> QED BY <2>12, <2>13
<1> QED BY <1>4, <1>5

-----------------------------------------------------------------------------
(* The steps.                                                              *)

LEMMA TypeStep ==
  ASSUME boot' \in 0 .. Len(Services) + 1,
         proc' \in [Pids -> ProcRecords], man' \in [Pids -> ManRecords],
         \A p \in Pids : Cardinality(man'[p].rows) <= MaxRows,
         TableShape(ct'), svc' \in [Names -> SvcRecords],
         \A s \in Names : svc'[s].restarts <= Def[s].max_restarts,
         mon' \in {Idle} \cup [pc : {"stop", "start"}, s : Names], now' \in Nat
  PROVE  TypeOK'
  BY DEF TypeOK, ProcRecords, ManRecords, SvcRecords

(* Once booted, the boot order no longer matters.                          *)
LEMMA BootedOrder ==
  ASSUME TypeOK, Booted, boot' = boot
  PROVE  BootOrder'
<1>1. boot' \in Nat /\ boot' > Len(Services) /\ Booted'
  BY ServicesShape DEF TypeOK, Booted
<1>2. \A i \in DOMAIN Services : ~ i > boot'
  BY <1>1, ServicesShape
<1> QED BY <1>1, <1>2 DEF BootOrder

(* While the monitor restarts a service, boot is over.                     *)
LEMMA RestartBooted ==
  ASSUME BootOrder, mon # Idle
  PROVE  Booted
  BY DEF BootOrder

LEMMA GenerationsKept ==
  ASSUME TypeOK, GenerationsTell,
         \A s \in Names : \/ svc'[s].pid = 0
                          \/ /\ svc'[s].pid = svc[s].pid
                             /\ svc'[s].generation = svc[s].generation,
         \A q \in Pids : /\ proc'[q].generation \in Nat
                         /\ proc'[q].generation >= proc[q].generation
  PROVE  GenerationsTell'
<1>1. ASSUME NEW s \in Names, svc'[s].pid # 0
      PROVE  svc'[s].generation <= proc'[svc'[s].pid].generation
  <2>1. PICK q : q = svc[s].pid
    OBVIOUS
  <2>2. /\ svc'[s].pid = q /\ svc'[s].generation = svc[s].generation
        /\ q \in Pids /\ svc[s].generation \in Nat /\ proc[q].generation \in Nat
    BY <1>1, <2>1, TypeParts DEF SvcRecords, ProcRecords
  <2>3. svc[s].generation <= proc[q].generation
    BY <1>1, <2>1, <2>2 DEF GenerationsTell
  <2>4. proc'[q].generation \in Nat /\ proc'[q].generation >= proc[q].generation
    BY <2>2
  <2> QED BY <2>2, <2>3, <2>4
<1>2. ASSUME NEW a \in Names, NEW b \in Names, svc'[a].pid # 0, svc'[a].pid = svc'[b].pid,
             svc'[a].generation = svc'[b].generation
      PROVE  a = b
  BY <1>2 DEF GenerationsTell
<1> QED BY <1>1, <1>2 DEF GenerationsTell

(* A step that leaves the table and the manifests alone.                   *)
LEMMA QuietStep ==
  ASSUME Authority, ct' = ct, man' = man, Spares({}),
         \A i \in DOMAIN Peers : BothLive(i)' => BothLive(i) /\ SamePids(i)
  PROVE  Authority'
<1>1. SoundTable(ct) /\ SoundTable(ct') /\ Meant /\ PairsStand /\ IntentCoversAuthority
      /\ RowsFinite
  BY DEF Authority
<1>2. Grew(ct, ct', {})
  BY GrewSame
<1>3. Meant'
  BY <1>1, <1>2, GrowthMeant
<1>4. PairsStand'
  <2>1. \A a, b : PairKept(ct, ct', a, b)
    BY DEF PairKept
  <2> QED BY <1>1, <2>1, PairsKept
<1>5. IntentCoversAuthority'
  BY <1>1, <1>2, GrowthCovered
<1>6. RowsFinite'
  BY <1>1 DEF RowsFinite
<1> QED BY <1>1, <1>3, <1>4, <1>5, <1>6 DEF Authority

(* The destruction of the processes in dead, with the slots of services[]  *)
(* that named them.                                                        *)
LEMMA DestroyStep ==
  ASSUME TypeOK, Authority, NEW dead \in SUBSET Pids, Destroyed(dead), Spares(dead),
         \A i \in DOMAIN Peers : BothLive(i)' =>
           /\ BothLive(i) /\ SamePids(i)
           /\ svc[Peers[i].of].pid \notin dead /\ svc[Peers[i].peer].pid \notin dead
  PROVE  Authority'
<1>1. SoundTable(ct) /\ Meant /\ PairsStand /\ IntentCoversAuthority /\ RowsFinite
  BY DEF Authority
<1>2. Swept(ct, ct', dead) /\ SoundTable(ct')
  BY DEF Destroyed, Swept
<1>3. Meant'
  BY <1>1, <1>2, SweepMeant
<1>4. PairsStand'
  <2>1. \A s \in InUse(ct) : ct.cap[s].res[1] = "IPC" => s \notin Derived(ct)
    BY <1>1, NoDerivedChannels
  <2>2. \A a, b : a \notin dead /\ b \notin dead => PairKept(ct, ct', a, b)
    <3>1. PICK n : n = ct'
      OBVIOUS
    <3>2. Swept(ct, n, dead)
      BY <1>2, <3>1
    <3>3. ASSUME NEW a, NEW b, a \notin dead, b \notin dead PROVE PairKept(ct, n, a, b)
      BY <2>1, <3>2, <3>3, SweepKeeps
    <3> QED BY <3>1, <3>3
  <2> QED BY <1>1, <2>2, PairsKept
<1>5. IntentCoversAuthority'
  BY <1>1, <1>2, SweepCovered DEF Destroyed
<1>6. RowsFinite'
  <2>1. ASSUME NEW q \in Pids PROVE IsFiniteSet(man'[q].rows)
    <3>1. CASE q \in dead
      BY <3>1, FS_EmptySet DEF Destroyed
    <3>2. CASE q \notin dead
      BY <1>1, <3>2 DEF Destroyed, RowsFinite
    <3> QED BY <3>1, <3>2
  <2> QED BY <2>1 DEF RowsFinite
<1> QED BY <1>2, <1>3, <1>4, <1>5, <1>6 DEF Authority

LEMMA TypeFacts ==
  ASSUME TypeOK
  PROVE  /\ boot \in 0 .. Len(Services) + 1 /\ now \in Nat
         /\ proc \in [Pids -> ProcRecords] /\ man \in [Pids -> ManRecords]
         /\ \A p \in Pids : Cardinality(man[p].rows) <= MaxRows
         /\ TableShape(ct) /\ svc \in [Names -> SvcRecords]
         /\ \A s \in Names : svc[s].restarts <= Def[s].max_restarts
         /\ mon \in {Idle} \cup [pc : {"stop", "start"}, s : Names]
  BY DEF TypeOK, ProcRecords, ManRecords, SvcRecords

(* A step that changes neither pids nor generations.                       *)
LEMMA SlotsKept ==
  ASSUME TypeOK, SlotsTell, Booted, boot' = boot, mon' = mon,
         \A s \in Names : svc'[s].pid = svc[s].pid /\ svc'[s].generation = svc[s].generation,
         \A q \in Pids : /\ proc'[q].generation \in Nat
                         /\ proc'[q].generation >= proc[q].generation
  PROVE  SlotsTell'
<1>1. GenerationsTell'
  BY GenerationsKept DEF SlotsTell
<1>2. BootOrder'
  BY BootedOrder
<1>3. RestartsAreEmpty'
  <2> SUFFICES ASSUME mon.pc = "start" PROVE svc'[mon.s].pid = 0
    BY DEF RestartsAreEmpty
  <2>1. mon.s \in Names /\ svc[mon.s].pid = 0
    BY TypeFacts DEF SlotsTell, RestartsAreEmpty, Idle
  <2> QED BY <2>1
<1> QED BY <1>1, <1>2, <1>3 DEF SlotsTell

LEMMA ExitStep ==
  ASSUME AuthorityInv, NEW p \in Pids, Exit(p)
  PROVE  AuthorityInv'
<1>1. TypeOK /\ SlotsTell /\ Authority
  BY DEF AuthorityInv
<1>2. /\ proc' = [proc EXCEPT ![p].state = "TERMINATED"]
      /\ boot' = boot /\ man' = man /\ ct' = ct /\ svc' = svc /\ mon' = mon /\ now' = now
      /\ Booted /\ proc[p].state = "LIVE"
  BY DEF Exit, Live
<1>3. PICK r : r = [proc[p] EXCEPT !.state = "TERMINATED"]
  OBVIOUS
<1>4. /\ proc \in [Pids -> ProcRecords] /\ r \in ProcRecords
      /\ r.state = "TERMINATED" /\ r.generation = proc[p].generation
      /\ r.spawner = proc[p].spawner
  <2>1. proc[p] \in ProcRecords
    BY <1>1, TypeFacts
  <2> QED BY <1>1, <1>3, <2>1, TypeFacts DEF ProcRecords
<1>5. /\ proc' \in [Pids -> ProcRecords] /\ proc'[p] = r
      /\ \A q \in Pids \ {p} : proc'[q] = proc[q]
  BY <1>2, <1>3, <1>4
<1>6. TypeOK'
  BY <1>1, <1>2, <1>5, TypeFacts, TypeStep
<1>7. \A q \in Pids : /\ proc'[q].generation = proc[q].generation
                      /\ proc'[q].spawner = proc[q].spawner /\ proc[q].generation \in Nat
                      /\ proc'[q].state = "UNUSED" <=> proc[q].state = "UNUSED"
  BY <1>2, <1>4, <1>5 DEF ProcRecords
<1>8. SlotsTell'
  BY <1>1, <1>2, <1>7, SlotsKept
<1>9. Spares({})
  BY <1>2, <1>7 DEF Spares, Unused, Holds
<1>10. \A i \in DOMAIN Peers : BothLive(i)' => BothLive(i) /\ SamePids(i)
  BY <1>2, <1>7 DEF BothLive, SamePids, slot_peer_live, Holds, Unused
<1>11. Authority'
  BY <1>1, <1>2, <1>9, <1>10, QuietStep
<1> QED BY <1>6, <1>8, <1>11 DEF AuthorityInv

LEMMA TripStep ==
  ASSUME AuthorityInv, NEW s \in Names, Trip(s)
  PROVE  AuthorityInv'
<1>1. TypeOK /\ SlotsTell /\ Authority
  BY DEF AuthorityInv
<1>2. /\ svc' = [svc EXCEPT ![s].state = "CRASHED"] /\ mon' = [pc |-> "stop", s |-> s]
      /\ boot' = boot /\ proc' = proc /\ man' = man /\ ct' = ct /\ now' = now
      /\ Booted
  BY DEF Trip
<1>3. PICK r : r = [svc[s] EXCEPT !.state = "CRASHED"]
  OBVIOUS
<1>4. /\ svc \in [Names -> SvcRecords] /\ r \in SvcRecords /\ r.state = "CRASHED"
      /\ r.pid = svc[s].pid /\ r.generation = svc[s].generation /\ r.restarts = svc[s].restarts
  <2>1. svc[s] \in SvcRecords
    BY <1>1, TypeFacts
  <2> QED BY <1>1, <1>3, <2>1, TypeFacts DEF SvcRecords
<1>5. /\ svc' \in [Names -> SvcRecords] /\ svc'[s] = r
      /\ \A o \in Names \ {s} : svc'[o] = svc[o]
  BY <1>2, <1>3, <1>4
<1>6. /\ \A o \in Names : /\ svc'[o].pid = svc[o].pid /\ svc'[o].generation = svc[o].generation
                          /\ svc'[o].restarts = svc[o].restarts
                          /\ svc'[o].state = "RUNNING" => svc[o].state = "RUNNING"
  BY <1>4, <1>5
<1>7. TypeOK'
  BY <1>1, <1>2, <1>5, <1>6, TypeFacts, TypeStep
<1>8. SlotsTell'
  <2>1. GenerationsTell'
    BY <1>1, <1>2, <1>6, TypeFacts, GenerationsKept DEF SlotsTell, ProcRecords
  <2> QED BY <1>1, <1>2, <2>1, BootedOrder DEF SlotsTell, RestartsAreEmpty
<1>9. Spares({})
  BY <1>2, <1>6 DEF Spares, Unused, Holds
<1>10. \A i \in DOMAIN Peers : BothLive(i)' => BothLive(i) /\ SamePids(i)
  <2>1. \A o \in Names : slot_peer_live(o)' => slot_peer_live(o)
    BY <1>2, <1>6 DEF slot_peer_live, Holds, Unused
  <2> QED BY <1>6, <2>1, PeersShape DEF BothLive, SamePids
<1>11. Authority'
  BY <1>1, <1>2, <1>9, <1>10, QuietStep
<1> QED BY <1>7, <1>8, <1>11 DEF AuthorityInv

LEMMA TickStep ==
  ASSUME AuthorityInv, Tick
  PROVE  AuthorityInv'
<1>1. TypeOK /\ SlotsTell /\ Authority
  BY DEF AuthorityInv
<1>2. /\ boot' = boot /\ proc' = proc /\ man' = man /\ ct' = ct /\ svc' = svc /\ mon' = mon
      /\ now' \in Nat /\ Booted
  BY <1>1, TypeFacts DEF Tick
<1>3. TypeOK'
  BY <1>1, <1>2, TypeFacts, TypeStep
<1>4. SlotsTell'
  BY <1>1, <1>2, TypeFacts, SlotsKept DEF ProcRecords
<1>5. Spares({})
  BY <1>2 DEF Spares, Unused, Holds
<1>6. \A i \in DOMAIN Peers : BothLive(i)' => BothLive(i) /\ SamePids(i)
  BY <1>2 DEF BothLive, SamePids, slot_peer_live, Holds, Unused
<1>7. Authority'
  BY <1>1, <1>2, <1>5, <1>6, QuietStep
<1> QED BY <1>3, <1>4, <1>7 DEF AuthorityInv

LEMMA ReapStep ==
  ASSUME AuthorityInv, Reap
  PROVE  AuthorityInv'
<1>1. TypeOK /\ SlotsTell /\ Authority
  BY DEF AuthorityInv
<1>2. PICK dead : dead = Terminated
  OBVIOUS
<1>3. dead \in SUBSET Pids
  BY <1>2 DEF Terminated
<1>4. Destroyed(dead)
  <2>1. TableOK
    BY <1>1 DEF TableOK, Authority
  <2> QED BY <1>2, <1>3, <2>1, DestroyFacts DEF Reap
<1>5. boot' = boot /\ svc' = svc /\ mon' = mon /\ now' = now /\ Booted
  BY DEF Reap
<1>6. /\ proc' \in [Pids -> ProcRecords] /\ man' \in [Pids -> ManRecords]
      /\ \A p \in Pids : Cardinality(man'[p].rows) <= MaxRows
      /\ \A p \in Pids : proc'[p].generation = proc[p].generation
      /\ \A p \in Pids \ dead : proc'[p] = proc[p]
      /\ \A p \in dead : proc'[p].state = "UNUSED"
      /\ TableShape(ct')
  BY <1>4 DEF Destroyed, Swept, SoundTable
<1>7. TypeOK'
  BY <1>1, <1>5, <1>6, TypeFacts, TypeStep
<1>8. SlotsTell'
  BY <1>1, <1>5, <1>6, TypeFacts, SlotsKept DEF ProcRecords
<1>9. Spares(dead)
  BY <1>5, <1>6 DEF Spares, Unused, Holds
<1>10. ASSUME NEW o \in Names, slot_peer_live(o)' PROVE slot_peer_live(o) /\ svc[o].pid \notin dead
  BY <1>5, <1>6, <1>10 DEF slot_peer_live, Holds, Unused
<1>11. Authority'
  <2>1. \A i \in DOMAIN Peers : BothLive(i)' =>
           /\ BothLive(i) /\ SamePids(i)
           /\ svc[Peers[i].of].pid \notin dead /\ svc[Peers[i].peer].pid \notin dead
    BY <1>5, <1>10, PeersShape DEF BothLive, SamePids
  <2> QED BY <1>1, <1>3, <1>4, <1>9, <2>1, DestroyStep
<1> QED BY <1>7, <1>8, <1>11 DEF AuthorityInv

LEMMA StopStep ==
  ASSUME AuthorityInv, NEW s \in Names, Stop(s)
  PROVE  AuthorityInv'
<1>1. TypeOK /\ SlotsTell /\ Authority
  BY DEF AuthorityInv
<1>2. PICK dead : dead = Retired(s)
  OBVIOUS
<1>3. /\ dead \in SUBSET Pids
      /\ \A q : q \in dead <=> q = svc[s].pid /\ Holds(q, s)
  BY <1>2 DEF Retired, Holds
<1>4. Destroyed(dead)
  <2>1. TableOK
    BY <1>1 DEF TableOK, Authority
  <2> QED BY <1>2, <1>3, <2>1, DestroyFacts DEF Stop
<1>5. boot' = boot /\ now' = now /\ Booted
  BY <1>1, RestartBooted DEF Stop, SlotsTell, Idle
<1>6. /\ proc' \in [Pids -> ProcRecords] /\ man' \in [Pids -> ManRecords]
      /\ \A p \in Pids : Cardinality(man'[p].rows) <= MaxRows
      /\ \A p \in Pids : proc'[p].generation = proc[p].generation
      /\ \A p \in Pids \ dead : proc'[p] = proc[p]
      /\ \A p \in dead : proc'[p].state = "UNUSED"
      /\ TableShape(ct')
  BY <1>4 DEF Destroyed, Swept, SoundTable
<1>7. PICK r \in SvcRecords :
        /\ svc' = [svc EXCEPT ![s] = r]
        /\ r.state = "STOPPED" /\ r.pid = 0 /\ r.restarts <= Def[s].max_restarts
  <2>1. svc[s] \in SvcRecords /\ svc \in [Names -> SvcRecords]
        /\ svc[s].restarts <= Def[s].max_restarts /\ Def[s].max_restarts \in Nat
    BY <1>1, TypeFacts, DefAssumption
  <2>2. CASE BudgetSpent(s) /\ svc' = [svc EXCEPT ![s].state = "STOPPED", ![s].pid = 0]
    <3>1. PICK r : r = [svc[s] EXCEPT !.state = "STOPPED", !.pid = 0]
      OBVIOUS
    <3>2. /\ r \in SvcRecords /\ r.state = "STOPPED" /\ r.pid = 0
          /\ r.restarts = svc[s].restarts
      BY <2>1, <3>1 DEF SvcRecords
    <3>3. svc' = [svc EXCEPT ![s] = r]
      BY <2>1, <2>2, <3>1
    <3> QED BY <2>1, <3>2, <3>3
  <2>3. CASE ~ BudgetSpent(s) /\ svc' = [svc EXCEPT ![s].state = "STOPPED", ![s].pid = 0,
                                                   ![s].restarts = @ + 1]
    <3>1. svc[s].restarts \in Nat
      BY <2>1 DEF SvcRecords
    <3>2. PICK k \in Nat : k = svc[s].restarts + 1
      BY <3>1
    <3>3. PICK r : r = [svc[s] EXCEPT !.state = "STOPPED", !.pid = 0, !.restarts = k]
      OBVIOUS
    <3>4. /\ r \in SvcRecords /\ r.state = "STOPPED" /\ r.pid = 0 /\ r.restarts = k
      BY <2>1, <3>3 DEF SvcRecords
    <3>5. svc' = [svc EXCEPT ![s] = r]
      BY <2>1, <2>3, <3>2, <3>3
    <3>6. k <= Def[s].max_restarts
      BY <2>1, <2>3, <3>1, <3>2 DEF BudgetSpent
    <3> QED BY <3>4, <3>5, <3>6
  <2> QED BY <2>2, <2>3 DEF Stop
<1>8. /\ svc' \in [Names -> SvcRecords] /\ svc'[s] = r
      /\ \A o \in Names \ {s} : svc'[o] = svc[o]
  BY <1>1, <1>7, TypeFacts
<1>9. mon' = Idle \/ mon' = [pc |-> "start", s |-> s]
  BY DEF Stop
<1>10. TypeOK'
  <2>1. mon' \in {Idle} \cup [pc : {"stop", "start"}, s : Names]
    BY <1>9
  <2>2. \A o \in Names : svc'[o].restarts <= Def[o].max_restarts
    BY <1>1, <1>7, <1>8, TypeFacts
  <2> QED BY <1>1, <1>5, <1>6, <1>8, <2>1, <2>2, TypeFacts, TypeStep
<1>11. SlotsTell'
  <2>1. GenerationsTell'
    <3>1. \A q \in Pids : proc'[q].generation \in Nat /\ proc'[q].generation >= proc[q].generation
      BY <1>6 DEF ProcRecords
    <3>2. \A o \in Names : \/ svc'[o].pid = 0
                           \/ /\ svc'[o].pid = svc[o].pid
                              /\ svc'[o].generation = svc[o].generation
      BY <1>7, <1>8
    <3> QED BY <1>1, <3>1, <3>2, GenerationsKept DEF SlotsTell
  <2>2. RestartsAreEmpty'
    BY <1>7, <1>8, <1>9 DEF RestartsAreEmpty, Idle
  <2> QED BY <1>1, <1>5, <2>1, <2>2, BootedOrder DEF SlotsTell
<1>12. Spares(dead)
  <2>1. ASSUME NEW q \in (Pids \ Unused) \ dead, NEW o \in Names, Holds(q, o)
        PROVE  svc'[o].pid = q /\ svc'[o].generation = svc[o].generation
    BY <1>3, <1>8, <2>1 DEF Holds
  <2>2. \A q \in (Pids \ Unused) \ dead : proc'[q] = proc[q] /\ proc[q].state # "UNUSED"
    BY <1>6 DEF Unused
  <2> QED BY <2>1, <2>2 DEF Spares
<1>13. ASSUME NEW o \in Names, slot_peer_live(o)'
       PROVE  /\ slot_peer_live(o) /\ svc[o].pid \notin dead /\ svc'[o].pid = svc[o].pid
  <2>1. o # s
    BY <1>7, <1>8, <1>13 DEF slot_peer_live
  <2>2. svc'[o] = svc[o]
    BY <1>8, <2>1
  <2> QED BY <1>6, <1>13, <2>2 DEF slot_peer_live, Holds, Unused
<1>14. Authority'
  <2>1. \A i \in DOMAIN Peers : BothLive(i)' =>
           /\ BothLive(i) /\ SamePids(i)
           /\ svc[Peers[i].of].pid \notin dead /\ svc[Peers[i].peer].pid \notin dead
    BY <1>13, PeersShape DEF BothLive, SamePids
  <2> QED BY <1>1, <1>3, <1>4, <1>12, <2>1, DestroyStep
<1> QED BY <1>10, <1>11, <1>14 DEF AuthorityInv

(* start_slot(), apart from who called it.                                 *)
LEMMA StartKeeps ==
  ASSUME AuthorityInv, NEW s \in Names, StartCommit(s), svc[s].pid = 0
  PROVE  /\ \E p \in Unused : StartedFacts(s, p) /\ Spares({}) /\ Holds(p, s)'
         /\ Authority' /\ GenerationsTell'
         /\ \A p \in Pids : Cardinality(man'[p].rows) <= MaxRows
<1>1. TypeOK /\ SlotsTell /\ Authority
  BY DEF AuthorityInv
<1>2. RowsFinite /\ SoundTable(ct) /\ Meant /\ PairsStand /\ IntentCoversAuthority
  BY <1>1 DEF Authority
<1>3. PICK p \in Unused :
        /\ Started(s, p)
        /\ ct' = Pass2(Pass1(MintGrants(RootCap(ct, p), s, p), s, p), s, p)
  BY StartIs
<1>4. StartedFacts(s, p)
  BY <1>1, <1>3, StartedHas
<1>5. Spares({}) /\ p \in (Pids \ Unused)' /\ Holds(p, s)'
  BY <1>1, <1>4, StartSpares
<1>6. PICK t, u : WiredBy(s, p, t, u)
  BY <1>1, <1>2, <1>3, StartWires
<1> DEFINE N == OwnCaps(s, p) \cup PairCaps(s, p)
<1>7. SoundTable(ct') /\ Grew(ct, ct', N)
  <2>1. PICK n : n = ct'
    OBVIOUS
  <2>2. Grew(ct, t, N) /\ Grew(t, u, N) /\ Grew(u, n, N)
    BY <1>6, <2>1, GrewMore DEF WiredBy
  <2>3. Grew(ct, n, N)
    BY <2>2, GrewTwice
  <2> QED BY <1>6, <2>1, <2>3 DEF WiredBy
<1>8. \A c \in N : c.parent = CAP_ID_INVALID /\ RootMeant(c)' /\ Covered(c)'
  BY <1>1, <1>4, <1>5, OwnCapsMeant, PairCapsMeant
<1> HIDE DEF N
<1>9. Meant'
  BY <1>2, <1>5, <1>7, <1>8, GrowthMeant
<1>10. PairsStand'
  BY <1>1, <1>2, <1>4, <1>5, <1>6, StartPairs
<1>11. \A q \in Pids : q # p => man'[q] = man[q]
  BY <1>4 DEF StartedFacts
<1>12. IntentCoversAuthority'
  <2>1. \A q \in Pids \ Unused : man[q].rows \subseteq man'[q].rows
    BY <1>11
  <2> QED BY <1>2, <1>7, <1>8, <2>1, GrowthCovered
<1>13. RowsFinite' /\ \A q \in Pids : Cardinality(man'[q].rows) <= MaxRows
  <2>1. /\ man'[p] = GrantManifest(s) /\ IsFiniteSet(GrantManifest(s).rows)
        /\ Cardinality(GrantManifest(s).rows) <= MaxRows
    BY <1>4, DeclaredRows DEF StartedFacts
  <2>2. \A q \in Pids : IsFiniteSet(man'[q].rows) /\ Cardinality(man'[q].rows) <= MaxRows
    BY <1>1, <1>2, <1>11, <2>1, TypeFacts DEF RowsFinite
  <2> QED BY <2>2 DEF RowsFinite
<1>14. GenerationsTell'
  <2>1. /\ p \in Pids /\ p # 0 /\ proc[p].generation \in Nat
        /\ \A o \in Names \ {s} : svc'[o] = svc[o] /\ svc[o].generation \in Nat
                                  /\ svc[o].pid \in {0} \cup Pids
        /\ \A q \in Pids : proc[q].generation \in Nat
    BY <1>1, <1>4, TypeFacts, NobodyZero DEF StartedFacts, Unused, ProcRecords, SvcRecords
  <2>2. /\ proc'[p].generation = proc[p].generation + 1 /\ svc'[s].pid = p
        /\ svc'[s].generation = proc[p].generation + 1
        /\ \A q \in Pids \ {p} : proc'[q] = proc[q]
    BY <1>4 DEF StartedFacts
  <2>3. ASSUME NEW o \in Names \ {s}, svc[o].pid # 0
        PROVE  /\ svc[o].generation <= proc[svc[o].pid].generation
               /\ svc[o].pid = p => svc[o].generation < proc[p].generation + 1
               /\ svc[o].generation <= proc'[svc[o].pid].generation
    <3>1. svc[o].generation <= proc[svc[o].pid].generation
      BY <1>1, <2>3 DEF SlotsTell, GenerationsTell
    <3>2. svc[o].pid \in Pids
      BY <2>1, <2>3
    <3> QED BY <2>1, <2>2, <3>1, <3>2
  <2>4. ASSUME NEW o \in Names, svc'[o].pid # 0
        PROVE  svc'[o].generation <= proc'[svc'[o].pid].generation
    BY <2>1, <2>2, <2>3, <2>4
  <2>5. ASSUME NEW a \in Names, NEW b \in Names, svc'[a].pid # 0, svc'[a].pid = svc'[b].pid,
               svc'[a].generation = svc'[b].generation
        PROVE  a = b
    <3>1. CASE a # s /\ b # s
      BY <1>1, <2>1, <2>5, <3>1 DEF SlotsTell, GenerationsTell
    <3>2. CASE a = s /\ b # s
      <4>1. svc[b].pid = p /\ svc[b].generation = proc[p].generation + 1
        BY <2>1, <2>2, <2>5, <3>2
      <4> QED BY <2>1, <2>3, <3>2, <4>1
    <3>3. CASE a # s /\ b = s
      <4>1. svc[a].pid = p /\ svc[a].generation = proc[p].generation + 1
        BY <2>1, <2>2, <2>5, <3>3
      <4> QED BY <2>1, <2>3, <3>3, <4>1
    <3> QED BY <3>1, <3>2, <3>3
  <2> QED BY <2>4, <2>5 DEF GenerationsTell
<1>15. Authority'
  BY <1>7, <1>9, <1>10, <1>12, <1>13 DEF Authority
<1> QED BY <1>4, <1>5, <1>13, <1>14, <1>15

LEMMA RestartStep ==
  ASSUME AuthorityInv, NEW s \in Names, Restart(s)
  PROVE  AuthorityInv'
<1>1. TypeOK /\ SlotsTell /\ Authority
  BY DEF AuthorityInv
<1>2. /\ mon.pc = "start" /\ mon.s = s /\ mon # Idle
      /\ mon' = Idle /\ boot' = boot /\ now' = now
  BY DEF Restart, Idle
<1>3. svc[s].pid = 0 /\ Booted
  BY <1>1, <1>2, RestartBooted DEF SlotsTell, RestartsAreEmpty
<1>4. RestartsAreEmpty' /\ BootOrder'
  BY <1>1, <1>2, <1>3, BootedOrder DEF RestartsAreEmpty, Idle
<1>5. mon' \in {Idle} \cup [pc : {"stop", "start"}, s : Names]
  BY <1>2
<1>6. CASE StartCommit(s)
  <2>1. PICK p \in Unused : StartedFacts(s, p)
    BY <1>3, <1>6, StartKeeps
  <2>2. /\ Authority' /\ GenerationsTell'
        /\ \A q \in Pids : Cardinality(man'[q].rows) <= MaxRows
    BY <1>3, <1>6, StartKeeps
  <2>3. TableShape(ct')
    BY <2>2 DEF Authority, SoundTable
  <2>4. \A o \in Names : svc'[o].restarts <= Def[o].max_restarts
    BY <1>1, <2>1, TypeFacts DEF StartedFacts
  <2>5. TypeOK'
    BY <1>1, <1>2, <1>5, <2>1, <2>2, <2>3, <2>4, TypeFacts, TypeStep DEF StartedFacts
  <2> QED BY <1>4, <2>2, <2>5 DEF AuthorityInv, SlotsTell
<1>7. CASE StartFails(s)
  <2>1. /\ svc' = [svc EXCEPT ![s].state = "CRASHED"]
        /\ proc' = proc /\ man' = man /\ ct' = ct
    BY <1>7 DEF StartFails
  <2>2. PICK r : r = [svc[s] EXCEPT !.state = "CRASHED"]
    OBVIOUS
  <2>3. /\ svc \in [Names -> SvcRecords] /\ r \in SvcRecords /\ r.state = "CRASHED"
        /\ r.pid = svc[s].pid /\ r.generation = svc[s].generation
        /\ r.restarts = svc[s].restarts
    <3>1. svc[s] \in SvcRecords
      BY <1>1, TypeFacts
    <3> QED BY <1>1, <2>2, <3>1, TypeFacts DEF SvcRecords
  <2>4. /\ svc' \in [Names -> SvcRecords] /\ svc'[s] = r
        /\ \A o \in Names \ {s} : svc'[o] = svc[o]
    BY <2>1, <2>2, <2>3
  <2>5. \A o \in Names : /\ svc'[o].pid = svc[o].pid /\ svc'[o].generation = svc[o].generation
                         /\ svc'[o].restarts = svc[o].restarts
                         /\ svc'[o].state = "RUNNING" => svc[o].state = "RUNNING"
    BY <2>3, <2>4
  <2>6. TypeOK'
    BY <1>1, <1>2, <1>5, <2>1, <2>4, <2>5, TypeFacts, TypeStep
  <2>7. GenerationsTell'
    BY <1>1, <2>1, <2>5, TypeFacts, GenerationsKept DEF SlotsTell, ProcRecords
  <2>8. Spares({})
    BY <2>1, <2>5 DEF Spares, Unused, Holds
  <2>9. \A i \in DOMAIN Peers : BothLive(i)' => BothLive(i) /\ SamePids(i)
    <3>1. \A o \in Names : slot_peer_live(o)' => slot_peer_live(o)
      BY <2>1, <2>5 DEF slot_peer_live, Holds, Unused
    <3> QED BY <2>5, <3>1, PeersShape DEF BothLive, SamePids
  <2>10. Authority'
    BY <1>1, <2>1, <2>8, <2>9, QuietStep
  <2> QED BY <1>4, <2>6, <2>7, <2>10 DEF AuthorityInv, SlotsTell
<1> QED BY <1>6, <1>7 DEF Restart

LEMMA BootStartStep ==
  ASSUME AuthorityInv, BootStart
  PROVE  AuthorityInv'
<1>1. TypeOK /\ SlotsTell /\ Authority
  BY DEF AuthorityInv
<1>2. PICK k \in Nat : k = Len(Services)
  BY ServicesShape
<1>3. boot \in Nat /\ boot < k /\ boot' = boot + 1 /\ mon' = mon /\ now' = now
  BY <1>1, <1>2, TypeFacts DEF BootStart
<1>4. boot + 1 \in 1 .. k /\ boot + 1 \in DOMAIN Services
  BY <1>2, <1>3, ServicesShape
<1>5. PICK s \in Names : s = Services[boot + 1]
  BY <1>2, <1>4, ServicesShape
<1>6. StartCommit(s)
  BY <1>5 DEF BootStart
<1>7. svc[s].pid = 0 /\ ~ Booted /\ mon = Idle
  BY <1>1, <1>2, <1>3, <1>4, <1>5 DEF SlotsTell, BootOrder, Booted
<1>8. PICK p \in Unused : StartedFacts(s, p) /\ Spares({}) /\ Holds(p, s)'
  BY <1>6, <1>7, StartKeeps
<1>9. /\ Authority' /\ GenerationsTell'
      /\ \A q \in Pids : Cardinality(man'[q].rows) <= MaxRows
  BY <1>6, <1>7, StartKeeps
<1>10. TypeOK'
  <2>1. TableShape(ct')
    BY <1>9 DEF Authority, SoundTable
  <2>2. \A o \in Names : svc'[o].restarts <= Def[o].max_restarts
    BY <1>1, <1>8, TypeFacts DEF StartedFacts
  <2>3. boot' \in 0 .. Len(Services) + 1
    BY <1>2, <1>3
  <2> QED BY <1>1, <1>3, <1>8, <1>9, <2>1, <2>2, <2>3, TypeFacts, TypeStep DEF StartedFacts
<1>11. RestartsAreEmpty'
  BY <1>3, <1>7 DEF RestartsAreEmpty, Idle
<1>12. BootOrder'
  <2>1. ASSUME NEW i \in DOMAIN Services, i > boot' PROVE svc'[Services[i]].pid = 0
    <3>1. i \in 1 .. k /\ i > boot /\ i # boot + 1
      BY <1>2, <1>3, <2>1, ServicesShape
    <3>2. Services[i] \in Names \ {s} /\ svc[Services[i]].pid = 0
      BY <1>1, <1>2, <1>4, <1>5, <2>1, <3>1, ServicesShape, ServicesAssumption
         DEF SlotsTell, BootOrder
    <3> QED BY <1>8, <3>2 DEF StartedFacts
  <2>2. ASSUME NEW i \in DOMAIN Services, i <= boot'
        PROVE  Holds(svc[Services[i]].pid, Services[i])'
    <3>1. CASE i = boot + 1
      BY <1>5, <1>8, <3>1 DEF StartedFacts
    <3>2. CASE i # boot + 1
      <4>1. i \in 1 .. k /\ i <= boot
        BY <1>2, <1>3, <2>2, <3>2, ServicesShape
      <4>2. PICK o \in Names : o = Services[i]
        BY <1>2, <4>1, ServicesShape
      <4>3. Holds(svc[o].pid, o)
        BY <1>1, <1>7, <4>1, <4>2 DEF SlotsTell, BootOrder
      <4>4. PICK q : q = svc[o].pid
        OBVIOUS
      <4>5. Holds(q, o)' /\ svc'[o].pid = q
        BY <1>8, <4>3, <4>4, SparedHold DEF Spares, Holds
      <4> QED BY <4>2, <4>5
    <3> QED BY <3>1, <3>2
  <2> QED BY <1>3, <1>7, <2>1, <2>2 DEF BootOrder
<1> QED BY <1>9, <1>10, <1>11, <1>12 DEF AuthorityInv, SlotsTell

LEMMA HandWiredShape ==
  /\ Len(HandWired) \in Nat /\ DOMAIN HandWired = 1 .. Len(HandWired)
  /\ \A i \in DOMAIN HandWired : HandWired[i] \in Range(HandWired)
  /\ \A w \in Range(HandWired) : w[1] \in Names /\ w[2] \in Names /\ w = <<w[1], w[2]>>
<1>1. HandWired \in Seq(Names \X Names)
  BY PeersAssumption
<1>2. /\ Len(HandWired) \in Nat /\ DOMAIN HandWired = 1 .. Len(HandWired)
      /\ \A i \in 1 .. Len(HandWired) : HandWired[i] \in Names \X Names
  BY <1>1
<1>3. \A i \in DOMAIN HandWired : HandWired[i] \in Range(HandWired)
  BY DEF Range
<1>4. Range(HandWired) \subseteq Names \X Names
  BY <1>2 DEF Range
<1> QED BY <1>2, <1>3, <1>4

LEMMA BootWireStep ==
  ASSUME AuthorityInv, BootWire
  PROVE  AuthorityInv'
<1>1. TypeOK /\ SlotsTell /\ Authority
  BY DEF AuthorityInv
<1>2. RowsFinite /\ SoundTable(ct) /\ Meant /\ PairsStand /\ IntentCoversAuthority
  BY <1>1 DEF Authority
<1>3. PICK k \in Nat : k = Len(Services) /\ boot = k /\ boot' = k + 1
  BY ServicesShape DEF BootWire
<1>4. proc' = proc /\ man' = man /\ svc' = svc /\ mon' = mon /\ now' = now
  BY DEF BootWire
<1>5. mon = Idle /\ \A s \in Names : Holds(svc[s].pid, s)
  <2>1. ~ Booted
    BY <1>3 DEF Booted
  <2>2. \A i \in 1 .. k : Holds(svc[Services[i]].pid, Services[i])
    BY <1>1, <1>3, <2>1, ServicesShape DEF SlotsTell, BootOrder
  <2> QED BY <1>1, <1>3, <2>1, <2>2, ServicesShape DEF SlotsTell, BootOrder
<1> DEFINE N == {Root(svc[w[1]].pid, IpcTo(svc[w[2]].pid), RW, 0) : w \in Range(HandWired)}
<1>6. SoundTable(ct') /\ Grew(ct, ct', N)
  <2>1. PICK roots : roots = [i \in DOMAIN HandWired |->
                               [owner |-> svc[HandWired[i][1]].pid,
                                res |-> IpcTo(svc[HandWired[i][2]].pid), perms |-> RW]]
    OBVIOUS
  <2>2. PICK m \in Nat : m = Len(HandWired) /\ DOMAIN HandWired = 1 .. m
    BY HandWiredShape
  <2>3. Len(roots) = m
    BY <2>1, <2>2
  <2>4. \A i \in 1 .. m : Root(roots[i].owner, roots[i].res, roots[i].perms, 0) \in N
    BY <2>1, <2>2, HandWiredShape
  <2>5. ct' = MintAll(ct, roots)
    BY <2>1 DEF BootWire
  <2>6. PICK n : n = MintAll(ct, roots)
    OBVIOUS
  <2>7. PICK M : M = N
    OBVIOUS
  <2>8. SoundTable(n) /\ Grew(ct, n, M)
    <3> HIDE DEF N
    <3> QED BY <1>2, <2>3, <2>4, <2>6, <2>7, MintAllGrows
  <2> QED BY <2>5, <2>6, <2>7, <2>8
<1>7. ASSUME NEW c \in N
      PROVE  c.parent = CAP_ID_INVALID /\ RootMeant(c)' /\ Covered(c)'
  <2>1. PICK w \in Range(HandWired) :
          c = Root(svc[w[1]].pid, IpcTo(svc[w[2]].pid), RW, 0)
    OBVIOUS
  <2>2. PICK x, y : x = svc[w[1]].pid /\ y = svc[w[2]].pid
    OBVIOUS
  <2>3. w[1] \in Names /\ w[2] \in Names /\ <<w[1], w[2]>> \in Range(HandWired)
    BY HandWiredShape
  <2>4. Holds(x, w[1]) /\ Holds(y, w[2]) /\ x \in Pids \ Unused /\ y \in Pids \ Unused
    BY <1>5, <2>2, <2>3 DEF Holds
  <2>5. ChannelIsMeant(x, y, RW)
    BY <2>3, <2>4 DEF ChannelIsMeant
  <2>6. /\ c.parent = CAP_ID_INVALID /\ c.expiration = 0 /\ c.owner = x /\ c.res = IpcTo(y)
        /\ c.perms = RW
        /\ c.res[1] = "IPC" /\ c.res[2] = y /\ "GRANT" \notin RW
    BY <2>1, <2>2 DEF Root, IpcTo, RW
  <2>7. RootMeant(c) /\ Covered(c)
    BY <2>4, <2>5, <2>6 DEF RootMeant, ChannelMeant, Covered
  <2>8. x \in (Pids \ Unused)' /\ y \in (Pids \ Unused)' /\ ChannelIsMeant(x, y, RW)'
    BY <1>4, <2>4, <2>5
       DEF ChannelIsMeant, Unused, Holds, Incarnation, DeclaredTo
  <2> QED BY <2>6, <2>8 DEF RootMeant, ChannelMeant, Covered
<1>8. Spares({})
  BY <1>4 DEF Spares, Unused, Holds
<1>9. PairsStand'
  <2>1. ASSUME NEW i \in DOMAIN Peers, BothLive(i)
        PROVE  PairKept(ct, ct', svc[Peers[i].of].pid, svc[Peers[i].peer].pid)
    <3>1. PICK a, b : a = svc[Peers[i].of].pid /\ b = svc[Peers[i].peer].pid
      OBVIOUS
    <3>2. /\ Peers[i].of \in Names /\ Peers[i].peer \in Names /\ Peers[i] \in Range(Peers)
          /\ Holds(a, Peers[i].of) /\ Holds(b, Peers[i].peer)
      BY <2>1, <3>1, PeersShape DEF BothLive, slot_peer_live
    <3>3. ASSUME NEW c \in N
          PROVE  <<c.owner, c.res>> \notin {<<a, IpcTo(b)>>, <<b, IpcTo(a)>>}
      <4>1. PICK w \in Range(HandWired) :
              c = Root(svc[w[1]].pid, IpcTo(svc[w[2]].pid), RW, 0)
        OBVIOUS
      <4>2. /\ w[1] \in Names /\ w[2] \in Names
            /\ Holds(svc[w[1]].pid, w[1]) /\ Holds(svc[w[2]].pid, w[2])
        BY <1>5, HandWiredShape
      <4>3. {Peers[i].of, Peers[i].peer} # {w[1], w[2]}
        BY <3>2, PeersAssumption
      <4>4. ~ (svc[w[1]].pid = a /\ svc[w[2]].pid = b) /\ ~ (svc[w[1]].pid = b /\ svc[w[2]].pid = a)
        BY <1>1, <3>2, <4>2, <4>3, OneHolder
      <4>5. c.owner = svc[w[1]].pid /\ c.res = IpcTo(svc[w[2]].pid)
        BY <4>1 DEF Root
      <4> QED BY <4>4, <4>5 DEF IpcTo
    <3>4. PICK n, M : n = ct' /\ M = N
      OBVIOUS
    <3>5. Grew(ct, n, M)
      BY <1>6, <3>4
    <3>6. \A c \in M : <<c.owner, c.res>> \notin {<<a, IpcTo(b)>>, <<b, IpcTo(a)>>}
      BY <3>3, <3>4
    <3>7. PairKept(ct, n, a, b)
      BY <3>5, <3>6, GrowthKeeps
    <3> QED BY <3>1, <3>4, <3>7
  <2>2. \A i \in DOMAIN Peers : BothLive(i)' => BothLive(i) /\ SamePids(i)
    BY <1>4 DEF BothLive, SamePids, slot_peer_live, Holds, Unused
  <2> HIDE DEF N
  <2> QED BY <1>2, <2>1, <2>2, PairsKept
<1>10. PICK M : M = N
  OBVIOUS
<1>11. /\ Grew(ct, ct', M)
       /\ \A c \in M : c.parent = CAP_ID_INVALID /\ RootMeant(c)' /\ Covered(c)'
  BY <1>6, <1>7, <1>10
<1> HIDE DEF N
<1>12. Meant'
  BY <1>2, <1>6, <1>8, <1>11, GrowthMeant
<1>13. IntentCoversAuthority'
  BY <1>2, <1>4, <1>11, GrowthCovered
<1>14. Authority'
  BY <1>2, <1>4, <1>6, <1>9, <1>12, <1>13 DEF Authority, RowsFinite
<1>15. TypeOK'
  BY <1>1, <1>3, <1>4, <1>6, TypeFacts, TypeStep DEF SoundTable
<1>16. SlotsTell'
  <2>1. GenerationsTell'
    BY <1>1, <1>4, TypeFacts, GenerationsKept DEF SlotsTell, ProcRecords
  <2>2. RestartsAreEmpty'
    BY <1>4, <1>5 DEF RestartsAreEmpty, Idle
  <2>3. BootOrder'
    <3>1. Booted' /\ \A i \in DOMAIN Services : ~ i > boot'
      BY <1>3, ServicesShape DEF Booted
    <3> QED BY <3>1 DEF BootOrder
  <2> QED BY <2>1, <2>2, <2>3 DEF SlotsTell
<1> QED BY <1>14, <1>15, <1>16 DEF AuthorityInv

(* SYS_SPAWN: the child's root, and the channel if the manifest asks.      *)
SpawnCaps(p, c) ==
  {Root(c, <<"PROCESS", c>>, Perms, 0)}
    \cup (IF man[p].spawn_channel
          THEN {Root(p, IpcTo(c), RW, 0), Root(c, IpcTo(p), RW, 0)} ELSE {})

LEMMA SpawnMints ==
  ASSUME SoundTable(ct), NEW p, NEW c, NEW n,
         n = IF man[p].spawn_channel THEN Channel(RootCap(ct, c), p, c) ELSE RootCap(ct, c)
  PROVE  SoundTable(n) /\ Grew(ct, n, SpawnCaps(p, c))
<1> DEFINE t == RootCap(ct, c)
           N == SpawnCaps(p, c)
<1>1. Minted(ct, t, Root(c, <<"PROCESS", c>>, Perms, 0))
  BY CreateGrows DEF RootCap
<1>2. SoundTable(t) /\ Grew(ct, t, N)
  <2>1. {Root(c, <<"PROCESS", c>>, Perms, 0)} \subseteq N
    BY DEF SpawnCaps
  <2> HIDE DEF t, N
  <2> QED BY <1>1, <2>1, GrewMore DEF Minted
<1>3. CASE ~ man[p].spawn_channel
  BY <1>2, <1>3
<1>4. CASE man[p].spawn_channel
  <2>1. PICK u : u = cap_create(t, p, IpcTo(c), RW, 0)
    OBVIOUS
  <2>2. RW # {}
    BY DEF RW
  <2>3. n = cap_create(u, c, IpcTo(p), RW, 0)
    BY <1>4, <2>1, <2>2, OfferIs DEF Channel
  <2>4. Minted(t, u, Root(p, IpcTo(c), RW, 0))
    BY <1>2, <2>1, CreateGrows
  <2>5. Minted(u, n, Root(c, IpcTo(p), RW, 0))
    BY <2>3, <2>4, CreateGrows DEF Minted
  <2>6. {Root(p, IpcTo(c), RW, 0)} \subseteq N /\ {Root(c, IpcTo(p), RW, 0)} \subseteq N
    BY <1>4 DEF SpawnCaps
  <2> HIDE DEF t, N
  <2>7. Grew(t, u, N) /\ Grew(u, n, N)
    BY <2>4, <2>5, <2>6, GrewMore DEF Minted
  <2>8. Grew(ct, n, N)
    BY <1>2, <2>7, GrewTwice
  <2> QED BY <2>5, <2>8 DEF Minted, N
<1> QED BY <1>3, <1>4

LEMMA SpawnStep ==
  ASSUME AuthorityInv, NEW p \in Pids, SysSpawn(p)
  PROVE  AuthorityInv'
<1>1. TypeOK /\ SlotsTell /\ Authority
  BY DEF AuthorityInv
<1>2. RowsFinite /\ SoundTable(ct) /\ Meant /\ PairsStand /\ IntentCoversAuthority
  BY <1>1 DEF Authority
<1>3. boot' = boot /\ svc' = svc /\ mon' = mon /\ now' = now /\ Booted /\ proc[p].state = "LIVE"
  BY DEF SysSpawn, Live
<1>4. PICK c \in Unused : c = find_free_pid
  BY FreePid DEF SysSpawn
<1>5. PICK by : by = IF man[p].spawn_channel THEN <<p, proc[p].generation>> ELSE Nobody
  OBVIOUS
<1>6. /\ proc' = Create(c, by)
      /\ ct' = IF man[p].spawn_channel THEN Channel(RootCap(ct, c), p, c) ELSE RootCap(ct, c)
      /\ man' = [man EXCEPT ![c] = DefaultManifest, ![p].spawn_used = @ + 1]
  BY <1>4, <1>5 DEF SysSpawn
<1>7. /\ c \in Pids /\ proc[c].state = "UNUSED" /\ c # p /\ p \in Pids \ Unused
      /\ by \in ({0} \cup Pids) \X Nat
  BY <1>1, <1>3, <1>5, TypeFacts, NobodyZero DEF Unused, ProcRecords
<1>8. /\ proc' \in [Pids -> ProcRecords]
      /\ proc'[c].state = "LIVE" /\ proc'[c].spawner = by
      /\ proc'[c].generation = proc[c].generation + 1
      /\ \A q \in Pids \ {c} : proc'[q] = proc[q]
  BY <1>1, <1>6, <1>7, CreateFacts
<1>9. /\ man' \in [Pids -> ManRecords] /\ man'[c].rows = {} /\ man'[p].rows = man[p].rows
      /\ \A q \in Pids \ {c, p} : man'[q] = man[q]
  <2>1. man \in [Pids -> ManRecords] /\ man[p] \in ManRecords /\ man[p].spawn_used \in Nat
    BY <1>1, TypeFacts DEF ManRecords
  <2>2. PICK k \in Nat : k = man[p].spawn_used + 1
    BY <2>1
  <2>3. PICK r : r = [man[p] EXCEPT !.spawn_used = k]
    OBVIOUS
  <2>4. r \in ManRecords /\ r.rows = man[p].rows
    BY <2>1, <2>3 DEF ManRecords
  <2>5. PICK d : d = DefaultManifest
    OBVIOUS
  <2>6. d \in ManRecords /\ d.rows = {}
    BY <2>5, EmptyRows DEF DefaultManifest, NoManifest, ManRecords
  <2>7. man' = [man EXCEPT ![c] = d, ![p] = r]
    BY <1>6, <1>7, <2>1, <2>2, <2>3, <2>5
  <2> QED BY <1>7, <2>1, <2>4, <2>6, <2>7
<1>10. PICK n : n = ct'
  OBVIOUS
<1>11. SoundTable(n) /\ Grew(ct, n, SpawnCaps(p, c))
  BY <1>2, <1>6, <1>10, SpawnMints
<1>12. Spares({})
  BY <1>3, <1>7, <1>8 DEF Spares, Unused, Holds
<1>13. c \in (Pids \ Unused)' /\ p \in (Pids \ Unused)'
  BY <1>7, <1>8 DEF Unused
<1>14. ASSUME NEW d \in SpawnCaps(p, c)
       PROVE  d.parent = CAP_ID_INVALID /\ RootMeant(d)' /\ Covered(d)'
  <2>1. CASE d = Root(c, <<"PROCESS", c>>, Perms, 0)
    BY <1>13, <2>1 DEF Root, RootMeant, Granted, Covered
  <2>2. ASSUME man[p].spawn_channel, NEW x \in {p, c}, NEW y \in {p, c}, x # y,
               d = Root(x, IpcTo(y), RW, 0)
        PROVE  d.parent = CAP_ID_INVALID /\ RootMeant(d)' /\ Covered(d)'
    <3>1. /\ d.parent = CAP_ID_INVALID /\ d.owner = x /\ d.res = IpcTo(y)
          /\ d.perms = RW /\ d.expiration = 0
          /\ d.res[1] = "IPC" /\ d.res[2] = y /\ "GRANT" \notin RW
      BY <2>2 DEF Root, IpcTo, RW
    <3>2. proc'[c].spawner = Incarnation(p)'
      BY <1>5, <1>7, <1>8, <2>2 DEF Incarnation
    <3>3. ChannelIsMeant(x, y, RW)'
      BY <1>13, <2>2, <3>2 DEF ChannelIsMeant
    <3> QED BY <1>13, <3>1, <3>3 DEF RootMeant, ChannelMeant, Covered
  <2>3. /\ d = Root(c, <<"PROCESS", c>>, Perms, 0)
           \/ (/\ man[p].spawn_channel
               /\ d = Root(p, IpcTo(c), RW, 0) \/ d = Root(c, IpcTo(p), RW, 0))
    BY DEF SpawnCaps
  <2> QED BY <1>7, <2>1, <2>2, <2>3
<1>15. Meant'
  BY <1>2, <1>10, <1>11, <1>12, <1>14, GrowthMeant
<1>16. PairsStand'
  <2>1. ASSUME NEW i \in DOMAIN Peers, BothLive(i)'
        PROVE  /\ BothLive(i) /\ SamePids(i)
               /\ PairKept(ct, ct', svc[Peers[i].of].pid, svc[Peers[i].peer].pid)
    <3>1. Peers[i].of \in Names /\ Peers[i].peer \in Names
      BY PeersShape
    <3>2. ASSUME NEW o \in Names, slot_peer_live(o)'
          PROVE  slot_peer_live(o) /\ svc[o].pid # c
      <4>1. PICK q : q = svc[o].pid
        OBVIOUS
      <4>2. q \in Pids /\ q # 0 /\ svc[o].generation = proc'[q].generation
            /\ svc[o].state = "RUNNING" /\ proc'[q].state # "UNUSED"
        BY <1>3, <3>2, <4>1, NobodyZero DEF slot_peer_live, Holds, Unused
      <4>3. svc[o].generation <= proc[q].generation /\ proc[c].generation \in Nat
        BY <1>1, <1>7, <4>1, <4>2, TypeFacts DEF SlotsTell, GenerationsTell, ProcRecords
      <4>4. q # c
        BY <1>8, <4>2, <4>3
      <4> QED BY <1>8, <4>1, <4>2, <4>4 DEF slot_peer_live, Holds, Unused
    <3>3. PICK a, b : a = svc[Peers[i].of].pid /\ b = svc[Peers[i].peer].pid
      OBVIOUS
    <3>4. a # c /\ b # c /\ BothLive(i)
      BY <2>1, <3>1, <3>2, <3>3 DEF BothLive
    <3>5. \A d \in SpawnCaps(p, c) :
            <<d.owner, d.res>> \notin {<<a, IpcTo(b)>>, <<b, IpcTo(a)>>}
      BY <3>4 DEF SpawnCaps, Root, IpcTo
    <3>6. PairKept(ct, n, a, b)
      BY <1>11, <3>5, GrowthKeeps
    <3> QED BY <1>3, <1>10, <3>3, <3>4, <3>6 DEF SamePids
  <2> QED BY <1>2, <2>1, PairsKept
<1>17. IntentCoversAuthority'
  <2>1. \A q \in Pids \ Unused : man[q].rows \subseteq man'[q].rows
    BY <1>4, <1>9
  <2> QED BY <1>2, <1>10, <1>11, <1>14, <2>1, GrowthCovered
<1>18. RowsFinite' /\ \A q \in Pids : Cardinality(man'[q].rows) <= MaxRows
  <2>1. ASSUME NEW q \in Pids
        PROVE  IsFiniteSet(man'[q].rows) /\ Cardinality(man'[q].rows) <= MaxRows
    <3>1. man'[q].rows = man[q].rows \/ man'[q].rows = {}
      BY <1>9
    <3>2. IsFiniteSet({}) /\ Cardinality({}) <= MaxRows
      BY FS_EmptySet, MaxRowsAssumption
    <3>3. IsFiniteSet(man[q].rows) /\ Cardinality(man[q].rows) <= MaxRows
      BY <1>1, <1>2, TypeFacts DEF RowsFinite
    <3> QED BY <3>1, <3>2, <3>3
  <2> QED BY <2>1 DEF RowsFinite
<1>19. Authority'
  BY <1>10, <1>11, <1>15, <1>16, <1>17, <1>18 DEF Authority
<1>20. TypeOK'
  BY <1>1, <1>3, <1>8, <1>9, <1>10, <1>11, <1>18, TypeFacts, TypeStep DEF SoundTable
<1>21. SlotsTell'
  <2>1. \A q \in Pids : /\ proc'[q].generation \in Nat
                        /\ proc'[q].generation >= proc[q].generation
    BY <1>1, <1>7, <1>8, TypeFacts DEF ProcRecords
  <2> QED BY <1>1, <1>3, <2>1, SlotsKept
<1> QED BY <1>19, <1>20, <1>21 DEF AuthorityInv

(* SYS_CAP_DERIVE.                                                         *)
LEMMA DeriveStep ==
  ASSUME AuthorityInv, NEW p \in Pids, NEW q \in Pids, NEW req \in Requests, NEW exp \in Expirations,
         SysCapDerive(p, q, req, exp)
  PROVE  AuthorityInv'
<1>1. TypeOK /\ SlotsTell /\ Authority
  BY DEF AuthorityInv
<1>2. RowsFinite /\ SoundTable(ct) /\ Meant /\ PairsStand /\ IntentCoversAuthority
  BY <1>1 DEF Authority
<1>3. /\ boot' = boot /\ proc' = proc /\ svc' = svc /\ mon' = mon /\ now' = now
      /\ Booted /\ FreeSlots(ct) # {} /\ proc[q].state = "LIVE"
      /\ req.perms \cap {"GRANT", "REVOKE"} = {}
  BY DEF SysCapDerive, MayDelegateTo, Live
<1>4. PICK m : m = cap_find_id(ct, p, req.res, req.perms \cup {"GRANT"}, now)
  OBVIOUS
<1>5. /\ MayDerive(ct, m, p, req.perms, now)
      /\ ct' = cap_derive(ct, m, p, q, req.perms, exp, now)
      /\ man' = [man EXCEPT ![q] = manifest_grant(@, req.res)]
      /\ manifest_has_room(q)
  BY <1>4 DEF SysCapDerive
<1>6. /\ m \in InUse(ct) /\ ct.cap[m].owner = p /\ ct.cap[m].res = req.res
      /\ "GRANT" \in ct.cap[m].perms /\ req.perms \subseteq ct.cap[m].perms
  <2> DEFINE S == MatchingResource(ct, p, req.res, req.perms \cup {"GRANT"}, now)
  <2>1. S # {}
    BY DEF SysCapDerive, cap_find_resource
  <2>2. S \in SUBSET Nat /\ S \subseteq InUse(ct)
    BY <1>2, MaxCapsAssumption
       DEF MatchingResource, Matching, SoundTable, TableShape, Slots
  <2>3. \E s \in S : \A t \in S : s <= t
    <3> HIDE DEF S
    <3> QED BY <2>1, <2>2, LeastExists
  <2>4. m \in S
    BY <1>4, <2>3 DEF cap_find_id, Lowest
  <2> QED BY <2>2, <2>4 DEF MatchingResource, Matching
<1>7. PICK c : c = Child(ct, m, q, req.perms, exp)
  OBVIOUS
<1>8. /\ c.owner = q /\ c.res = req.res /\ c.perms = req.perms /\ c.parent = HandleOf(ct, m)
      /\ c.expiration = ClampExpiration(exp, ct.cap[m].expiration)
  BY <1>6, <1>7 DEF Child
<1>9. PICK n : n = Mint(ct, c)
  OBVIOUS
<1>10. ct' = n
  BY <1>3, <1>5, <1>7, <1>9 DEF cap_derive
<1>11. SoundTable(n) /\ c.expiration \in Nat
  <2>1. Narrower(c, ct.cap[m]) /\ c.expiration \in Nat
    <3>1. PICK k \in Nat : k = ct.cap[m].expiration
      BY <1>2, <1>6 DEF Meant, Dated
    <3>2. exp \in Nat
      BY ExpirationsAssumption
    <3>3. /\ ClampExpiration(exp, k) \in Nat
          /\ k # 0 => ClampExpiration(exp, k) # 0 /\ ClampExpiration(exp, k) <= k
      BY <3>1, <3>2 DEF ClampExpiration
    <3>4. /\ c.res = ct.cap[m].res /\ c.perms \subseteq ct.cap[m].perms
          /\ "GRANT" \in ct.cap[m].perms /\ c.expiration = ClampExpiration(exp, k)
      BY <1>6, <1>8, <3>1
    <3> QED BY <3>1, <3>3, <3>4 DEF Narrower
  <2>2. Admissible(ct, c)
    BY <1>6, <1>8, <2>1 DEF Admissible
  <2> QED BY <1>2, <1>3, <1>9, <2>1, <2>2, MintKeepsTableSound
<1>12. PICK f : f = FirstFree(ct)
  OBVIOUS
<1>13. /\ f \in Slots /\ f \notin InUse(ct) /\ InUse(n) = InUse(ct) \cup {f} /\ n.cap[f] = c
       /\ \A s \in InUse(ct) : n.cap[s] = ct.cap[s]
       /\ n.generation = ct.generation
  BY <1>2, <1>3, <1>9, <1>12, MintFacts DEF SoundTable
<1>14. /\ \A s, r \in InUse(ct) : IsChildOf(n, s, r) <=> IsChildOf(ct, s, r)
       /\ IsChildOf(n, f, m) /\ Derived(n) = Derived(ct) \cup {f}
  <2>1. c.parent # CAP_ID_INVALID
    BY <1>2, <1>6, <1>8, HandlesDiffer DEF SoundTable, TableShape
  <2>2. \A s, r \in InUse(ct) : IsChildOf(n, s, r) <=> IsChildOf(ct, s, r)
    BY <1>13 DEF IsChildOf, HandleOf
  <2>3. IsChildOf(n, f, m)
    BY <1>6, <1>8, <1>13 DEF IsChildOf, HandleOf
  <2> QED BY <1>13, <2>1, <2>2, <2>3 DEF Derived
<1>15. Grew(ct, n, {c})
  BY <1>13 DEF Grew
<1>16. Spares({})
  BY <1>3 DEF Spares, Unused, Holds
<1>17. req.res[1] # "IPC" /\ m \notin Derived(ct)
  <2>1. CapMeant(m)
    BY <1>2, <1>6, MeantEach
  <2>2. ct.cap[m].res[1] # "IPC"
    BY <1>6, <2>1 DEF CapMeant, ChannelMeant
  <2> QED BY <1>6, <2>1, <2>2 DEF CapMeant, Delegated
<1>18. Meant'
  <2>1. \A s \in InUse(ct) : CapMeant(s)
    BY <1>2, MeantEach
  <2>2. ASSUME NEW s \in InUse(ct) PROVE CapMeant(s)'
    <3>1. ct'.cap[s] = ct.cap[s] /\ (s \in Derived(ct') <=> s \in Derived(ct))
      BY <1>10, <1>13, <1>14
    <3>2. PICK d : d = ct.cap[s]
      OBVIOUS
    <3>3. d.owner \in (Pids \ Unused)' /\ d.expiration \in Nat
      BY <1>3, <2>1, <3>2 DEF CapMeant, Unused
    <3>4. CASE d.res[1] # "IPC" /\ s \in Derived(ct)
      <4>1. Delegated(s)
        BY <2>1, <3>2, <3>4 DEF CapMeant
      <4>2. Delegated(s)'
        BY <1>10, <1>13, <1>14, <4>1 DEF Delegated
      <4> QED BY <3>1, <3>2, <3>3, <3>4, <4>2 DEF CapMeant
    <3>5. CASE ~ (d.res[1] # "IPC" /\ s \in Derived(ct))
      <4>1. RootMeant(d)
        BY <2>1, <3>2, <3>5 DEF CapMeant, RootMeant
      <4>2. RootMeant(d)'
        BY <1>16, <4>1, SparedRoots DEF Touches
      <4> QED BY <3>1, <3>2, <3>5, <4>2 DEF CapMeant, RootMeant
    <3> QED BY <3>4, <3>5
  <2>3. CapMeant(f)'
    <3>1. PICK t \in InUse(ct) : /\ ct.cap[t].owner = p /\ ct.cap[t].res = IpcTo(q)
                                 /\ "WRITE" \in ct.cap[t].perms
      BY DEF SysCapDerive, MayDelegateTo, cap_find_resource, MatchingResource, Matching
    <3>2. /\ IsChildOf(n, f, m) /\ m \in InUse(n) /\ n.cap[m].parent = CAP_ID_INVALID
          /\ n.cap[f].perms \cap {"GRANT", "REVOKE"} = {}
      BY <1>3, <1>6, <1>8, <1>13, <1>14, <1>17 DEF Derived
    <3>3. /\ t \in InUse(n) /\ n.cap[t].owner = n.cap[m].owner
          /\ n.cap[t].res = IpcTo(n.cap[f].owner) /\ "WRITE" \in n.cap[t].perms
      BY <1>6, <1>8, <1>13, <3>1
    <3>4. Delegated(f)'
      BY <1>10, <3>2, <3>3 DEF Delegated
    <3>5. q \in (Pids \ Unused)'
      BY <1>3 DEF Unused
    <3> QED BY <1>8, <1>10, <1>11, <1>13, <1>14, <1>17, <3>4, <3>5 DEF CapMeant
  <2>4. \A s \in InUse(ct') : CapMeant(s)'
    BY <1>10, <1>13, <2>2, <2>3
  <2> QED BY <2>4 DEF Meant, AuthorityIsMeant, ChannelsAreMeant, ChannelsStay, Dated, CapMeant,
       ChannelMeant
<1>19. PairsStand'
  <2>1. ASSUME NEW a, NEW b PROVE PairKept(ct, n, a, b)
    BY <1>8, <1>15, <1>17, GrowthKeeps DEF IpcTo
  <2>2. \A i \in DOMAIN Peers : BothLive(i)' => BothLive(i) /\ SamePids(i)
    BY <1>3 DEF BothLive, SamePids, slot_peer_live, Holds, Unused
  <2>3. \A a, b : PairKept(ct, ct', a, b)
    BY <1>10, <2>1
  <2> QED BY <1>2, <2>2, <2>3, PairsKept
<1>20. /\ man' \in [Pids -> ManRecords] /\ \A r \in Pids \ {q} : man'[r] = man[r]
       /\ man'[q].rows = man[q].rows \cup {req.res}
       /\ Cardinality(man[q].rows) < MaxRows
  <2>1. man \in [Pids -> ManRecords] /\ man[q] \in ManRecords
    BY <1>1, TypeFacts
  <2>2. man[q].bound /\ Cardinality(man[q].rows) < MaxRows
    BY <1>5 DEF manifest_has_room
  <2>3. PICK d : d = [man[q] EXCEPT !.rows = @ \cup {req.res}]
    OBVIOUS
  <2>4. man' = [man EXCEPT ![q] = d]
    BY <1>5, <2>2, <2>3 DEF manifest_grant
  <2>5. req.res \in Rows
    BY DEF Rows
  <2>6. d \in ManRecords /\ d.rows = man[q].rows \cup {req.res}
    BY <2>1, <2>3, <2>5 DEF ManRecords
  <2> QED BY <2>1, <2>2, <2>4, <2>6
<1>21. IntentCoversAuthority'
  <2>1. \A r \in Pids \ Unused : man[r].rows \subseteq man'[r].rows
    BY <1>20
  <2>2. Covered(c)'
    BY <1>8, <1>20 DEF Covered
  <2>3. \A d \in {c} : Covered(d)'
    BY <2>2
  <2> QED BY <1>2, <1>10, <1>15, <2>1, <2>3, GrowthCovered
<1>22. RowsFinite' /\ \A r \in Pids : Cardinality(man'[r].rows) <= MaxRows
  <2>1. ASSUME NEW r \in Pids
        PROVE  IsFiniteSet(man'[r].rows) /\ Cardinality(man'[r].rows) <= MaxRows
    <3>1. CASE r # q
      BY <1>1, <1>2, <1>20, <3>1, TypeFacts DEF RowsFinite
    <3>2. CASE r = q
      <4>1. PICK R : R = man[q].rows
        OBVIOUS
      <4>2. IsFiniteSet(R) /\ Cardinality(R) < MaxRows /\ Cardinality(R) \in Nat
        BY <1>2, <1>20, <4>1, FS_CardinalityType DEF RowsFinite
      <4>3. /\ IsFiniteSet(R \cup {req.res})
            /\ Cardinality(R \cup {req.res}) \in {Cardinality(R), Cardinality(R) + 1}
        BY <4>2, FS_AddElement
      <4>4. Cardinality(R \cup {req.res}) <= MaxRows
        BY <4>2, <4>3, MaxRowsAssumption
      <4> QED BY <1>20, <3>2, <4>1, <4>3, <4>4
    <3> QED BY <3>1, <3>2
  <2> QED BY <2>1 DEF RowsFinite
<1>23. Authority'
  BY <1>10, <1>11, <1>18, <1>19, <1>21, <1>22 DEF Authority
<1>24. TypeOK'
  BY <1>1, <1>3, <1>10, <1>11, <1>20, <1>22, TypeFacts, TypeStep DEF SoundTable
<1>25. SlotsTell'
  BY <1>1, <1>3, TypeFacts, SlotsKept DEF ProcRecords
<1> QED BY <1>23, <1>24, <1>25 DEF AuthorityInv

-----------------------------------------------------------------------------
(* The theorems.                                                           *)

LEMMA StartsOut == Init => AuthorityInv
<1> SUFFICES ASSUME Init PROVE AuthorityInv
  OBVIOUS
<1>1. InUse(ct) = {} /\ SoundTable(ct)
  BY EmptyTableSound DEF Init, EmptyTable, InUse
<1>2. /\ boot = 0 /\ mon = Idle /\ now = 0
      /\ \A s \in Names : svc[s].pid = 0 /\ svc[s].state = "STOPPED"
      /\ \A p \in Pids : man[p] = NoManifest
  BY DEF Init
<1>3. TypeOK
  <2>1. proc \in [Pids -> ProcRecords]
    BY NobodyZero DEF Init, ProcRecords
  <2>2. man \in [Pids -> ManRecords] /\ \A p \in Pids : Cardinality(man[p].rows) <= MaxRows
    BY EmptyRows DEF Init
  <2>3. svc \in [Names -> SvcRecords] /\ \A s \in Names : svc[s].restarts <= Def[s].max_restarts
    BY DefAssumption DEF Init, SvcRecords
  <2>4. boot \in 0 .. Len(Services) + 1 /\ TableShape(ct)
    BY <1>1, <1>2, ServicesShape DEF SoundTable
  <2> QED BY <1>2, <2>1, <2>2, <2>3, <2>4 DEF TypeOK, ProcRecords, ManRecords, SvcRecords
<1>4. SlotsTell
  <2>1. GenerationsTell
    BY <1>2 DEF GenerationsTell
  <2>2. RestartsAreEmpty
    BY <1>2 DEF RestartsAreEmpty, Idle
  <2>3. BootOrder
    BY <1>2, ServicesShape DEF BootOrder
  <2> QED BY <2>1, <2>2, <2>3 DEF SlotsTell
<1>5. Authority
  <2>1. Meant
    BY <1>1, MeantEach
  <2>2. PairsStand
    BY <1>2, PeersShape DEF PairsStand, slot_peer_live
  <2>3. IntentCoversAuthority /\ RowsFinite
    BY <1>1, <1>2, EmptyRows, FS_EmptySet DEF IntentCoversAuthority, RowsFinite
  <2> QED BY <1>1, <2>1, <2>2, <2>3 DEF Authority
<1> QED BY <1>3, <1>4, <1>5 DEF AuthorityInv

LEMMA StepKeeps == AuthorityInv /\ [Next]_vars => AuthorityInv'
<1> SUFFICES ASSUME AuthorityInv, [Next]_vars PROVE AuthorityInv'
  OBVIOUS
<1>1. CASE UNCHANGED vars
  <2>1. TypeOK /\ SlotsTell /\ Authority
    BY DEF AuthorityInv
  <2>2. /\ boot' = boot /\ proc' = proc /\ man' = man /\ ct' = ct /\ svc' = svc /\ mon' = mon
        /\ now' = now
    BY <1>1 DEF vars
  <2>3. TypeOK'
    BY <2>1, <2>2, TypeFacts, TypeStep
  <2>4. SlotsTell'
    BY <2>1, <2>2 DEF SlotsTell, GenerationsTell, RestartsAreEmpty, BootOrder, Booted, Holds,
                      Unused
  <2>5. Spares({})
    BY <2>2 DEF Spares, Unused, Holds
  <2>6. \A i \in DOMAIN Peers : BothLive(i)' => BothLive(i) /\ SamePids(i)
    BY <2>2 DEF BothLive, SamePids, slot_peer_live, Holds, Unused
  <2>7. Authority'
    BY <2>1, <2>2, <2>5, <2>6, QuietStep
  <2> QED BY <2>3, <2>4, <2>7 DEF AuthorityInv
<1>2. CASE BootStart
  BY <1>2, BootStartStep
<1>3. CASE BootWire
  BY <1>3, BootWireStep
<1>4. CASE Reap
  BY <1>4, ReapStep
<1>5. CASE Tick
  BY <1>5, TickStep
<1>6. ASSUME NEW p \in Pids, Exit(p) \/ SysSpawn(p) PROVE AuthorityInv'
  BY <1>6, ExitStep, SpawnStep
<1>7. ASSUME NEW p \in Pids, NEW q \in Pids, NEW r \in Requests, NEW e \in Expirations,
             SysCapDerive(p, q, r, e)
      PROVE  AuthorityInv'
  BY <1>7, DeriveStep
<1>8. ASSUME NEW s \in Names, Trip(s) \/ Stop(s) \/ Restart(s) PROVE AuthorityInv'
  BY <1>8, TripStep, StopStep, RestartStep
<1> QED BY <1>1, <1>2, <1>3, <1>4, <1>5, <1>6, <1>7, <1>8 DEF Next

(* What the number of channels says of their slots.                        *)
LEMMA CountsTell ==
  ASSUME NEW S, NEW perms, Has(S, perms) PROVE Cardinality(S) = Needed(perms)
<1>1. CASE perms = {}
  BY <1>1, FS_EmptySet DEF Has, Needed
<1>2. CASE perms # {}
  BY <1>2, FS_Singleton DEF Has, Needed
<1> QED BY <1>1, <1>2

LEMMA InvariantTells == AuthorityInv => AuthoritySound
<1> SUFFICES ASSUME AuthorityInv PROVE AuthoritySound
  OBVIOUS
<1>1. AuthorityIsMeant /\ ChannelsAreMeant /\ PairsStand
  BY DEF AuthorityInv, Authority, Meant
<1>2. ASSUME NEW d \in Range(Peers), Up(d.of), Up(d.peer)
      PROVE  \/ Channels(d.of, d.peer) = 0 /\ Channels(d.peer, d.of) = 0
             \/ /\ Channels(d.of, d.peer) = Needed(d.to)
                /\ Channels(d.peer, d.of) = Needed(d.from)
  <2>1. PICK i \in DOMAIN Peers : d = Peers[i]
    BY DEF Range
  <2>2. PICK a, b : a = svc[d.of].pid /\ b = svc[d.peer].pid
    OBVIOUS
  <2>3. Stands(ct, a, b, d.to, d.from)
    BY <1>1, <1>2, <2>1, <2>2 DEF PairsStand, slot_peer_live, Up
  <2>4. /\ Channels(d.of, d.peer) = Cardinality(Held(ct, a, IpcTo(b)))
        /\ Channels(d.peer, d.of) = Cardinality(Held(ct, b, IpcTo(a)))
    BY <2>2 DEF Channels, Held
  <2>5. CASE Held(ct, a, IpcTo(b)) = {} /\ Held(ct, b, IpcTo(a)) = {}
    BY <2>4, <2>5, FS_EmptySet
  <2>6. CASE Has(Held(ct, a, IpcTo(b)), d.to) /\ Has(Held(ct, b, IpcTo(a)), d.from)
    BY <2>4, <2>6, CountsTell
  <2> QED BY <2>3, <2>5, <2>6 DEF Stands
<1>3. PairsWhole
  BY <1>2 DEF PairsWhole
<1> QED BY <1>1, <1>3 DEF AuthoritySound

(* The invariant holds in every reachable state: capabilities, services    *)
(* and manifests tell the same story of who is who.                        *)
THEOREM AuthorityKept == Spec => []AuthorityInv
<1>1. Init => AuthorityInv
  BY StartsOut
<1>2. AuthorityInv /\ [Next]_vars => AuthorityInv'
  BY StepKeeps
<1> QED BY <1>1, <1>2, PTL DEF Spec

(* Every process, manifest, capability and service slot has its type.      *)
THEOREM LifecycleTypes == Spec => []TypeOK
<1>1. AuthorityInv => TypeOK
  BY DEF AuthorityInv
<1> QED BY <1>1, AuthorityKept, PTL

(* Whatever a process can do or send, somebody meant it to, and declared   *)
(* pairs are whole or absent (start_slot's passes, mint_ipc_pair,          *)
(* process_destroy's sweeps, SYS_SPAWN, SYS_CAP_DERIVE): for any number of *)
(* processes, services and capability slots.                               *)
THEOREM AuthorityIsSound == Spec => []AuthoritySound
<1>1. AuthorityInv => AuthoritySound
  BY InvariantTells
<1> QED BY <1>1, AuthorityKept, PTL

(* A process's manifest has a row for every resource capability it holds   *)
(* (finalize_user_process, start_slot, manifest_grant).                    *)
THEOREM IntentCovers == Spec => []IntentCoversAuthority
<1>1. AuthorityInv => IntentCoversAuthority
  BY DEF AuthorityInv, Authority
<1> QED BY <1>1, AuthorityKept, PTL

(* service_stop() destroys nobody but the process it started for the       *)
(* service.                                                                *)
THEOREM InnocentsAreSpared == Spec => InnocentsSurvive
<1>1. TypeOK /\ [Next]_vars =>
        [\A s \in Names : Stop(s) =>
           \A p \in Pids \ Unused : proc'[p].state = "UNUSED" => Holds(p, s)]_vars
  <2> SUFFICES ASSUME TypeOK, NEW s \in Names, Stop(s), NEW p \in Pids \ Unused,
                      proc'[p].state = "UNUSED"
               PROVE  Holds(p, s)
    OBVIOUS
  <2>1. proc'[p] = IF p \in Retired(s)
                   THEN [proc[p] EXCEPT !.state = "UNUSED", !.spawner = Nobody] ELSE proc[p]
    BY DEF Stop, Destroy
  <2>2. p \in Retired(s)
    BY <2>1 DEF Unused
  <2> QED BY <2>2 DEF Retired
<1> QED BY <1>1, LifecycleTypes, PTL DEF Spec, InnocentsSurvive
=============================================================================
