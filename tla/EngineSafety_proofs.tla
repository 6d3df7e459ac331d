------------------------- MODULE EngineSafety_proofs -------------------------
(***************************************************************************)
(* More about the engine's worker, on top of the invariant EInv of         *)
(* EngineLoop_proofs.  The second invariant, PInv, is about progress: the  *)
(* worker's counters of a request and the scheduler's are in step, and     *)
(* from the schedule to the batch the plan stays within the limits of a    *)
(* batch.  From it follow the type invariant, the agreement of worker and  *)
(* scheduler between iterations and the budget of a batch.  A third one,   *)
(* WInv, makes what a batch writes private to the request that writes it.  *)
(***************************************************************************)
EXTENDS EngineLoop_proofs

(***************************************************************************)
(* Division is monotone.                                                   *)
(***************************************************************************)
LEMMA DivMonotone ==
  ASSUME NEW a \in Int, NEW b \in Int, a <= b
  PROVE  a \div BlockSize \in Int /\ a \div BlockSize <= b \div BlockSize
<1>0. BlockSize \in Int /\ BlockSize > 0
  BY BlockSizeAssumption
<1>1. PICK d \in Int : d = BlockSize /\ d > 0
  BY <1>0
<1>2. PICK x \in Int, y \in Int : x = a \div d /\ y = b \div d
  BY <1>1
<1>3. /\ x * d <= a /\ a < (x + 1) * d
      /\ y * d <= b /\ b < (y + 1) * d
  BY <1>1, <1>2, SMT
<1>4. x <= y
  BY <1>1, <1>3, SMT
<1> QED BY <1>1, <1>2, <1>4
-----------------------------------------------------------------------------
(***************************************************************************)
(* Step 8 makes blocks private.  Private(y, x, j): entry j of x's table is *)
(* no shared block.  A step from y to z is Quiet when it leaves everybody  *)
(* where they are in their sequence, makes no private entry shared, and    *)
(* puts nothing into a block but what was in one.                          *)
(***************************************************************************)
Private(y, x, j) == y.m.ref[y.q[x].table[j]] <= 1
StillAt(v, w) ==
  /\ w.state = v.state /\ w.n_past = v.n_past /\ w.rem = v.rem /\ w.prefill = v.prefill
  /\ w.gen = v.gen /\ w.swap = v.swap
Quiet(y, z) ==
  /\ \A x \in Reqs :
      /\ StillAt(y.q[x], z.q[x])
      /\ DOMAIN z.q[x].table = DOMAIN y.q[x].table
      /\ \A j \in DOMAIN y.q[x].table : Private(y, x, j) => Private(z, x, j)
  /\ \A b \in Blocks : \E d \in Blocks : z.k[b] = y.k[d]

(***************************************************************************)
(* A shared block is never handed back as its own copy.                    *)
(***************************************************************************)
LEMMA SharedIsCopied ==
  ASSUME NEW m, GoodBM(m), NEW b \in Blocks, IsShared(m, b), NEW c \in CopyOnWrite(m, b)
  PROVE  c.id # b
<1>1. PICK a \in AllocateSingle(m) : c = [a EXCEPT !.next.ref[b] = IF a.id = NoBlock THEN @ ELSE @ - 1]
  BY DEF CopyOnWrite
<1>2. m.ref[b] > 1 /\ m.ref \in [Blocks -> Nat]
  BY DEF IsShared, GoodBM, BMType
<1>3. \/ a = [id |-> NoBlock, next |-> m]
      \/ \E x \in FreeBlocks(m) : a = [id |-> x, next |-> Claim(m, {x}, {})]
      \/ \E x \in Evictable(m) : a = [id |-> x, next |-> Claim(m, {}, {x})]
  BY DEF AllocateSingle
<1>4. c.id = a.id
  BY <1>1, <1>3
<1>5. \A x \in FreeBlocks(m) \union Evictable(m) : m.ref[x] = 0
  BY DEF GoodBM, BMType, FreeBlocks, Evictable, FreeExact
<1>6. a.id \in FreeBlocks(m) \union Evictable(m) \union {NoBlock}
  <2>1. CASE a = [id |-> NoBlock, next |-> m]
    BY <2>1
  <2>2. ASSUME NEW x \in FreeBlocks(m) \union Evictable(m), NEW n, a = [id |-> x, next |-> n]
        PROVE  a.id \in FreeBlocks(m) \union Evictable(m)
    BY <2>2
  <2> QED BY <1>3, <2>1, <2>2
<1>7. b \notin FreeBlocks(m) \union Evictable(m) \union {NoBlock}
  BY <1>2, <1>5, BlocksAssumption
<1> QED BY <1>4, <1>6, <1>7

(***************************************************************************)
(* Making a block writable is quiet, and afterwards it is private.         *)
(***************************************************************************)
LEMMA MakeWritablePrivate ==
  ASSUME NEW s, NEW p, NEW B, NEW y, Building(y, s, p, B), NEW r \in Reqs, NEW i \in Int,
         NEW z \in MakeWritable(y, r, i)
  PROVE  /\ Quiet(y, z) /\ z.batch = y.batch /\ z.stalled = y.stalled /\ z.ok \in {y.ok, FALSE}
         /\ z.ok = TRUE => y.ok = TRUE /\ i >= 1 /\ (i \in DOMAIN y.q[r].table => Private(z, r, i))
<1>0. /\ y = [m |-> y.m, k |-> y.k, q |-> y.q, batch |-> y.batch, stalled |-> y.stalled,
              kind |-> y.kind, ok |-> y.ok]
      /\ GoodBM(y.m) /\ y.q \in [Reqs -> ReqRecs]
  BY DEF Building, Sound
<1>t. PICK t \in Seq(Blocks) : t = y.q[r].table /\ DOMAIN t = 1 .. Len(t) /\ Len(t) \in Int
  BY <1>0, LenProperties DEF ReqRecs
<1>n. y.m.ref \in [Blocks -> Nat]
  BY <1>0 DEF GoodBM, BMType
<1>1. CASE z = [y EXCEPT !.ok = FALSE]
  <2>1. z = [m |-> y.m, k |-> y.k, q |-> y.q, batch |-> y.batch, stalled |-> y.stalled,
             kind |-> y.kind, ok |-> FALSE]
    BY <1>0, <1>1
  <2>2. z.m = y.m /\ z.k = y.k /\ z.q = y.q /\ z.batch = y.batch /\ z.stalled = y.stalled /\ z.ok = FALSE
    BY <2>1
  <2> QED BY <2>2 DEF Quiet, Private, StillAt
<1>5. CASE i < 1
  <2>1. z = [y EXCEPT !.ok = FALSE]
    BY <1>5 DEF MakeWritable
  <2> QED BY <1>1, <2>1
<1>6. CASE ~(i < 1) /\ (~y.ok \/ i > Len(t) \/ ~IsShared(y.m, t[i]))
  <2>1. z = y
    BY <1>t, <1>6, Zenon DEF MakeWritable
  <2>2. Quiet(y, z) /\ z.batch = y.batch /\ z.stalled = y.stalled
    BY <2>1 DEF Quiet, StillAt
  <2>3. ASSUME z.ok = TRUE, i \in DOMAIN t PROVE Private(z, r, i)
    <3>1. ~IsShared(y.m, t[i]) /\ t[i] \in Blocks
      BY <1>t, <1>6, <2>1, <2>3
    <3>2. y.m.ref[t[i]] <= 1
      BY <1>n, <3>1 DEF IsShared
    <3> QED BY <1>t, <2>1, <3>2 DEF Private
  <2>4. z.ok = TRUE => y.ok = TRUE /\ i >= 1
    BY <1>6, <2>1
  <2>5. z.ok = TRUE => (i \in DOMAIN y.q[r].table => Private(z, r, i))
    BY <1>t, <2>3
  <2> QED BY <2>1, <2>2, <2>4, <2>5
<1>7. CASE ~(i < 1) /\ ~(~y.ok \/ i > Len(t) \/ ~IsShared(y.m, t[i])) /\ z # [y EXCEPT !.ok = FALSE]
  <2>1. i \in DOMAIN t /\ i >= 1
    BY <1>t, <1>7
  <2>2. PICK b \in Blocks : b = t[i] /\ IsShared(y.m, b)
    BY <1>7, <2>1
  <2>3. PICK c \in CopyOnWrite(y.m, b) :
           z = IF c.id = NoBlock THEN [y EXCEPT !.ok = FALSE]
               ELSE [y EXCEPT !.m = c.next, !.k[c.id] = y.k[b], !.q[r].table[i] = c.id]
    BY <1>t, <1>7, <2>2, Zenon DEF MakeWritable
  <2>4. c.id # NoBlock
    BY <1>7, <2>3
  <2>5. PICK e \in Blocks : e = c.id
    <3>1. c.id \in {b, NoBlock} \/ c.id \in Blocks \ {b}
      BY <1>0, CopyOnWriteGood
    <3> QED BY <2>4, <3>1
  <2>6. /\ c.next.ref[e] <= 1
        /\ \A d \in Blocks : y.m.ref[d] <= 1 => c.next.ref[d] <= 1
    <3>1. \/ c.id \in {b, NoBlock} /\ \A d \in Blocks : c.next.ref[d] = y.m.ref[d]
          \/ /\ c.id \in Blocks \ {b}
             /\ \A d \in Blocks : c.next.ref[d] = IF d = c.id THEN 1
                                                  ELSE IF d = b THEN y.m.ref[d] - 1 ELSE y.m.ref[d]
      BY <1>0, CopyOnWriteGood
    <3>2. c.id # b
      BY <1>0, <2>2, SharedIsCopied
    <3>3. \A d \in Blocks : c.next.ref[d] = IF d = e THEN 1 ELSE IF d = b THEN y.m.ref[d] - 1 ELSE y.m.ref[d]
      BY <2>4, <2>5, <3>1, <3>2
    <3>4. y.m.ref[b] > 1
      BY <2>2 DEF IsShared
    <3>5. c.next.ref[e] <= 1
      BY <3>3
    <3>6. ASSUME NEW d \in Blocks, y.m.ref[d] <= 1 PROVE c.next.ref[d] <= 1
      <4>1. d # b
        BY <1>n, <3>4, <3>6
      <4> QED BY <3>3, <3>6, <4>1
    <3> QED BY <3>5, <3>6
  <2>7. PICK q2 : q2 = [y.q EXCEPT ![r].table[i] = e]
    OBVIOUS
  <2>8. /\ z.m = c.next /\ z.q = q2 /\ z.batch = y.batch /\ z.stalled = y.stalled /\ z.ok = y.ok
        /\ z.k = [y.k EXCEPT ![e] = y.k[b]]
    <3>1. z = [y EXCEPT !.m = c.next, !.k[e] = y.k[b], !.q[r].table[i] = e]
      BY <2>3, <2>4, <2>5
    <3>2. PICK n, k2 : n = c.next /\ k2 = [y.k EXCEPT ![e] = y.k[b]]
      OBVIOUS
    <3>3. z = [m |-> n, k |-> k2, q |-> q2, batch |-> y.batch, stalled |-> y.stalled,
               kind |-> y.kind, ok |-> y.ok]
      BY <1>0, <2>7, <3>1, <3>2
    <3> QED BY <3>2, <3>3
  <2>9. /\ \A x \in Reqs \ {r} : q2[x] = y.q[x]
        /\ q2[r] = [y.q[r] EXCEPT !.table[i] = e]
    BY <1>0, <2>7
  <2>10. StillAt(y.q[r], q2[r]) /\ q2[r].table = [t EXCEPT ![i] = e]
    BY <1>0, <1>t, <2>9 DEF ReqRecs, StillAt
  <2>11. DOMAIN q2[r].table = DOMAIN t /\ q2[r].table[i] = e /\ \A j \in DOMAIN t \ {i} : q2[r].table[j] = t[j]
    BY <2>1, <2>10
  <2>12. ASSUME NEW x \in Reqs, NEW j \in DOMAIN y.q[x].table, Private(y, x, j) PROVE Private(z, x, j)
    <3>1. y.q[x].table \in Seq(Blocks)
      BY <1>0 DEF ReqRecs
    <3>2. PICK d \in Blocks : d = y.q[x].table[j] /\ y.m.ref[d] <= 1
      BY <2>12, <3>1 DEF Private
    <3>3. q2[x].table[j] \in {d, e}
      BY <1>t, <2>9, <2>11, <3>2
    <3>4. c.next.ref[q2[x].table[j]] <= 1
      BY <2>6, <3>2, <3>3
    <3> QED BY <2>8, <3>4 DEF Private
  <2>13. Quiet(y, z)
    <3>1. ASSUME NEW x \in Reqs PROVE StillAt(y.q[x], z.q[x]) /\ DOMAIN z.q[x].table = DOMAIN y.q[x].table
      <4>1. CASE x = r
        BY <1>t, <2>8, <2>10, <2>11, <4>1
      <4>2. CASE x # r
        BY <2>8, <2>9, <4>2 DEF StillAt
      <4> QED BY <4>1, <4>2
    <3>2. y.k \in [Blocks -> Contents]
      BY DEF Building
    <3>3. ASSUME NEW d \in Blocks PROVE \E f \in Blocks : z.k[d] = y.k[f]
      <4>1. CASE d = e
        BY <2>8, <3>2, <4>1
      <4>2. CASE d # e
        BY <2>8, <3>2, <4>2
      <4> QED BY <4>1, <4>2
    <3> QED BY <2>12, <3>1, <3>3 DEF Quiet
  <2>14. Private(z, r, i)
    BY <2>6, <2>8, <2>11 DEF Private
  <2> QED BY <2>1, <2>8, <2>13, <2>14
<1> QED BY <1>1, <1>5, <1>6, <1>7

\* Quiet steps compose.
LEMMA QuietChain ==
  ASSUME NEW x, NEW y, NEW z, Quiet(x, y), Quiet(y, z)
  PROVE  Quiet(x, z)
<1>1. ASSUME NEW b \in Blocks PROVE \E d \in Blocks : z.k[b] = x.k[d]
  <2>1. PICK d \in Blocks : z.k[b] = y.k[d]
    BY DEF Quiet
  <2>2. PICK e \in Blocks : y.k[d] = x.k[e]
    BY DEF Quiet
  <2> QED BY <2>1, <2>2
<1>2. ASSUME NEW a \in Reqs PROVE StillAt(x.q[a], z.q[a])
  BY DEF Quiet, StillAt
<1> QED BY <1>1, <1>2 DEF Quiet

(***************************************************************************)
(* Owned(y, r): the entries of r's table that its step writes are private. *)
(***************************************************************************)
Owned(y, r) ==
  \A k \in DOMAIN RangeOf(r) :
    RangeOf(r)[k] >= 1 /\ (RangeOf(r)[k] \in DOMAIN y.q[r].table => Private(y, r, RangeOf(r)[k]))

\* What a request owns it still owns after a quiet step.
LEMMA QuietOwned ==
  ASSUME NEW y, NEW z, Quiet(y, z), NEW r \in Reqs, Owned(y, r)
  PROVE  Owned(z, r)
  BY DEF Quiet, Owned

(***************************************************************************)
(* The blocks of a step's range are made private in turn.                  *)
(***************************************************************************)
RangeSoFar(s, X, c) ==
  \A z \in X :
    /\ Building(z, c.s, c.p, c.B) /\ Quiet(c.y, z) /\ z.batch = c.y.batch /\ z.stalled = c.y.stalled
    /\ z.ok \in BOOLEAN
    /\ z.ok = TRUE => \A k \in s :
         RangeOf(c.r)[k] >= 1 /\ (RangeOf(c.r)[k] \in DOMAIN z.q[c.r].table => Private(z, c.r, RangeOf(c.r)[k]))
Protecting == INSTANCE Folding_proofs WITH Choose <- Max, Step <- WritableStep, Good <- RangeSoFar

\* ensure_request_blocks_writable over the range of a step: all of it private, or not ok.
LEMMA RangePrivate ==
  ASSUME req \in [Reqs -> ReqRecs], out \in Outs,
         NEW s, NEW p, NEW B, NEW y, Building(y, s, p, B), NEW r \in Reqs, NEW w \in MakeRangeWritable(y, r)
  PROVE  /\ Quiet(y, w) /\ w.batch = y.batch /\ w.stalled = y.stalled
         /\ w.ok \in BOOLEAN /\ (w.ok = TRUE => Owned(w, r))
<1>0. PICK c : c.r = r /\ c.s = s /\ c.p = p /\ c.B = B /\ c.y = y
  <2>1. PICK c : c = [r |-> r, s |-> s, p |-> p, B |-> B, y |-> y]
    OBVIOUS
  <2> QED BY <2>1
<1> DEFINE x == [y EXCEPT !.ok = TRUE, !.kind = Kind(c.r)]
<1>1. MakeRangeWritable(y, c.r) = Protecting!Fold(DOMAIN RangeOf(c.r), {x}, c)
  BY Zenon DEF MakeRangeWritable, FoldLeft, MapThenFoldSet, Protecting!Fold, Protecting!MapThenFoldSet,
               RangeOf, FirstBlock, LastBlock, WritableStep
<1>2. PICK seq : seq = RangeOf(r)
  OBVIOUS
<1>3. PICK n \in Nat : DOMAIN seq = 1 .. n /\ \A i \in 1 .. n : seq[i] \in Int
  BY <1>2, RangeOfType
<1>4. Building(x, s, p, B) /\ Quiet(y, x) /\ x.batch = y.batch /\ x.stalled = y.stalled /\ x.ok = TRUE
  <2>1. y = [m |-> y.m, k |-> y.k, q |-> y.q, batch |-> y.batch, stalled |-> y.stalled,
             kind |-> y.kind, ok |-> y.ok]
    BY DEF Building
  <2>3. PICK kd : kd = Kind(c.r)
    OBVIOUS
  <2>4. x = [y EXCEPT !.ok = TRUE, !.kind = kd]
    BY <2>3
  <2> HIDE DEF x
  <2>2. x = [m |-> y.m, k |-> y.k, q |-> y.q, batch |-> y.batch, stalled |-> y.stalled,
             kind |-> kd, ok |-> TRUE]
    BY <2>1, <2>4
  <2>5. x.m = y.m /\ x.k = y.k /\ x.q = y.q /\ x.batch = y.batch /\ x.stalled = y.stalled /\ x.ok = TRUE
    BY <2>2
  <2>6. Quiet(y, x)
    BY <2>5 DEF Quiet, Private, StillAt
  <2>7. Building(x, s, p, B)
    BY <2>2 DEF Building
  <2> QED BY <2>5, <2>6, <2>7
<1> HIDE DEF x
<1>5. RangeSoFar({}, {x}, c)
  BY <1>0, <1>4 DEF RangeSoFar
<1>6. Protecting!KeptByVisits(n, c)
  <2>1. ASSUME NEW i \in 1 .. n, NEW X, RangeSoFar(1 .. (i - 1), X, c)
        PROVE  RangeSoFar(1 .. i, WritableStep(i, X, c), c)
    <3> SUFFICES ASSUME NEW z \in WritableStep(i, X, c)
                 PROVE  /\ Building(z, s, p, B) /\ Quiet(y, z) /\ z.batch = y.batch
                        /\ z.stalled = y.stalled /\ z.ok \in BOOLEAN
                        /\ z.ok = TRUE => \A k \in 1 .. i :
                             seq[k] >= 1 /\ (seq[k] \in DOMAIN z.q[r].table => Private(z, r, seq[k]))
      BY <1>0, <1>2 DEF RangeSoFar
    <3>1. PICK v \in X : z \in MakeWritable(v, r, seq[i])
      BY <1>0, <1>2 DEF WritableStep
    <3>2. /\ Building(v, s, p, B) /\ Quiet(y, v) /\ v.batch = y.batch
          /\ v.stalled = y.stalled /\ v.ok \in BOOLEAN
          /\ v.ok = TRUE => \A k \in 1 .. (i - 1) :
                 seq[k] >= 1 /\ (seq[k] \in DOMAIN v.q[r].table => Private(v, r, seq[k]))
      BY <1>0, <1>2, <2>1 DEF RangeSoFar
    <3>3. PICK j \in Int : j = seq[i]
      BY <1>3
    <3>4. z \in MakeWritable(v, r, j)
      BY <3>1, <3>3
    <3>5. Building(z, s, p, B)
      BY ONLY r \in Reqs, j \in Int, <3>2, <3>4, MakeWritableBuilding
    <3>6. /\ Quiet(v, z) /\ z.batch = v.batch /\ z.stalled = v.stalled /\ z.ok \in {v.ok, FALSE}
          /\ z.ok = TRUE => v.ok = TRUE /\ j >= 1 /\ (j \in DOMAIN v.q[r].table => Private(z, r, j))
      BY ONLY r \in Reqs, j \in Int, <3>2, <3>4, MakeWritablePrivate
    <3>7. Quiet(y, z)
      BY <3>2, <3>6, QuietChain
    <3>8. DOMAIN z.q[r].table = DOMAIN v.q[r].table
      BY <3>6 DEF Quiet
    <3>9. ASSUME z.ok = TRUE, NEW k \in 1 .. i
          PROVE  seq[k] >= 1 /\ (seq[k] \in DOMAIN z.q[r].table => Private(z, r, seq[k]))
      <4>1. CASE k = i
        BY <3>3, <3>6, <3>8, <3>9, <4>1
      <4>2. CASE k \in 1 .. (i - 1)
        <5>1. seq[k] >= 1 /\ (seq[k] \in DOMAIN v.q[r].table => Private(v, r, seq[k]))
          BY <3>2, <3>6, <3>9, <4>2
        <5> QED BY <3>6, <3>8, <5>1 DEF Quiet
      <4> QED BY <4>1, <4>2
    <3> QED BY <3>2, <3>5, <3>6, <3>7, <3>9
  <2> QED BY <2>1 DEF Protecting!KeptByVisits
<1>7. Protecting!FromFirst(n)
  BY DEF Protecting!FromFirst, Protecting!Latest, Max
<1>8. RangeSoFar(1 .. n, Protecting!Fold(1 .. n, {x}, c), c)
  BY ONLY n \in Nat, <1>5, <1>6, <1>7, Protecting!VisitInvariant
<1>9. w \in Protecting!Fold(1 .. n, {x}, c)
  BY <1>0, <1>1, <1>2, <1>3
<1> QED BY <1>0, <1>2, <1>3, <1>8, <1>9 DEF RangeSoFar, Owned

(***************************************************************************)
(* Protected(y, S), once the members of S have been considered: nobody has *)
(* moved in its sequence, the batch has each of its members once, what it  *)
(* will write is private, and only active requests were put into it or     *)
(* skipped.                                                                *)
(***************************************************************************)
Protected(y, S) ==
  /\ \A x \in Reqs : StillAt(req[x], y.q[x])
  /\ \A b \in Blocks : \E d \in Blocks : y.k[b] = kv[d]
  /\ \A x \in BlocksOf(y.batch) : x \in Reqs /\ Owned(y, x)
  /\ Distinct(y.batch) /\ BlocksOf(y.batch) \subseteq S
  /\ \A x \in BlocksOf(y.batch) \union y.stalled : req[x].state = "active"

\* A quiet step that adds nobody to the batch keeps it protected.
LEMMA QuietProtected ==
  ASSUME NEW y, NEW z, NEW S, Protected(y, S), Quiet(y, z), z.batch = y.batch, z.stalled = y.stalled
  PROVE  Protected(z, S)
<1>1. ASSUME NEW x \in Reqs PROVE StillAt(req[x], z.q[x])
  BY DEF Protected, Quiet, StillAt
<1>2. ASSUME NEW b \in Blocks PROVE \E d \in Blocks : z.k[b] = kv[d]
  <2>1. PICK d \in Blocks : z.k[b] = y.k[d]
    BY DEF Quiet
  <2>2. PICK e \in Blocks : y.k[d] = kv[e]
    BY DEF Protected
  <2> QED BY <2>1, <2>2
<1>3. \A x \in BlocksOf(z.batch) : x \in Reqs /\ Owned(z, x)
  BY QuietOwned DEF Protected
<1> QED BY <1>1, <1>2, <1>3 DEF Protected

\* One request of the schedule: it joins the batch owning its range, or does not join.
LEMMA BuildOnePrivate ==
  ASSUME req \in [Reqs -> ReqRecs], out \in Outs,
         NEW s, NEW p, NEW B \in SUBSET Reqs, NEW y, Building(y, s, p, B),
         NEW S, NEW T, Protected(y, S),
         NEW r \in B, r \notin S, T = S \union {r}, NEW w \in BuildOne(y, r)
  PROVE  Protected(w, T)
<1>0. r \in Reqs
  OBVIOUS
<1>1. ASSUME NEW z, Building(z, s, p, B), Protected(z, S), req[r].state = "active",
             w = [z EXCEPT !.stalled = @ \union {r}]
      PROVE  Protected(w, T)
  <2>1. PICK R : R = z.stalled \union {r}
    OBVIOUS
  <2>2. z = [m |-> z.m, k |-> z.k, q |-> z.q, batch |-> z.batch, stalled |-> z.stalled,
             kind |-> z.kind, ok |-> z.ok]
    BY <1>1 DEF Building
  <2>3. w = [m |-> z.m, k |-> z.k, q |-> z.q, batch |-> z.batch, stalled |-> R,
             kind |-> z.kind, ok |-> z.ok]
    BY <1>1, <2>1, <2>2
  <2>4. w.m = z.m /\ w.k = z.k /\ w.q = z.q /\ w.batch = z.batch /\ w.stalled = R
    BY <2>3
  <2> QED BY <1>1, <2>1, <2>4 DEF Protected, Owned, Private
<1>2. ASSUME NEW z, Building(z, s, p, B), Protected(z, S), Owned(z, r), req[r].state = "active",
             w = [z EXCEPT !.batch = Append(@, r)]
      PROVE  Protected(w, T)
  <2>1. PICK t \in Seq(Reqs) : t = z.batch
    BY <1>2 DEF Building
  <2>2. PICK e \in Seq(Reqs) : e = <<r>> /\ BlocksOf(e) = {r}
    BY <1>0, SingletonSeq
  <2>3. PICK u \in Seq(Reqs) : u = Append(t, r) /\ BlocksOf(u) = BlocksOf(t) \union {r}
    <3>1. Append(t, r) = t \o e
      BY <1>0, <2>2, AppendIsConcat
    <3>2. t \o e \in Seq(Reqs) /\ BlocksOf(t \o e) = BlocksOf(t) \union BlocksOf(e)
      BY BlocksOfConcat
    <3> QED BY <2>2, <3>1, <3>2
  <2>4. z = [m |-> z.m, k |-> z.k, q |-> z.q, batch |-> z.batch, stalled |-> z.stalled,
             kind |-> z.kind, ok |-> z.ok]
    BY <1>2 DEF Building
  <2>5. w = [m |-> z.m, k |-> z.k, q |-> z.q, batch |-> u, stalled |-> z.stalled,
             kind |-> z.kind, ok |-> z.ok]
    BY <1>2, <2>1, <2>3, <2>4
  <2>6. w.m = z.m /\ w.k = z.k /\ w.q = z.q /\ w.batch = u /\ w.stalled = z.stalled
    BY <2>5
  <2>7. Distinct(u)
    <3>1. Distinct(t) /\ r \notin BlocksOf(t)
      BY <1>2, <2>1 DEF Protected
    <3> QED BY <1>0, <2>3, <3>1, DistinctAppend
  <2>8. BlocksOf(u) \subseteq T
    BY <1>2, <2>1, <2>3 DEF Protected
  <2> QED BY <1>0, <1>2, <2>1, <2>3, <2>6, <2>7, <2>8 DEF Protected, Owned, Private
<1>3. CASE req[r].state # "active"
  <2>1. w = y
    BY <1>3 DEF BuildOne
  <2> QED BY <2>1 DEF Protected
<1>4. CASE req[r].state = "active" /\ (req[r].cancelled \/ y.kind \notin {"none", Kind(r)})
  <2>1. w = [y EXCEPT !.stalled = @ \union {r}]
    BY <1>4, Zenon DEF BuildOne
  <2> QED BY <1>1, <1>4, <2>1
<1>5. CASE req[r].state = "active" /\ ~(req[r].cancelled \/ y.kind \notin {"none", Kind(r)})
  <2>1. PICK z \in MakeRangeWritable(y, r) :
           w = IF z.ok THEN [z EXCEPT !.batch = Append(@, r)] ELSE [z EXCEPT !.stalled = @ \union {r}]
    BY <1>5, Zenon DEF BuildOne
  <2>2. Building(z, s, p, B)
    BY <1>0, RangeWritableBuilding
  <2>3. /\ Quiet(y, z) /\ z.batch = y.batch /\ z.stalled = y.stalled
        /\ z.ok \in BOOLEAN /\ (z.ok = TRUE => Owned(z, r))
    BY <1>0, RangePrivate
  <2>4. Protected(z, S)
    BY <2>3, QuietProtected
  <2>7. CASE z.ok = TRUE
    BY <1>2, <1>5, <2>1, <2>2, <2>3, <2>4, <2>7
  <2>8. CASE z.ok = FALSE
    BY <1>1, <1>5, <2>1, <2>2, <2>4, <2>8
  <2> QED BY <2>3, <2>7, <2>8
<1> QED BY <1>3, <1>4, <1>5

(***************************************************************************)
(* The whole batch is built.                                               *)
(***************************************************************************)
VisitedOf(seq, s) == {seq[j] : j \in s}
ProtectedSoFar(s, X, c) == \A z \in X : Building(z, c.s, c.p, c.B) /\ Protected(z, VisitedOf(c.seq, s))
ProtectingBatch == INSTANCE Folding_proofs WITH Choose <- Max, Step <- BuildStep, Good <- ProtectedSoFar

\* Every member of the batch owns the range it writes.
LEMMA BuildAllPrivate ==
  ASSUME req \in [Reqs -> ReqRecs], out \in Outs, NEW s, NEW p, NEW b \in Seq(Reqs), Distinct(b),
         NEW y, Building(y, s, p, BlocksOf(b)), Protected(y, {}), NEW w \in Visit(BuildOne, y, b)
  PROVE  Building(w, s, p, BlocksOf(b)) /\ Protected(w, BlocksOf(b))
<1>0. PICK c : c.s = s /\ c.p = p /\ c.B = BlocksOf(b) /\ c.seq = b
  <2>1. PICK c : c = [s |-> s, p |-> p, B |-> BlocksOf(b), seq |-> b]
    OBVIOUS
  <2> QED BY <2>1
<1>1. Visit(BuildOne, y, c.seq) = ProtectingBatch!Fold(DOMAIN c.seq, {y}, c)
  BY Zenon DEF Visit, FoldLeft, MapThenFoldSet, ProtectingBatch!Fold, ProtectingBatch!MapThenFoldSet, BuildStep
<1>2. PICK n \in Nat : DOMAIN b = 1 .. n
  BY LenProperties
<1>3. PICK B \in SUBSET Reqs : B = BlocksOf(b)
  BY BlocksOfSeq
<1>4. \A i \in 1 .. n : b[i] \in B
  BY <1>2, <1>3 DEF BlocksOf
<1>5. ProtectedSoFar({}, {y}, c)
  <2>1. VisitedOf(b, {}) = {}
    BY DEF VisitedOf
  <2> QED BY <1>0, <2>1 DEF ProtectedSoFar
<1>6. ProtectingBatch!KeptByVisits(n, c)
  <2>1. ASSUME NEW i \in 1 .. n, NEW X, ProtectedSoFar(1 .. (i - 1), X, c)
        PROVE  ProtectedSoFar(1 .. i, BuildStep(i, X, c), c)
    <3>0. PICK S, T : S = VisitedOf(b, 1 .. (i - 1)) /\ T = VisitedOf(b, 1 .. i)
      OBVIOUS
    <3> SUFFICES ASSUME NEW z \in BuildStep(i, X, c) PROVE Building(z, s, p, B) /\ Protected(z, T)
      BY <1>0, <1>3, <3>0 DEF ProtectedSoFar
    <3>1. PICK x \in X : z \in BuildOne(x, b[i])
      BY <1>0 DEF BuildStep
    <3>2. Building(x, s, p, B) /\ Protected(x, S)
      BY <1>0, <1>3, <2>1, <3>0 DEF ProtectedSoFar
    <3>3. Building(z, s, p, B)
      BY <1>4, <3>1, <3>2, BuildOneBuilding
    <3>4. T = S \union {b[i]}
      BY <3>0 DEF VisitedOf
    <3>5. b[i] \notin S
      BY <1>2, <3>0 DEF VisitedOf, Distinct
    <3>6. Protected(z, T)
      BY <1>4, <3>1, <3>2, <3>4, <3>5, BuildOnePrivate
    <3> QED BY <3>3, <3>6
  <2> QED BY <2>1 DEF ProtectingBatch!KeptByVisits
<1>7. ProtectingBatch!FromFirst(n)
  BY DEF ProtectingBatch!FromFirst, ProtectingBatch!Latest, Max
<1>8. ProtectedSoFar(1 .. n, ProtectingBatch!Fold(1 .. n, {y}, c), c)
  BY ONLY n \in Nat, <1>5, <1>6, <1>7, ProtectingBatch!VisitInvariant
<1>9. VisitedOf(b, 1 .. n) = BlocksOf(b)
  BY <1>2 DEF VisitedOf, BlocksOf
<1> QED BY <1>0, <1>1, <1>2, <1>8, <1>9 DEF ProtectedSoFar
-----------------------------------------------------------------------------
(***************************************************************************)
(* How far a request is, and what the scheduler has on record of it.  The  *)
(* prefix reserved for a waiting group is context to the scheduler before  *)
(* it is to the worker.                                                    *)
(***************************************************************************)
Ahead(s, r) == Len(s.shared[r]) * BlockSize
Idle(v, s, r) ==
  /\ r \notin s.waiting /\ r \notin s.running /\ r \notin s.swapped
  /\ v.prefill = TRUE /\ v.rem = PromptLen(r) /\ v.n_past = 0 /\ v.gen = 0
Prefilling(v, s, r) ==
  /\ r \in s.waiting /\ r \notin s.running /\ r \notin s.swapped
  /\ v.gen = 0 /\ s.gen[r] = 0
  /\ v.n_past >= 0 /\ v.n_past + v.rem = PromptLen(r) /\ Ahead(s, r) <= v.rem
  /\ s.ctx[r] = v.n_past + Ahead(s, r) /\ s.rem[r] = v.rem - Ahead(s, r)
Generating(v, s, r) ==
  /\ r \notin s.waiting /\ (r \in s.running <=> r \notin s.swapped)
  /\ v.rem = 0 /\ s.rem[r] = 0
  /\ 1 <= v.gen /\ v.gen <= MaxTokens[r] - 1 /\ s.gen[r] = v.gen - 1
  /\ v.n_past = PromptLen(r) + v.gen - 1 /\ s.ctx[r] = v.n_past
Stored(v) == \A i \in DOMAIN v.swap.data : v.swap.data[i] \in BlockData
InStep(v, s, r) ==
  /\ Stored(v)
  /\ v.state # "active" => Idle(v, s, r)
  /\ v.state = "active" /\ v.prefill = TRUE => Prefilling(v, s, r)
  /\ v.state = "active" /\ v.prefill = FALSE => Generating(v, s, r)

\* The progress of r in (w, t) is the one in (v, s).
Alike(v, s, w, t, r) ==
  /\ w.state = v.state /\ w.prefill = v.prefill /\ w.rem = v.rem /\ w.n_past = v.n_past /\ w.gen = v.gen
  /\ w.swap = v.swap
  /\ (r \in t.waiting <=> r \in s.waiting) /\ (r \in t.running <=> r \in s.running)
  /\ (r \in t.swapped <=> r \in s.swapped)
  /\ t.rem[r] = s.rem[r] /\ t.ctx[r] = s.ctx[r] /\ t.gen[r] = s.gen[r] /\ t.shared[r] = s.shared[r]

\* A request whose progress is the same on both sides stays in step.
LEMMA AlikeInStep ==
  ASSUME NEW v, NEW s, NEW w, NEW t, NEW r, Alike(v, s, w, t, r), InStep(v, s, r)
  PROVE  InStep(w, t, r)
<1>1. Ahead(t, r) = Ahead(s, r)
  BY DEF Alike, Ahead
<1>2. v.state # "active" => Idle(w, t, r)
  BY DEF Alike, InStep, Idle
<1>3. v.state = "active" /\ v.prefill = TRUE => Prefilling(w, t, r)
  BY <1>1 DEF Alike, InStep, Prefilling
<1>4. v.state = "active" /\ v.prefill = FALSE => Generating(w, t, r)
  BY DEF Alike, InStep, Generating
<1>5. Stored(w)
  BY DEF Alike, InStep, Stored
<1> QED BY <1>2, <1>3, <1>4, <1>5 DEF Alike, InStep

\* Being alike is transitive.
LEMMA AlikeChain ==
  ASSUME NEW u, NEW o, NEW v, NEW s, NEW w, NEW t, NEW r, Alike(u, o, v, s, r), Alike(v, s, w, t, r)
  PROVE  Alike(u, o, w, t, r)
  BY DEF Alike

(***************************************************************************)
(* Requests that end leave the scheduler, and the others stay as they are. *)
(***************************************************************************)
LEMMA RemovedProgress ==
  ASSUME NEW s \in Scheds, NEW R \in SUBSET Reqs, NEW s2, s2 = RemoveRequests(s, R)
  PROVE  \A r \in Reqs : /\ s2.rem[r] = IF r \in R THEN 0 ELSE s.rem[r]
                         /\ s2.ctx[r] = IF r \in R THEN 0 ELSE s.ctx[r]
                         /\ s2.gen[r] = IF r \in R THEN 0 ELSE s.gen[r]
<1>2. s2 = [waiting |-> s.waiting \ R, running |-> s.running \ R, swapped |-> s.swapped \ R,
            rem |-> [r \in Reqs |-> IF r \in R THEN 0 ELSE s.rem[r]],
            shared |-> [r \in Reqs |-> IF r \in R THEN <<>> ELSE s.shared[r]],
            ctx |-> [r \in Reqs |-> IF r \in R THEN 0 ELSE s.ctx[r]],
            gen |-> [r \in Reqs |-> IF r \in R THEN 0 ELSE s.gen[r]],
            sblk |-> [r \in Reqs |-> IF r \in R THEN <<>> ELSE s.sblk[r]],
            arr |-> s.arr, clock |-> s.clock, streak |-> s.streak]
  BY DEF RemoveRequests, Scheds
<1> QED BY <1>2

Gone(v, s, r) == v.state \in Outcomes /\ v.swap = NoSwap /\ Idle(v, s, r)

\* A request that ended is back to where it was submitted.
LEMMA EndedIdle ==
  ASSUME NEW r \in Reqs, NEW how \in Outcomes, NEW c,
         NEW v, v = [Submitted(r) EXCEPT !.state = how, !.cancelled = c],
         NEW s, r \notin s.waiting, r \notin s.running, r \notin s.swapped
  PROVE  Gone(v, s, r)
<1>1. v.state = how /\ v.swap = NoSwap /\ v.prefill = TRUE /\ v.rem = PromptLen(r) /\ v.n_past = 0 /\ v.gen = 0
  BY DEF Submitted
<1> QED BY <1>1 DEF Gone, Idle

\* Ending a set of requests: they are gone, the others are as they were.
LEMMA EndProgress ==
  ASSUME NEW q \in [Reqs -> ReqRecs], NEW s \in Scheds, NEW R \in SUBSET Reqs, NEW how \in Outcomes,
         NEW q2, q2 = Ended(q, R, how), NEW s2, s2 = RemoveRequests(s, R), NEW r \in Reqs
  PROVE  IF r \in R THEN Gone(q2[r], s2, r) ELSE Alike(q[r], s, q2[r], s2, r)
<1>1. /\ s2.waiting = s.waiting \ R /\ s2.running = s.running \ R /\ s2.swapped = s.swapped \ R
      /\ s2.shared[r] = IF r \in R THEN <<>> ELSE s.shared[r]
  BY RemoveRequestsType
<1>2. CASE r \in R
  <2>1. q2[r] = [Submitted(r) EXCEPT !.state = how, !.cancelled = q[r].cancelled]
    BY <1>2 DEF Ended
  <2>2. PICK c, v : c = q[r].cancelled /\ v = q2[r] /\ v = [Submitted(r) EXCEPT !.state = how, !.cancelled = c]
    BY <2>1
  <2>3. r \notin s2.waiting /\ r \notin s2.running /\ r \notin s2.swapped
    BY <1>1, <1>2
  <2>4. Gone(v, s2, r)
    BY ONLY r \in Reqs, how \in Outcomes, <2>2, <2>3, EndedIdle
  <2> QED BY <1>2, <2>2, <2>4
<1>3. CASE r \notin R
  <2>1. q2[r] = q[r]
    BY <1>3 DEF Ended
  <2>2. /\ s2.rem[r] = s.rem[r] /\ s2.ctx[r] = s.ctx[r] /\ s2.gen[r] = s.gen[r]
    BY <1>3, RemovedProgress
  <2> QED BY <1>1, <1>3, <2>1, <2>2 DEF Alike
<1> QED BY <1>2, <1>3

\* A request that is gone is in step.
LEMMA GoneInStep ==
  ASSUME NEW v, NEW s, NEW r, Gone(v, s, r)
  PROVE  InStep(v, s, r) /\ v.state # "active"
<1>1. v.swap.data = <<>>
  BY DEF Gone, NoSwap
<1>2. Stored(v)
  BY <1>1 DEF Stored
<1> QED BY <1>2 DEF Gone, InStep, Outcomes

(***************************************************************************)
(* Step 10, request by request: the others keep their progress, and the    *)
(* table of r grows without changing r's, unless memory runs out.          *)
(***************************************************************************)
Moves(y, z, r) == \A x \in Reqs \ {r} : Alike(y.q[x], y.s, z.q[x], z.s, x)
Grown(y, z, r) ==
  /\ Moves(y, z, r)
  /\ Gone(z.q[r], z.s, r) \/ Alike(y.q[r], y.s, z.q[r], z.s, r)

\* Steps that concern the same request compose.
LEMMA MovesChain ==
  ASSUME NEW x, NEW y, NEW z, NEW r, Moves(x, y, r), Moves(y, z, r)
  PROVE  Moves(x, z, r)
  BY AlikeChain DEF Moves

\* Growing a table twice is growing it.
LEMMA GrownChain ==
  ASSUME NEW x, NEW y, NEW z, NEW r, Grown(x, y, r), Grown(y, z, r)
  PROVE  Grown(x, z, r)
<1>1. Moves(x, z, r)
  BY MovesChain DEF Grown
<1>2. CASE Gone(z.q[r], z.s, r)
  BY <1>1, <1>2 DEF Grown
<1>3. CASE Alike(y.q[r], y.s, z.q[r], z.s, r) /\ Gone(y.q[r], y.s, r)
  <2>1. Gone(z.q[r], z.s, r)
    BY <1>3 DEF Alike, Gone, Idle
  <2> QED BY <1>1, <2>1 DEF Grown
<1>4. CASE Alike(y.q[r], y.s, z.q[r], z.s, r) /\ Alike(x.q[r], x.s, y.q[r], y.s, r)
  <2>1. Alike(x.q[r], x.s, z.q[r], z.s, r)
    BY <1>4, AlikeChain
  <2> QED BY <1>1, <2>1 DEF Grown
<1> QED BY <1>2, <1>3, <1>4 DEF Grown

\* FinishRequest ends one request and leaves the others.
LEMMA FinishProgress ==
  ASSUME NEW B \in SUBSET Reqs, NEW y, Working(y, B), NEW r \in Reqs, NEW how \in Outcomes,
         NEW z, z = Finish(y, r, how)
  PROVE  Moves(y, z, r) /\ Gone(z.q[r], z.s, r)
<1>0. y.q \in [Reqs -> ReqRecs] /\ y.s \in Scheds
  BY DEF Working, Sound
<1>1. PICK R \in SUBSET Reqs : R = {r}
  OBVIOUS
<1>2. z.s = RemoveRequests(y.s, R) /\ z.q = Ended(y.q, R, how)
  BY <1>1 DEF Finish
<1>3. \A x \in Reqs : IF x \in R THEN Gone(z.q[x], z.s, x) ELSE Alike(y.q[x], y.s, z.q[x], z.s, x)
  BY <1>0, <1>2, EndProgress
<1> QED BY <1>1, <1>3 DEF Moves

\* A block for the next token moves nobody.
LEMMA GrowTableProgress ==
  ASSUME NEW B \in SUBSET Reqs, NEW y, Working(y, B), NEW r \in B, NEW z \in GrowTable(y, r)
  PROVE  Grown(y, z, r)
<1>0. y = [m |-> y.m, s |-> y.s, q |-> y.q] /\ y.q \in [Reqs -> ReqRecs] /\ y.s \in Scheds /\ r \in Reqs
  BY DEF Working, Sound
<1>1. CASE z = y
  BY <1>1 DEF Grown, Moves, Alike
<1>2. CASE z # y
  <2>1. PICK a \in AllocateSingle(y.m) :
           z = IF a.id = NoBlock THEN Finish(y, r, "oom")
               ELSE [y EXCEPT !.m = a.next, !.q[r].table = Append(@, a.id)]
    BY <1>2 DEF GrowTable
  <2>2. CASE a.id = NoBlock
    <3>1. "oom" \in Outcomes
      BY DEF Outcomes
    <3>2. z = Finish(y, r, "oom")
      BY <2>1, <2>2
    <3> QED BY <1>0, <3>1, <3>2, FinishProgress DEF Grown
  <2>3. CASE a.id # NoBlock
    <3>1. PICK u, n : u = Append(y.q[r].table, a.id) /\ n = a.next
      OBVIOUS
    <3>2. PICK q2 : q2 = [y.q EXCEPT ![r].table = u]
      OBVIOUS
    <3>3. z = [y EXCEPT !.m = n, !.q[r].table = u]
      BY <2>1, <2>3, <3>1
    <3>4. z = [m |-> n, s |-> y.s, q |-> q2]
      BY <1>0, <3>2, <3>3
    <3>5. \A x \in Reqs \ {r} : q2[x] = y.q[x]
      BY <1>0, <3>2
    <3>6. q2[r] = [y.q[r] EXCEPT !.table = u] /\ y.q[r] \in ReqRecs
      BY <1>0, <3>2
    <3>7. /\ q2[r].state = y.q[r].state /\ q2[r].prefill = y.q[r].prefill /\ q2[r].rem = y.q[r].rem
          /\ q2[r].n_past = y.q[r].n_past /\ q2[r].gen = y.q[r].gen /\ q2[r].swap = y.q[r].swap
      BY <3>6 DEF ReqRecs
    <3>8. z.s = y.s /\ z.q = q2
      BY <3>4
    <3> QED BY <3>5, <3>7, <3>8 DEF Grown, Moves, Alike
  <2> QED BY <2>2, <2>3
<1> QED BY <1>1, <1>2

GrownSoFar(s, X, p) == \A z \in X : Working(z, p.B) /\ Grown(p.y, z, p.r)
GrowingOn == INSTANCE Folding_proofs WITH Choose <- Max, Step <- GrowStep, Good <- GrownSoFar

\* Growing a table up to the block of the next token moves nobody.
LEMMA GrowProgress ==
  ASSUME NEW B \in SUBSET Reqs, NEW y, Working(y, B), NEW r \in B, NEW z \in Grow(y, r)
  PROVE  Grown(y, z, r)
<1>0. PICK p : p.r = r /\ p.B = B /\ p.y = y
  <2>1. PICK p : p = [r |-> r, B |-> B, y |-> y]
    OBVIOUS
  <2> QED BY <2>1
<1> DEFINE missing == BlocksNeeded(y.q[p.r].n_past + 1) - Len(y.q[p.r].table)
           seq == [i \in 1 .. missing |-> i]
<1>1. Grow(y, p.r) = GrowingOn!Fold(DOMAIN seq, {y}, p)
  BY Zenon DEF Grow, Visit, FoldLeft, MapThenFoldSet, GrowingOn!Fold, GrowingOn!MapThenFoldSet, GrowStep
<1>2. missing \in Int
  <2>1. y.q[r] \in ReqRecs
    BY DEF Working, Sound
  <2>2. y.q[r].n_past \in Int /\ Len(y.q[r].table) \in Int
    BY <2>1 DEF ReqRecs
  <2>3. BlocksNeeded(y.q[r].n_past + 1) \in Int
    BY <2>2, BlocksNeededType
  <2> QED BY <1>0, <2>2, <2>3
<1>3. PICK n \in Nat : DOMAIN seq = 1 .. n
  <2>1. CASE missing >= 0
    BY <1>2, <2>1
  <2>2. CASE missing < 0
    <3>1. 1 .. missing = 1 .. 0
      BY <1>2, <2>2
    <3> QED BY <3>1
  <2> QED BY <1>2, <2>1, <2>2
<1> HIDE DEF seq
<1>4. GrownSoFar({}, {y}, p)
  BY <1>0 DEF GrownSoFar, Grown, Moves, Alike
<1>5. GrowingOn!KeptByVisits(n, p)
  <2>1. ASSUME NEW i \in 1 .. n, NEW X, GrownSoFar(1 .. (i - 1), X, p)
        PROVE  GrownSoFar(1 .. i, GrowStep(i, X, p), p)
    <3> SUFFICES ASSUME NEW w \in GrowStep(i, X, p) PROVE Working(w, B) /\ Grown(y, w, r)
      BY <1>0 DEF GrownSoFar
    <3>1. PICK x \in X : w \in GrowTable(x, r)
      BY <1>0 DEF GrowStep
    <3>2. Working(x, B) /\ Grown(y, x, r)
      BY <1>0, <2>1 DEF GrownSoFar
    <3>3. Working(w, B) /\ Grown(x, w, r)
      BY <3>1, <3>2, GrowTableWorking, GrowTableProgress
    <3> QED BY <3>2, <3>3, GrownChain
  <2> QED BY <2>1 DEF GrowingOn!KeptByVisits
<1>6. GrowingOn!FromFirst(n)
  BY DEF GrowingOn!FromFirst, GrowingOn!Latest, Max
<1>7. GrownSoFar(1 .. n, GrowingOn!Fold(1 .. n, {y}, p), p)
  BY ONLY n \in Nat, <1>4, <1>5, <1>6, GrowingOn!VisitInvariant
<1> QED BY <1>0, <1>1, <1>3, <1>7 DEF GrownSoFar

(***************************************************************************)
(* r is about to get the token sampled from its last position.             *)
(***************************************************************************)
Sampling(v, s, r) ==
  /\ Stored(v) /\ v.state = "active" /\ v.prefill = FALSE
  /\ r \notin s.waiting /\ (r \in s.running <=> r \notin s.swapped)
  /\ v.rem = 0 /\ s.rem[r] = 0
  /\ 0 <= v.gen /\ s.gen[r] = v.gen
  /\ v.n_past = PromptLen(r) + v.gen /\ s.ctx[r] = v.n_past

\* A token was sampled: the request goes on generating, or ends.
LEMMA SampledProgress ==
  ASSUME NEW B \in SUBSET Reqs, NEW y, Working(y, B), NEW r \in B, Sampling(y.q[r], y.s, r),
         NEW w \in Sampled(y, r)
  PROVE  Moves(y, w, r) /\ InStep(w.q[r], w.s, r)
<1>0. /\ y = [m |-> y.m, s |-> y.s, q |-> y.q] /\ y.q \in [Reqs -> ReqRecs] /\ y.s \in Scheds /\ r \in Reqs
      /\ Fits(y.q[r], y.s, r)
  BY DEF Working, Sound
<1>1. PICK g \in Int : g = y.q[r].gen + 1
  BY <1>0 DEF ReqRecs
<1>2. PICK q2 \in [Reqs -> ReqRecs] : q2 = [y.q EXCEPT ![r].gen = g]
  <2>1. [y.q[r] EXCEPT !.gen = g] \in ReqRecs
    BY <1>0 DEF ReqRecs
  <2> QED BY <1>0, <2>1
<1>3. PICK z : z = [y EXCEPT !.q[r].gen = @ + 1]
  OBVIOUS
<1>4. z = [m |-> y.m, s |-> y.s, q |-> q2] /\ z.s = y.s /\ z.q = q2
  <2>1. z = [y EXCEPT !.q[r].gen = g]
    BY <1>1, <1>3
  <2>2. z = [m |-> y.m, s |-> y.s, q |-> q2]
    BY <1>0, <1>2, <2>1
  <2> QED BY <2>2
<1>5. /\ \A x \in Reqs \ {r} : q2[x] = y.q[x]
      /\ q2[r].table = y.q[r].table /\ q2[r].state = y.q[r].state /\ q2[r].prefill = y.q[r].prefill
      /\ q2[r].rem = y.q[r].rem /\ q2[r].n_past = y.q[r].n_past /\ q2[r].gen = g
      /\ q2[r].swap = y.q[r].swap
  BY <1>0, <1>2 DEF ReqRecs
<1>6. Working(z, B)
  <2>1. SameBut(y.q, q2, y.s, y.s, r)
    BY <1>5 DEF SameBut
  <2>2. r \in y.s.waiting => r \notin y.s.running /\ r \notin y.s.swapped /\ q2[r].prefill = TRUE
    BY <1>0, <1>5 DEF Fits
  <2> QED BY <1>0, <1>4, <1>5, <2>1, <2>2, TouchWorking
<1>7. Moves(y, z, r)
  BY <1>4, <1>5 DEF Moves, Alike
<1>8. PICK x \in Grow(z, r) :
        \/ w = Finish(x, r, "ok")
        \/ w = x /\ (x.q[r].state = "active" => ~LimitReached(x.q, r))
  BY <1>3 DEF Sampled
<1>9. Working(x, B) /\ Grown(z, x, r)
  BY <1>6, <1>8, GrowWorking, GrowProgress
<1>10. Moves(y, x, r)
  BY <1>7, <1>9, MovesChain DEF Grown
<1>11. CASE w = Finish(x, r, "ok")
  <2>1. "ok" \in Outcomes
    BY DEF Outcomes
  <2>2. Moves(x, w, r) /\ Gone(w.q[r], w.s, r)
    BY <1>0, <1>9, <1>11, <2>1, FinishProgress
  <2> QED BY <1>10, <2>2, MovesChain, GoneInStep
<1>12. CASE w = x /\ Gone(x.q[r], x.s, r)
  BY <1>10, <1>12, GoneInStep
<1>13. CASE w = x /\ Alike(z.q[r], z.s, x.q[r], x.s, r) /\ (x.q[r].state = "active" => ~LimitReached(x.q, r))
  <2>1. Stored(x.q[r]) /\ x.q[r].state = "active" /\ x.q[r].prefill = FALSE
    BY <1>4, <1>5, <1>13 DEF Alike, Sampling, Stored
  <2>2. ~(g >= MaxTokens[r]) /\ MaxTokens[r] \in Int
    BY <1>0, <1>4, <1>5, <1>13, <2>1, MaxTokensAssumption DEF Alike, LimitReached
  <2>3. PromptLen(r) \in Int
    BY <1>0, PromptLenType
  <2>4. Generating(x.q[r], x.s, r)
    <3>1. /\ x.q[r].gen = g /\ x.q[r].n_past = y.q[r].n_past /\ x.q[r].rem = y.q[r].rem
          /\ x.s.gen[r] = y.s.gen[r] /\ x.s.ctx[r] = y.s.ctx[r] /\ x.s.rem[r] = y.s.rem[r]
          /\ r \in x.s.waiting <=> r \in y.s.waiting
          /\ r \in x.s.running <=> r \in y.s.running
          /\ r \in x.s.swapped <=> r \in y.s.swapped
      BY <1>4, <1>5, <1>13 DEF Alike
    <3>2. PICK a \in Int, l \in Int, n \in Int :
             a = y.q[r].gen /\ l = PromptLen(r) /\ n = MaxTokens[r]
      BY <1>0, <2>2, <2>3 DEF ReqRecs
    <3>3. g = a + 1 /\ 0 <= a /\ ~(g >= n)
      BY <1>1, <2>2, <3>2 DEF Sampling
    <3>4. 1 <= g /\ g <= n - 1 /\ a = g - 1 /\ l + a = l + g - 1
      BY ONLY a \in Int, l \in Int, n \in Int, g \in Int, <3>3
    <3>5. x.s.gen[r] = a /\ x.q[r].n_past = l + a /\ x.s.ctx[r] = l + a
      BY <3>1, <3>2 DEF Sampling
    <3>6. r \notin x.s.waiting /\ (r \in x.s.running <=> r \notin x.s.swapped) /\ x.q[r].rem = 0 /\ x.s.rem[r] = 0
      BY <3>1 DEF Sampling
    <3> QED BY <3>1, <3>2, <3>4, <3>5, <3>6 DEF Generating
  <2>5. InStep(x.q[r], x.s, r)
    BY <2>1, <2>4 DEF InStep
  <2> QED BY <1>10, <1>13, <2>5
<1> QED BY <1>8, <1>9, <1>11, <1>12, <1>13 DEF Grown

(***************************************************************************)
(* What the scheduler records when a chunk is done: its tokens, and if it  *)
(* was the last chunk, that the sequence is running.                       *)
(***************************************************************************)
ChunkDone(s, s2, r, n, d) ==
  /\ s2 \in Scheds /\ s2.shared = s.shared /\ s2.swapped = s.swapped
  /\ s2.gen = s.gen /\ s2.rem[r] = d /\ s2.ctx[r] = s.ctx[r] + n
  /\ \A x \in Reqs \ {r} : s2.rem[x] = s.rem[x] /\ s2.ctx[x] = s.ctx[x]
  /\ s2.waiting = IF d = 0 THEN s.waiting \ {r} ELSE s.waiting
  /\ s2.running = IF d = 0 THEN s.running \union {r} ELSE s.running

\* OnPrefillChunkComplete, when the chunk leaves d tokens of the prompt.
LEMMA PrefillComplete ==
  ASSUME NEW s \in Scheds, NEW r \in Reqs, NEW n \in Int, NEW d \in Int, d = s.rem[r] - n, d >= 0,
         NEW last \in BOOLEAN, last = (d = 0), NEW s2, s2 = OnPrefillChunkComplete(s, r, n, last)
  PROVE  ChunkDone(s, s2, r, n, d)
<1>0. s2 \in Scheds /\ s2.shared = s.shared /\ s2.swapped = s.swapped
  BY ONLY s \in Scheds, r \in Reqs, n \in Int, s2 = OnPrefillChunkComplete(s, r, n, last), PrefillCompleteType
<1> SUFFICES /\ s2.gen = s.gen /\ s2.rem[r] = d /\ s2.ctx[r] = s.ctx[r] + n
             /\ \A x \in Reqs \ {r} : s2.rem[x] = s.rem[x] /\ s2.ctx[x] = s.ctx[x]
             /\ s2.waiting = IF d = 0 THEN s.waiting \ {r} ELSE s.waiting
             /\ s2.running = IF d = 0 THEN s.running \union {r} ELSE s.running
  BY <1>0 DEF ChunkDone
<1>1. PICK x \in Int : x = s.ctx[r] + n
  BY DEF Scheds
<1>3. d = Max({0, d})
  <2>1. PICK a \in Int : a = 0
    OBVIOUS
  <2>2. Max({a, d}) \in {a, d} /\ Max({a, d}) >= a /\ Max({a, d}) >= d
    BY MinMaxType
  <2>3. Max({0, d}) \in {0, d} /\ Max({0, d}) >= d
    BY <2>1, <2>2
  <2> QED BY <2>3
<1>4. PICK t : t = [s EXCEPT !.ctx[r] = x, !.rem[r] = d]
  OBVIOUS
<1>5. /\ t \in Scheds /\ t.waiting = s.waiting /\ t.running = s.running /\ t.gen = s.gen
      /\ t.ctx = [s.ctx EXCEPT ![r] = x] /\ t.rem = [s.rem EXCEPT ![r] = d]
  BY <1>4 DEF Scheds
<1>6. /\ t.ctx[r] = x /\ t.rem[r] = d
      /\ \A e \in Reqs \ {r} : t.rem[e] = s.rem[e] /\ t.ctx[e] = s.ctx[e]
  BY <1>5 DEF Scheds
<1>7. s2 = IF last \/ t.rem[r] = 0
           THEN [t EXCEPT !.waiting = @ \ {r}, !.running = @ \union {r}, !.rem[r] = 0]
           ELSE t
  BY <1>1, <1>3, <1>4, Zenon DEF OnPrefillChunkComplete
<1>8. CASE d = 0
  <2>0. PICK W \in SUBSET Reqs, R \in SUBSET Reqs : W = t.waiting \ {r} /\ R = t.running \union {r}
    BY <1>5 DEF Scheds
  <2>1. s2 = [t EXCEPT !.waiting = W, !.running = R, !.rem[r] = d]
    BY <1>6, <1>7, <1>8, <2>0
  <2>2. PICK f : f = [t.rem EXCEPT ![r] = d]
    OBVIOUS
  <2>3. s2 = [waiting |-> W, running |-> R, swapped |-> t.swapped, rem |-> f, shared |-> t.shared,
              ctx |-> t.ctx, gen |-> t.gen, sblk |-> t.sblk, arr |-> t.arr, clock |-> t.clock,
              streak |-> t.streak]
    BY <1>5, <2>1, <2>2 DEF Scheds
  <2>4. f[r] = d /\ \A e \in Reqs \ {r} : f[e] = t.rem[e]
    BY <1>5, <2>2 DEF Scheds
  <2>5. s2.waiting = W /\ s2.running = R /\ s2.rem = f /\ s2.ctx = t.ctx /\ s2.gen = t.gen
    BY <2>3
  <2> QED BY <1>1, <1>5, <1>6, <1>8, <2>0, <2>4, <2>5
<1>9. CASE d # 0
  <2>1. s2 = t
    BY <1>6, <1>7, <1>9
  <2> QED BY <1>1, <1>5, <1>6, <1>9, <2>1
<1> QED BY <1>8, <1>9

\* OnDecodeStepComplete: one token more, in context and in output.
LEMMA DecodeComplete ==
  ASSUME NEW s \in Scheds, NEW r \in Reqs, NEW s2, s2 = OnDecodeStepComplete(s, r, 1)
  PROVE  /\ s2.rem = s.rem /\ s2.gen[r] = s.gen[r] + 1 /\ s2.ctx[r] = s.ctx[r] + 1
         /\ \A x \in Reqs \ {r} : s2.gen[x] = s.gen[x] /\ s2.ctx[x] = s.ctx[x]
<1>1. PICK x \in Int : x = s.ctx[r] + 1
  BY DEF Scheds
<1>2. PICK g \in Int : g = s.gen[r] + 1
  BY DEF Scheds
<1>3. PICK R \in SUBSET Reqs : R = s.running \union {r}
  BY DEF Scheds
<1>4. s2 = [s EXCEPT !.running = R, !.gen[r] = g, !.ctx[r] = x]
  BY <1>1, <1>2, <1>3, Zenon DEF OnDecodeStepComplete
<1>5. s2.rem = s.rem /\ s2.gen = [s.gen EXCEPT ![r] = g] /\ s2.ctx = [s.ctx EXCEPT ![r] = x]
  BY <1>4 DEF Scheds
<1>6. /\ s2.gen[r] = g /\ s2.ctx[r] = x
      /\ \A e \in Reqs \ {r} : s2.gen[e] = s.gen[e] /\ s2.ctx[e] = s.ctx[e]
  BY <1>5 DEF Scheds
<1> QED BY <1>1, <1>2, <1>5, <1>6

(***************************************************************************)
(* The prompt blocks are registered without any progress.                  *)
(***************************************************************************)
LEMMA RegisterProgress ==
  ASSUME NEW B \in SUBSET Reqs, NEW y, Working(y, B), NEW r \in B, NEW z, z = RegisterCompleted(y, r)
  PROVE  z.s = y.s /\ \A x \in Reqs : StillAt(y.q[x], z.q[x])
<1>0. /\ y = [m |-> y.m, s |-> y.s, q |-> y.q] /\ y.q \in [Reqs -> ReqRecs] /\ r \in Reqs
  BY DEF Working, Sound
<1>1. CASE z = y
  BY <1>1 DEF StillAt
<1>2. CASE z # y
  <2>1. PICK n, reg : z = [y EXCEPT !.m = n, !.q[r].reg = reg]
    BY <1>2, Zenon DEF RegisterCompleted
  <2>2. PICK q2 : q2 = [y.q EXCEPT ![r].reg = reg]
    OBVIOUS
  <2>3. z = [m |-> n, s |-> y.s, q |-> q2]
    BY <1>0, <2>1, <2>2
  <2>4. z.s = y.s /\ z.q = q2
    BY <2>3
  <2>5. \A x \in Reqs \ {r} : q2[x] = y.q[x]
    BY <1>0, <2>2
  <2>6. q2[r] = [y.q[r] EXCEPT !.reg = reg] /\ y.q[r] \in ReqRecs
    BY <1>0, <2>2
  <2>7. StillAt(y.q[r], q2[r])
    BY <2>6 DEF ReqRecs, StillAt
  <2> QED BY <2>4, <2>5, <2>7 DEF StillAt
<1> QED BY <1>1, <1>2

(***************************************************************************)
(* A chunk of the prompt was computed.                                     *)
(***************************************************************************)
LEMMA TokensToTakeValue ==
  ASSUME req \in [Reqs -> ReqRecs], out \in Outs, NEW r \in Reqs,
         req[r].prefill = TRUE, req[r].rem >= 0, out.chunk[r] >= 0
  PROVE  /\ TokensToTake(r) \in Int /\ 0 <= TokensToTake(r)
         /\ TokensToTake(r) <= req[r].rem /\ TokensToTake(r) <= out.chunk[r]
<1>1. PICK a \in Int, b \in Int : a = req[r].rem /\ b = out.chunk[r]
  BY DEF ReqRecs, Outs
<1>2. Min({a, b}) \in {a, b} /\ Min({a, b}) <= a /\ Min({a, b}) <= b
  BY MinMaxType
<1>3. TokensToTake(r) = Min({a, b})
  BY <1>1 DEF TokensToTake
<1> QED BY <1>1, <1>2, <1>3

\* A chunk was prefilled: the next one waits, or the first token is sampled.
LEMMA PrefillStepProgress ==
  ASSUME req \in [Reqs -> ReqRecs], out \in Outs,
         NEW B \in SUBSET Reqs, NEW y, Working(y, B), NEW r \in B,
         y.q[r].state = "active", y.q[r].prefill = TRUE, InStep(y.q[r], y.s, r),
         req[r].prefill = TRUE, req[r].rem = y.q[r].rem, out.chunk[r] >= 0,
         NEW w \in PrefillStep(y, r)
  PROVE  Moves(y, w, r) /\ InStep(w.q[r], w.s, r)
<1>0. /\ y = [m |-> y.m, s |-> y.s, q |-> y.q] /\ y.q \in [Reqs -> ReqRecs] /\ y.s \in Scheds /\ r \in Reqs
      /\ Fits(y.q[r], y.s, r) /\ y.s.shared[r] = <<>>
  BY DEF Working, Sound, Ready
<1>r. r \in Reqs
  OBVIOUS
<1>p. Prefilling(y.q[r], y.s, r) /\ Stored(y.q[r])
  BY DEF InStep
<1>a. Ahead(y.s, r) = 0
  BY <1>0, BlockSizeAssumption DEF Ahead
<1>b. PICK past \in Int, rem \in Int, len \in Int, ctx \in Int :
        /\ past = y.q[r].n_past /\ rem = y.q[r].rem /\ len = PromptLen(r) /\ ctx = y.s.ctx[r]
  <2>1. y.q[r].n_past \in Int /\ y.q[r].rem \in Int
    BY <1>0 DEF ReqRecs
  <2>2. y.s.ctx[r] \in Int
    BY <1>0 DEF Scheds
  <2>3. PromptLen(r) \in Int
    BY <1>0, PromptLenType
  <2> QED BY ONLY <2>1, <2>2, <2>3
<1>c. past >= 0 /\ past + rem = len /\ 0 <= rem /\ ctx = past /\ y.s.rem[r] = rem
  BY <1>p, <1>a, <1>b DEF Prefilling
<1>1. PICK k \in Int : k = TokensToTake(r) /\ 0 <= k /\ k <= rem
  BY <1>0, <1>b, <1>c, TokensToTakeValue
<1>d. PICK d \in Int : d = rem - k /\ d >= 0
  BY <1>1
<1>2. PICK last \in BOOLEAN : last = (k = req[r].rem)
  OBVIOUS
<1>e. last = (d = 0)
  BY <1>b, <1>1, <1>2, <1>d
<1>3. PICK y1 : y1 = [y EXCEPT !.q = Advance(@, r, k)]
  OBVIOUS
<1>4. PICK z : z = RegisterCompleted(y1, r)
  OBVIOUS
<1>5. PICK x : x = [z EXCEPT !.s = OnPrefillChunkComplete(@, r, k, last), !.q[r].prefill = ~last]
  OBVIOUS
<1>6. (last = TRUE /\ w \in Sampled(x, r)) \/ (last = FALSE /\ w = x)
  BY <1>1, <1>2, <1>3, <1>4, <1>5, Zenon DEF PrefillStep
<1>7. PICK a \in Int : a = past + k
  OBVIOUS
<1>8. /\ Working(y1, B) /\ y1.s = y.s /\ \A e \in Reqs \ {r} : y1.q[e] = y.q[e]
      /\ y1.q[r].prefill = TRUE /\ y1.q[r].n_past = a /\ y1.q[r].rem = d /\ y1.q[r].state = "active"
      /\ y1.q[r].gen = y.q[r].gen /\ y1.q[r].swap = y.q[r].swap
  <2>2. PICK q2 \in [Reqs -> ReqRecs] : q2 = [y.q EXCEPT ![r].n_past = a, ![r].rem = d]
    <3>1. [y.q EXCEPT ![r].n_past = a] \in [Reqs -> ReqRecs]
      <4>1. [y.q[r] EXCEPT !.n_past = a] \in ReqRecs
        BY <1>0 DEF ReqRecs
      <4> QED BY <1>0, <4>1
    <3>2. PICK p \in [Reqs -> ReqRecs] : p = [y.q EXCEPT ![r].n_past = a]
      BY <3>1
    <3>3. [p[r] EXCEPT !.rem = d] \in ReqRecs
      BY <1>0 DEF ReqRecs
    <3>4. [p EXCEPT ![r].rem = d] \in [Reqs -> ReqRecs]
      BY <3>3
    <3> QED BY <3>2, <3>4
  <2>3. Advance(y.q, r, k) = q2
    <3>1. PICK p : p = [y.q EXCEPT ![r].n_past = a]
      OBVIOUS
    <3>2. p[r].rem = y.q[r].rem
      BY <1>0, <3>1 DEF ReqRecs
    <3>3. p = [y.q EXCEPT ![r].n_past = @ + k]
      BY <1>b, <1>7, <3>1
    <3>4. Advance(y.q, r, k) = [p EXCEPT ![r].rem = @ - k]
      BY <3>3 DEF Advance
    <3>5. q2 = [p EXCEPT ![r].rem = d]
      BY <2>2, <3>1
    <3> QED BY <1>b, <1>d, <3>2, <3>4, <3>5
  <2>4. y1 = [m |-> y.m, s |-> y.s, q |-> q2]
    BY <1>0, <1>3, <2>3
  <2>5. /\ q2[r].table = y.q[r].table /\ q2[r].state = y.q[r].state /\ q2[r].prefill = y.q[r].prefill
        /\ q2[r].n_past = a /\ q2[r].rem = d /\ q2[r].gen = y.q[r].gen /\ q2[r].swap = y.q[r].swap
        /\ \A e \in Reqs \ {r} : q2[e] = y.q[e]
    BY <1>0, <2>2 DEF ReqRecs
  <2>6. SameBut(y.q, q2, y.s, y.s, r)
    BY <2>5 DEF SameBut
  <2>7. r \in y.s.waiting => r \notin y.s.running /\ r \notin y.s.swapped /\ q2[r].prefill = TRUE
    BY <1>0, <2>5 DEF Fits
  <2>8. Working(y1, B)
    BY <1>0, <2>4, <2>5, <2>6, <2>7, TouchWorking
  <2>9. y1.s = y.s /\ y1.q = q2
    BY <2>4
  <2> QED BY <2>5, <2>8, <2>9
<1>9. Working(z, B) /\ z.s = y.s /\ \A e \in Reqs : StillAt(y1.q[e], z.q[e])
  BY <1>4, <1>8, RegisterWorking, RegisterProgress
<1>z. /\ z = [m |-> z.m, s |-> z.s, q |-> z.q] /\ z.q \in [Reqs -> ReqRecs] /\ z.s \in Scheds
      /\ Fits(z.q[r], z.s, r)
  BY <1>0, <1>9 DEF Working, Sound
<1>f. PICK s \in Scheds : s = z.s
  BY <1>z
<1>10. PICK s2 : s2 = OnPrefillChunkComplete(s, r, k, last)
  OBVIOUS
<1>g. ChunkDone(s, s2, r, k, d)
  <2>1. d = s.rem[r] - k /\ d >= 0
    BY ONLY <1>c, <1>d, <1>f, <1>9
  <2>2. PICK e \in Reqs : e = r
    BY <1>r
  <2>3. d = s.rem[e] - k /\ d >= 0 /\ s2 = OnPrefillChunkComplete(s, e, k, last)
    BY ONLY <1>10, <2>1, <2>2
  <2>4. ChunkDone(s, s2, e, k, d)
    BY ONLY s \in Scheds, e \in Reqs, k \in Int, d \in Int, last \in BOOLEAN, <1>e, <2>3, PrefillComplete
  <2> QED BY ONLY <2>2, <2>4
<1>12. /\ s2.gen = z.s.gen /\ s2.rem[r] = d /\ s2.ctx[r] = z.s.ctx[r] + k
       /\ \A e \in Reqs \ {r} : s2.rem[e] = z.s.rem[e] /\ s2.ctx[e] = z.s.ctx[e]
       /\ s2.waiting = IF d = 0 THEN z.s.waiting \ {r} ELSE z.s.waiting
       /\ s2.running = IF d = 0 THEN z.s.running \union {r} ELSE z.s.running
  BY ONLY <1>f, <1>g DEF ChunkDone
<1>11. /\ s2 \in Scheds /\ s2.shared = z.s.shared /\ s2.swapped = z.s.swapped
       /\ \/ s2.waiting = z.s.waiting /\ s2.running = z.s.running /\ ~last
          \/ s2.waiting = z.s.waiting \ {r} /\ s2.running = z.s.running \union {r}
  <2>1. s2 \in Scheds /\ s2.shared = z.s.shared /\ s2.swapped = z.s.swapped
    BY ONLY <1>f, <1>g DEF ChunkDone
  <2> QED BY ONLY <1>e, <1>12, <2>1
<1>13. PICK p \in BOOLEAN : p = ~last
  OBVIOUS
<1>14. PICK q2 \in [Reqs -> ReqRecs] : q2 = [z.q EXCEPT ![r].prefill = p]
  <2>1. [z.q[r] EXCEPT !.prefill = p] \in ReqRecs
    BY <1>0, <1>z DEF ReqRecs
  <2> QED BY <1>z, <2>1
<1>15. x = [m |-> z.m, s |-> s2, q |-> q2]
  <2>1. x = [z EXCEPT !.s = s2, !.q[r].prefill = p]
    BY <1>5, <1>f, <1>10, <1>13
  <2> QED BY <1>z, <1>14, <2>1
<1>16. /\ q2[r].table = z.q[r].table /\ q2[r].state = z.q[r].state /\ q2[r].prefill = p
       /\ q2[r].n_past = z.q[r].n_past /\ q2[r].rem = z.q[r].rem /\ q2[r].gen = z.q[r].gen
       /\ q2[r].swap = z.q[r].swap
       /\ \A e \in Reqs \ {r} : q2[e] = z.q[e]
  BY <1>0, <1>z, <1>14 DEF ReqRecs
<1>17. x.s = s2 /\ x.q = q2
  BY <1>15
<1>18. Working(x, B)
  <2>7. SameBut(z.q, q2, z.s, s2, r)
    BY <1>11, <1>16 DEF SameBut
  <2>8. r \in s2.waiting => r \notin s2.running /\ r \notin s2.swapped /\ q2[r].prefill = TRUE
    BY <1>z, <1>11, <1>13, <1>16 DEF Fits
  <2>9. s2.shared[r] = z.s.shared[r]
    BY <1>11
  <2>10. z.q[r].state = q2[r].state /\ z.q[r].table = q2[r].table
    BY <1>16
  <2> QED BY <1>9, <1>11, <1>15, <1>14, <1>16, <2>7, <2>8, <2>9, <2>10, TouchWorking
<1>19. Moves(y, x, r)
  <2> SUFFICES ASSUME NEW e \in Reqs \ {r} PROVE Alike(y.q[e], y.s, x.q[e], x.s, e)
    BY DEF Moves
  <2>1. StillAt(y.q[e], q2[e])
    BY <1>8, <1>9, <1>16 DEF StillAt
  <2>2. /\ s2.rem[e] = y.s.rem[e] /\ s2.ctx[e] = y.s.ctx[e] /\ s2.gen[e] = y.s.gen[e] /\ s2.shared[e] = y.s.shared[e]
        /\ e \in s2.waiting <=> e \in y.s.waiting
        /\ e \in s2.running <=> e \in y.s.running
        /\ e \in s2.swapped <=> e \in y.s.swapped
    BY <1>9, <1>11, <1>12
  <2> QED BY <1>17, <2>1, <2>2 DEF StillAt, Alike
<1>20. /\ x.q[r].state = "active" /\ x.q[r].prefill = p /\ x.q[r].n_past = a /\ x.q[r].rem = d
       /\ x.q[r].gen = 0 /\ x.q[r].swap = y.q[r].swap
       /\ x.s.rem[r] = d /\ x.s.ctx[r] = a /\ x.s.gen[r] = 0 /\ x.s.shared[r] = <<>>
       /\ r \notin x.s.swapped
  <2>1. StillAt(y1.q[r], z.q[r]) /\ y.q[r].gen = 0 /\ y.s.gen[r] = 0 /\ r \notin y.s.swapped
    BY <1>0, <1>9, <1>p DEF Prefilling
  <2>2. s2.ctx[r] = a
    BY <1>b, <1>c, <1>7, <1>9, <1>12
  <2> QED BY <1>0, <1>8, <1>9, <1>11, <1>12, <1>16, <1>17, <2>1, <2>2 DEF StillAt
<1>21. Stored(x.q[r])
  BY <1>p, <1>20 DEF Stored
<1>22. CASE last = TRUE
  <2>1. d = 0 /\ p = FALSE /\ a = len
    <3>1. d = 0 /\ p = FALSE
      BY ONLY <1>e, <1>13, <1>22, p \in BOOLEAN, last \in BOOLEAN
    <3>2. a = len
      BY ONLY <1>c, <1>d, <1>7, <3>1, a \in Int, d \in Int, k \in Int, len \in Int, past \in Int, rem \in Int
    <3> QED BY <3>1, <3>2
  <2>2. r \notin x.s.waiting /\ r \in x.s.running
    BY <1>12, <1>17, <2>1
  <2>3. Sampling(x.q[r], x.s, r)
    <3>1. x.q[r].gen = 0 /\ x.q[r].n_past = len /\ len = len + 0
      BY <1>20, <2>1
    <3> QED BY <1>b, <1>20, <1>21, <2>1, <2>2, <3>1 DEF Sampling
  <2>4. w \in Sampled(x, r)
    BY <1>6, <1>22
  <2>5. Moves(x, w, r) /\ InStep(w.q[r], w.s, r)
    BY <1>18, <2>3, <2>4, SampledProgress
  <2> QED BY <1>19, <2>5, MovesChain
<1>23. CASE last = FALSE
  <2>1. d # 0 /\ p = TRUE /\ w = x
    BY <1>e, <1>6, <1>13, <1>23
  <2>2. r \in x.s.waiting /\ r \notin x.s.running
    BY <1>9, <1>12, <1>17, <1>p, <2>1 DEF Prefilling
  <2>3. Ahead(x.s, r) = 0
    BY <1>20, BlockSizeAssumption DEF Ahead
  <2>4. a >= 0 /\ a + d = len /\ 0 <= d /\ a = a + 0 /\ d = d - 0
    BY ONLY a \in Int, d \in Int, k \in Int, len \in Int, past \in Int, rem \in Int, <1>c, <1>1, <1>d, <1>7
  <2>5. Prefilling(x.q[r], x.s, r)
    BY <1>b, <1>20, <2>2, <2>3, <2>4 DEF Prefilling
  <2>6. InStep(x.q[r], x.s, r)
    BY <1>20, <1>21, <2>1, <2>5 DEF InStep
  <2> QED BY <1>19, <2>1, <2>6
<1> QED BY <1>22, <1>23

(***************************************************************************)
(* A token was decoded.                                                    *)
(***************************************************************************)
LEMMA DecodeStepProgress ==
  ASSUME NEW B \in SUBSET Reqs, NEW y, Working(y, B), NEW r \in B,
         y.q[r].state = "active", y.q[r].prefill = FALSE, InStep(y.q[r], y.s, r), r \in y.s.running,
         NEW w \in DecodeStep(y, r)
  PROVE  Moves(y, w, r) /\ InStep(w.q[r], w.s, r)
<1>0. /\ y = [m |-> y.m, s |-> y.s, q |-> y.q] /\ y.q \in [Reqs -> ReqRecs] /\ y.s \in Scheds /\ r \in Reqs
      /\ Fits(y.q[r], y.s, r)
  BY DEF Working, Sound
<1>g. Generating(y.q[r], y.s, r) /\ Stored(y.q[r])
  BY DEF InStep
<1>1. PICK a \in Int : a = y.q[r].n_past + 1
  BY <1>0 DEF ReqRecs
<1>2. PICK s2 : s2 = OnDecodeStepComplete(y.s, r, 1)
  OBVIOUS
<1>3. /\ s2 \in Scheds /\ s2.shared = y.s.shared /\ s2.swapped = y.s.swapped
      /\ s2.waiting = y.s.waiting /\ s2.running = y.s.running
  <2>1. PICK s \in Scheds : s = y.s
    BY <1>0
  <2>2. s2 = OnDecodeStepComplete(s, r, 1)
    BY <1>2, <2>1
  <2>3. /\ s2 \in Scheds /\ s2.shared = s.shared /\ s2.swapped = s.swapped
        /\ s2.waiting = s.waiting /\ s2.running = s.running \union {r}
    BY ONLY s \in Scheds, <1>0, <2>2, DecodeCompleteType
  <2>4. s.running \union {r} = s.running
    BY <2>1
  <2> QED BY ONLY <2>1, <2>3, <2>4
<1>c. /\ s2.rem = y.s.rem /\ s2.gen[r] = y.s.gen[r] + 1 /\ s2.ctx[r] = y.s.ctx[r] + 1
      /\ \A x \in Reqs \ {r} : s2.gen[x] = y.s.gen[x] /\ s2.ctx[x] = y.s.ctx[x]
  BY <1>0, <1>2, DecodeComplete
<1>4. PICK q2 \in [Reqs -> ReqRecs] : q2 = [y.q EXCEPT ![r].n_past = a]
  <2>1. [y.q[r] EXCEPT !.n_past = a] \in ReqRecs
    BY <1>0 DEF ReqRecs
  <2> QED BY <1>0, <2>1
<1>5. PICK x : x = [y EXCEPT !.q[r].n_past = @ + 1, !.s = OnDecodeStepComplete(@, r, 1)]
  OBVIOUS
<1>6. x = [m |-> y.m, s |-> s2, q |-> q2]
  <2>1. x = [y EXCEPT !.q[r].n_past = a, !.s = s2]
    BY <1>0, <1>1, <1>2, <1>5
  <2> QED BY <1>0, <1>4, <2>1
<1>7. /\ q2[r].table = y.q[r].table /\ q2[r].state = y.q[r].state /\ q2[r].prefill = y.q[r].prefill
      /\ q2[r].rem = y.q[r].rem /\ q2[r].gen = y.q[r].gen /\ q2[r].swap = y.q[r].swap /\ q2[r].n_past = a
      /\ \A e \in Reqs \ {r} : q2[e] = y.q[e]
  BY <1>0, <1>4 DEF ReqRecs
<1>8. SameBut(y.q, q2, y.s, s2, r)
  BY <1>3, <1>7 DEF SameBut
<1>9. r \notin s2.waiting /\ s2.shared[r] = y.s.shared[r]
  BY <1>0, <1>3 DEF Fits
<1>10. Working(x, B)
  BY <1>3, <1>6, <1>7, <1>8, <1>9, TouchWorking
<1>11. x.s = s2 /\ x.q = q2
  BY <1>6
<1>12. Moves(y, x, r)
  BY <1>3, <1>c, <1>7, <1>11 DEF Moves, Alike
<1>13. Sampling(x.q[r], x.s, r)
  <2>1. PICK g \in Int, n \in Int, l \in Int, c \in Int :
          g = y.q[r].gen /\ n = y.q[r].n_past /\ l = PromptLen(r) /\ c = y.s.gen[r]
    <3>1. y.q[r].gen \in Int /\ y.q[r].n_past \in Int
      BY <1>0 DEF ReqRecs
    <3>2. y.s.gen[r] \in Int
      BY <1>0 DEF Scheds
    <3>3. PromptLen(r) \in Int
      BY <1>0, PromptLenType
    <3> QED BY ONLY <3>1, <3>2, <3>3
  <2>2. 1 <= g /\ n = l + g - 1 /\ c = g - 1 /\ y.s.ctx[r] = n
    BY <1>g, <2>1 DEF Generating
  <2>3. a = n + 1 /\ s2.gen[r] = c + 1 /\ s2.ctx[r] = n + 1
    BY <1>1, <1>c, <2>1, <2>2
  <2>4. 0 <= g /\ c + 1 = g /\ n + 1 = l + g
    BY ONLY g \in Int, n \in Int, l \in Int, c \in Int, <2>2
  <2>5. Stored(q2[r])
    BY <1>g, <1>7 DEF Stored
  <2>6. /\ r \notin s2.waiting /\ (r \in s2.running <=> r \notin s2.swapped)
        /\ q2[r].rem = 0 /\ s2.rem[r] = 0
    BY <1>g, <1>3, <1>c, <1>7 DEF Generating
  <2> QED BY <1>7, <1>11, <2>1, <2>3, <2>4, <2>5, <2>6 DEF Sampling
<1>14. w \in Sampled(x, r)
  BY <1>5 DEF DecodeStep
<1>15. Moves(x, w, r) /\ InStep(w.q[r], w.s, r)
  BY <1>10, <1>13, <1>14, SampledProgress
<1> QED BY <1>12, <1>15, MovesChain

(***************************************************************************)
(* The outputs of a whole batch.  A member is processed from where it was  *)
(* when the batch was built, because nobody is in the batch twice.         *)
(***************************************************************************)
Member(r) ==
  /\ req[r].state = "active" /\ out.chunk[r] >= 0
  /\ req[r].prefill = FALSE => r \in sch.running

\* The output of one member of the batch.
LEMMA OutputOneProgress ==
  ASSUME req \in [Reqs -> ReqRecs], out \in Outs,
         NEW B \in SUBSET Reqs, NEW y, Working(y, B), NEW r \in B, Member(r),
         Alike(req[r], sch, y.q[r], y.s, r), InStep(y.q[r], y.s, r), NEW w \in OutputOne(y, r)
  PROVE  Moves(y, w, r) /\ InStep(w.q[r], w.s, r)
<1>0. r \in Reqs /\ y.q[r].prefill \in BOOLEAN
  BY DEF Working, Sound, ReqRecs
<1>1. CASE r \in Embeds
  <2>1. w = Finish(y, r, "ok") /\ "ok" \in Outcomes
    BY <1>1 DEF OutputOne, Outcomes
  <2> QED BY <1>0, <2>1, FinishProgress, GoneInStep
<1>2. CASE r \notin Embeds /\ y.q[r].prefill
  <2>1. w \in PrefillStep(y, r)
    BY <1>2, Zenon DEF OutputOne
  <2>2. /\ y.q[r].state = "active" /\ y.q[r].prefill = TRUE /\ req[r].prefill = TRUE
        /\ req[r].rem = y.q[r].rem /\ out.chunk[r] >= 0
    BY <1>0, <1>2 DEF Alike, Member
  <2> QED BY <2>1, <2>2, PrefillStepProgress
<1>3. CASE r \notin Embeds /\ ~y.q[r].prefill
  <2>1. w \in DecodeStep(y, r)
    BY <1>3, Zenon DEF OutputOne
  <2>2. y.q[r].state = "active" /\ y.q[r].prefill = FALSE /\ r \in y.s.running
    BY <1>0, <1>3 DEF Alike, Member
  <2> QED BY <2>1, <2>2, DecodeStepProgress
<1> QED BY <1>1, <1>2, <1>3

Untouched(z, x) == Alike(req[x], sch, z.q[x], z.s, x)
Processed(z, x) == InStep(z.q[x], z.s, x) /\ (z.q[x].state = "active" => req[x].state = "active")
OutputSoFar(s, X, c) ==
  \A z \in X : /\ Working(z, c.B)
               /\ \A x \in Reqs : Processed(z, x)
               /\ \A j \in DOMAIN c.seq \ s : Untouched(z, c.seq[j])
OutputtingOn == INSTANCE Folding_proofs WITH Choose <- Max, Step <- OutputStep, Good <- OutputSoFar

\* After the outputs of the whole batch everybody is in step.
LEMMA OutputsProgress ==
  ASSUME req \in [Reqs -> ReqRecs], out \in Outs, NEW b \in Seq(Reqs), Distinct(b),
         \A r \in BlocksOf(b) : Member(r),
         NEW y, Working(y, BlocksOf(b)), y.q = req, y.s = sch,
         \A x \in Reqs : InStep(req[x], sch, x), NEW w \in Visit(OutputOne, y, b)
  PROVE  \A x \in Reqs : Processed(w, x)
<1>0. PICK p : p.seq = b /\ p.B = BlocksOf(b)
  <2>1. PICK p : p = [seq |-> b, B |-> BlocksOf(b)]
    OBVIOUS
  <2> QED BY <2>1
<1>1. Visit(OutputOne, y, p.seq) = OutputtingOn!Fold(DOMAIN p.seq, {y}, p)
  BY Zenon DEF Visit, FoldLeft, MapThenFoldSet, OutputtingOn!Fold, OutputtingOn!MapThenFoldSet, OutputStep
<1>2. PICK n \in Nat : DOMAIN b = 1 .. n
  BY LenProperties
<1>3. PICK B \in SUBSET Reqs : B = BlocksOf(b)
  BY BlocksOfSeq
<1>4. \A i \in 1 .. n : b[i] \in B
  BY <1>2, <1>3 DEF BlocksOf
<1>5. OutputSoFar({}, {y}, p)
  BY <1>0 DEF OutputSoFar, Untouched, Processed, Alike
<1>6. OutputtingOn!KeptByVisits(n, p)
  <2>1. ASSUME NEW i \in 1 .. n, NEW X, OutputSoFar(1 .. (i - 1), X, p)
        PROVE  OutputSoFar(1 .. i, OutputStep(i, X, p), p)
    <3> SUFFICES ASSUME NEW z \in OutputStep(i, X, p)
                 PROVE  /\ Working(z, B) /\ \A x \in Reqs : Processed(z, x)
                        /\ \A j \in (1 .. n) \ (1 .. i) : Untouched(z, b[j])
      BY <1>0, <1>2, <1>3 DEF OutputSoFar
    <3>1. PICK x \in X : z \in OutputOne(x, b[i])
      BY <1>0 DEF OutputStep
    <3>2. /\ Working(x, B) /\ \A e \in Reqs : Processed(x, e)
          /\ \A j \in (1 .. n) \ (1 .. (i - 1)) : Untouched(x, b[j])
      BY <1>0, <1>2, <1>3, <2>1 DEF OutputSoFar
    <3>3. PICK r \in B : r = b[i] /\ r \in Reqs
      BY <1>4
    <3>4. Working(z, B)
      BY <3>1, <3>2, <3>3, OutputOneWorking
    <3>5. Moves(x, z, r) /\ InStep(z.q[r], z.s, r)
      <4>1. i \in (1 .. n) \ (1 .. (i - 1))
        OBVIOUS
      <4>2. Alike(req[r], sch, x.q[r], x.s, r) /\ InStep(x.q[r], x.s, r) /\ Member(r)
        BY <1>3, <3>2, <3>3, <4>1 DEF Untouched, Processed
      <4>3. z \in OutputOne(x, r)
        BY <3>1, <3>3
      <4> QED BY <3>2, <4>2, <4>3, OutputOneProgress
    <3>6. ASSUME NEW e \in Reqs PROVE Processed(z, e)
      <4>1. CASE e = r
        BY <1>3, <3>3, <3>5, <4>1 DEF Processed, Member
      <4>2. CASE e # r
        <5>1. Alike(x.q[e], x.s, z.q[e], z.s, e) /\ Processed(x, e)
          BY <3>2, <3>5, <4>2 DEF Moves
        <5>2. InStep(z.q[e], z.s, e)
          BY <5>1, AlikeInStep DEF Processed
        <5> QED BY <5>1, <5>2 DEF Processed, Alike
      <4> QED BY <4>1, <4>2
    <3>7. ASSUME NEW j \in (1 .. n) \ (1 .. i) PROVE Untouched(z, b[j])
      <4>1. j \in (1 .. n) \ (1 .. (i - 1)) /\ j # i
        OBVIOUS
      <4>2. b[j] # r /\ b[j] \in Reqs
        BY <1>2, <1>4, <3>3, <4>1 DEF Distinct
      <4>3. Alike(x.q[b[j]], x.s, z.q[b[j]], z.s, b[j])
        BY <3>5, <4>2 DEF Moves
      <4>4. Untouched(x, b[j])
        BY <3>2, <4>1
      <4> QED BY <4>3, <4>4, AlikeChain DEF Untouched
    <3> QED BY <3>4, <3>6, <3>7
  <2> QED BY <2>1 DEF OutputtingOn!KeptByVisits
<1>7. OutputtingOn!FromFirst(n)
  BY DEF OutputtingOn!FromFirst, OutputtingOn!Latest, Max
<1>8. OutputSoFar(1 .. n, OutputtingOn!Fold(1 .. n, {y}, p), p)
  BY ONLY n \in Nat, <1>5, <1>6, <1>7, OutputtingOn!VisitInvariant
<1> QED BY <1>0, <1>1, <1>2, <1>8 DEF OutputSoFar
-----------------------------------------------------------------------------
(***************************************************************************)
(* A cached prefix is no longer than the prompt.                           *)
(***************************************************************************)
LEMMA CachedPrefixLength ==
  ASSUME NEW m, NEW r \in Reqs, NEW hit, hit = CachedPrefix(m, r)
  PROVE  Len(hit) \in Nat /\ Len(hit) * BlockSize <= PromptLen(r)
<1>0. PICK L \in Nat : L = PromptLen(r)
  BY PromptLenType
<1>1. CASE ~PrefixCache
  <2>1. hit = <<>> /\ Len(<<>>) = 0
    BY <1>1 DEF CachedPrefix
  <2> QED BY <1>0, <2>1, BlockSizeAssumption
<1>2. CASE PrefixCache
  <2>1. PICK E \in Int : E = (L - 1) \div BlockSize
    BY BlockSizeAssumption
  <2>2. PICK keys : keys = PrefixKeys(r)
    OBVIOUS
  <2>3. keys = [n \in 1 .. E |-> [hash |-> PrefixHash(r, n), toks |-> BlockTokens(r, n)]]
    BY <1>0, <2>1, <2>2 DEF PrefixKeys
  <2>4. PICK N \in Nat : Len(keys) = N /\ N * BlockSize <= L
    <3>1. CASE E >= 0
      <4>1. DOMAIN keys = 1 .. E /\ E \in Nat
        BY <2>3, <3>1
      <4>2. Len(keys) = E
        BY <4>1
      <4>3. E * BlockSize <= L
        BY <2>1, BlockSizeAssumption
      <4> QED BY <4>1, <4>2, <4>3
    <3>2. CASE E < 0
      <4>1. keys = <<>>
        BY <2>3, <3>2
      <4>2. Len(keys) = 0
        BY <4>1
      <4>3. 0 * BlockSize = 0 /\ 0 \in Nat
        BY BlockSizeAssumption
      <4> QED BY <4>2, <4>3
    <3> QED BY <3>1, <3>2
  <2>5. PICK S : S = Reused(m, keys, FALSE)
    OBVIOUS
  <2>6. S = {i \in 1 .. N : \E n \in HitRun(m, keys) : i <= n}
    BY <2>4, <2>5 DEF Reused
  <2>7. HitRun(m, keys) \subseteq 1 .. N
    BY <2>4 DEF HitRun
  <2>8. PICK c \in Nat : c = Cardinality(S) /\ S = 1 .. c
    <3>1. S \in SUBSET (1 .. N) /\ \A j \in S : \A i \in 1 .. j : i \in S
      BY <2>6, <2>7
    <3>2. Cardinality(S) \in Nat /\ S = 1 .. Cardinality(S)
      BY ONLY N \in Nat, <3>1, InitialSegment
    <3> QED BY <3>2
  <2>9. hit = [i \in 1 .. c |-> m.cache[keys[i].hash]]
    BY <1>2, <2>2, <2>5, <2>8 DEF CachedPrefix, FindLongest
  <2>10. Len(hit) = c
    BY <2>9
  <2>11. c <= N
    <3>1. CASE c = 0
      BY <3>1
    <3>2. CASE c # 0
      <4>0. c \in 1 .. c
        BY <3>2
      <4>1. c \in S
        BY <2>8, <4>0
      <4> QED BY <2>6, <4>1
    <3> QED BY <3>1, <3>2
  <2>12. c * BlockSize <= N * BlockSize
    BY <2>11, BlockSizeAssumption
  <2>13. c * BlockSize \in Int /\ N * BlockSize \in Int
    BY BlockSizeAssumption
  <2> QED BY <1>0, <2>4, <2>10, <2>12, <2>13
<1> QED BY <1>1, <1>2

\* AddRequest: the group waits, with what the prefix cache has reserved for it.
LEMMA AddRequestProgress ==
  ASSUME NEW s \in Scheds, NEW m, NEW r \in Reqs, NEW hit \in Seq(Blocks), hit = CachedPrefix(m, r),
         NEW s2, s2 = AddRequest(s, m, r)
  PROVE  /\ s2.rem[r] = PromptLen(r) - Len(hit) * BlockSize /\ s2.ctx[r] = Len(hit) * BlockSize
         /\ s2.gen[r] = 0
         /\ \A x \in Reqs \ {r} : s2.rem[x] = s.rem[x] /\ s2.ctx[x] = s.ctx[x] /\ s2.gen[x] = s.gen[x]
<1>1. PICK a \in Int : a = Len(hit) * BlockSize
  BY BlockSizeAssumption
<1>2. PICK b \in Int : b = PromptLen(r) - a
  BY PromptLenType
<1>3. PICK W \in SUBSET Reqs : W = s.waiting \union {r}
  BY DEF Scheds
<1>4. PICK k \in Int, cl \in Int, o \in Int : k = s.clock + 1 /\ cl = s.clock /\ o = 0
  BY DEF Scheds
<1>5. s2 = [s EXCEPT !.waiting = W, !.shared[r] = hit, !.rem[r] = b,
                     !.ctx[r] = a, !.gen[r] = o, !.arr[r] = cl, !.clock = k]
  BY <1>1, <1>2, <1>3, <1>4 DEF AddRequest, Scheds
<1>6. PICK f2 \in [Reqs -> Int], f3 \in [Reqs -> Int], f4 \in [Reqs -> Int] :
         f2 = [s.rem EXCEPT ![r] = b] /\ f3 = [s.ctx EXCEPT ![r] = a] /\ f4 = [s.gen EXCEPT ![r] = o]
  BY DEF Scheds
<1>7. s2.rem = f2 /\ s2.ctx = f3 /\ s2.gen = f4
  BY ONLY s \in Scheds, <1>5, <1>6 DEF Scheds
<1>8. /\ f2[r] = b /\ f3[r] = a /\ f4[r] = o
      /\ \A x \in Reqs \ {r} : f2[x] = s.rem[x] /\ f3[x] = s.ctx[x] /\ f4[x] = s.gen[x]
  BY <1>6 DEF Scheds
<1> QED BY <1>1, <1>2, <1>4, <1>7, <1>8

(***************************************************************************)
(* A request that is fetched is in step with the scheduler.                *)
(***************************************************************************)
LEMMA FetchProgress ==
  ASSUME NEW m, NEW q, NEW s, Sound(m, q, s), NEW r \in Reqs, q[r].state = "pending",
         NEW q2, q2 = [q EXCEPT ![r].state = "active"], NEW s2, s2 = AddRequest(s, m, r),
         \A x \in Reqs : InStep(q[x], s, x)
  PROVE  \A x \in Reqs : InStep(q2[x], s2, x)
<1>0. GoodBM(m) /\ q \in [Reqs -> ReqRecs] /\ s \in Scheds /\ Fits(q[r], s, r)
  BY DEF Sound
<1>1. PICK hit \in Seq(Blocks) : hit = CachedPrefix(m, r)
  BY <1>0, CachedPrefixGood
<1>2. /\ s2 \in Scheds
      /\ s2.waiting = s.waiting \union {r} /\ s2.running = s.running /\ s2.swapped = s.swapped
      /\ s2.shared[r] = hit /\ \A x \in Reqs \ {r} : s2.shared[x] = s.shared[x]
  BY <1>0, <1>1, AddRequestType
<1>3. /\ s2.rem[r] = PromptLen(r) - Len(hit) * BlockSize /\ s2.ctx[r] = Len(hit) * BlockSize
      /\ s2.gen[r] = 0
      /\ \A x \in Reqs \ {r} : s2.rem[x] = s.rem[x] /\ s2.ctx[x] = s.ctx[x] /\ s2.gen[x] = s.gen[x]
  BY <1>0, <1>1, AddRequestProgress
<1>4. /\ q2[r].state = "active" /\ q2[r].prefill = q[r].prefill /\ q2[r].rem = q[r].rem
      /\ q2[r].n_past = q[r].n_past /\ q2[r].gen = q[r].gen /\ q2[r].swap = q[r].swap
      /\ \A x \in Reqs \ {r} : q2[x] = q[x]
  BY <1>0 DEF ReqRecs
<1>5. Idle(q[r], s, r) /\ Stored(q[r])
  BY DEF InStep
<1>6. PICK a \in Int, l \in Int : a = Len(hit) * BlockSize /\ l = PromptLen(r) /\ a <= l
  <2>1. Len(hit) \in Nat /\ Len(hit) * BlockSize <= PromptLen(r)
    BY <1>1, CachedPrefixLength
  <2> QED BY <2>1, PromptLenType, BlockSizeAssumption
<1>7. Ahead(s2, r) = a
  BY <1>2, <1>6 DEF Ahead
<1>8. Prefilling(q2[r], s2, r)
  <2>1. q2[r].n_past = 0 /\ q2[r].rem = l /\ q2[r].gen = 0
    BY <1>4, <1>5, <1>6 DEF Idle
  <2>2. 0 + l = l /\ 0 + a = a
    OBVIOUS
  <2>3. s2.rem[r] = l - a /\ s2.ctx[r] = a /\ s2.gen[r] = 0
    BY <1>3, <1>6
  <2>4. r \in s2.waiting /\ r \notin s2.running /\ r \notin s2.swapped
    BY <1>2, <1>5 DEF Idle
  <2> QED BY <1>6, <1>7, <2>1, <2>2, <2>3, <2>4 DEF Prefilling
<1>9. InStep(q2[r], s2, r)
  <2>1. q2[r].prefill = TRUE /\ Stored(q2[r])
    BY <1>4, <1>5 DEF Idle, Stored
  <2> QED BY <1>4, <1>8, <2>1 DEF InStep
<1>10. ASSUME NEW x \in Reqs \ {r} PROVE InStep(q2[x], s2, x)
  <2>1. Alike(q[x], s, q2[x], s2, x)
    BY <1>2, <1>3, <1>4 DEF Alike
  <2> QED BY <2>1, AlikeInStep
<1> QED BY <1>9, <1>10

(***************************************************************************)
(* A plan is received: the blocks of the reserved prefix become context of *)
(* the request when the scheduler hands them over.                         *)
(***************************************************************************)
LEMMA ReceivedProgress ==
  ASSUME req \in [Reqs -> ReqRecs], NEW o \in Outs, NEW r \in Reqs, NEW w, w = Received(o, r)
  PROVE  /\ w.state = req[r].state /\ w.prefill = req[r].prefill /\ w.gen = req[r].gen /\ w.swap = req[r].swap
         /\ w.n_past = req[r].n_past + Len(o.hits[r]) * BlockSize
         /\ w.rem = req[r].rem - Len(o.hits[r]) * BlockSize
<1>0. PICK v \in ReqRecs : v = req[r]
  OBVIOUS
<1>2. PICK k : k = Len(o.hits[r])
  OBVIOUS
<1>3. PICK c : c = k * BlockSize
  OBVIOUS
<1>4. PICK a, b, t, g : /\ a = v.n_past + c /\ b = v.rem - c /\ t = v.table \o o.alloc[r] \o o.hits[r]
                        /\ g = Max({v.reg, k})
  OBVIOUS
<1>5. w = [v EXCEPT !.table = t, !.n_past = a, !.rem = b, !.reg = g]
  BY <1>0, <1>2, <1>3, <1>4, Zenon DEF Received
<1>6. w = [state |-> v.state, cancelled |-> v.cancelled, prefill |-> v.prefill, rem |-> b,
           n_past |-> a, table |-> t, gen |-> v.gen, reg |-> g, swap |-> v.swap]
  BY <1>5 DEF ReqRecs
<1>7. w.state = v.state /\ w.prefill = v.prefill /\ w.gen = v.gen /\ w.swap = v.swap /\ w.n_past = a /\ w.rem = b
  BY <1>6
<1> QED BY <1>0, <1>2, <1>3, <1>4, <1>7

\* A request that receives its part of a plan is in step with the plan.
LEMMA PlanProgress ==
  ASSUME NEW m, Sound(m, req, sch), NEW x, Planned(x), NEW r \in Reqs, InStep(req[r], sch, r),
         NEW w, w = Got(x.o)[r]
  PROVE  InStep(w, x.s, r)
<1>0. /\ req \in [Reqs -> ReqRecs] /\ sch \in Scheds /\ Fits(req[r], sch, r) /\ x.o \in Outs /\ x.s \in Scheds
      /\ Tracks(x.s, x.o)
  BY DEF Sound, Planned
<1>1. /\ w.state = req[r].state /\ w.prefill = req[r].prefill /\ w.gen = req[r].gen /\ w.swap = req[r].swap
      /\ w.n_past = req[r].n_past + Len(x.o.hits[r]) * BlockSize
      /\ w.rem = req[r].rem - Len(x.o.hits[r]) * BlockSize
  BY <1>0, ReceivedProgress DEF Got
<1>2. /\ r \in x.s.waiting <=> r \in sch.waiting
      /\ x.s.rem[r] = sch.rem[r] /\ x.s.ctx[r] = sch.ctx[r]
      /\ (r \in x.s.running \/ r \in x.s.swapped) <=> (r \in sch.running \/ r \in sch.swapped)
      /\ r \in x.s.running /\ r \in x.s.swapped => r \in sch.running /\ r \in sch.swapped
      /\ x.s.gen[r] = sch.gen[r] \/ (r \in sch.waiting /\ x.s.gen[r] = 0)
      /\ \/ x.s.shared[r] = sch.shared[r] /\ x.o.hits[r] = <<>>
         \/ x.s.shared[r] = <<>> /\ x.o.hits[r] = sch.shared[r]
  BY <1>0 DEF Tracks
<1>3. PICK past \in Int, rem \in Int, l \in Int, h \in Int, a \in Int, g \in Int :
        /\ past = req[r].n_past /\ rem = req[r].rem /\ l = PromptLen(r)
        /\ h = Len(x.o.hits[r]) * BlockSize /\ a = Ahead(sch, r) /\ g = Ahead(x.s, r)
  <2>1. req[r].n_past \in Int /\ req[r].rem \in Int /\ PromptLen(r) \in Int
    BY <1>0, PromptLenType DEF ReqRecs
  <2>2. Len(x.o.hits[r]) \in Nat /\ Len(sch.shared[r]) \in Nat /\ Len(x.s.shared[r]) \in Nat
    <3>1. x.o.hits[r] \in Seq(Blocks) /\ sch.shared[r] \in Seq(Blocks) /\ x.s.shared[r] \in Seq(Blocks)
      BY <1>0 DEF Outs, Scheds
    <3> QED BY <3>1, LenProperties
  <2>3. Len(x.o.hits[r]) * BlockSize \in Int /\ Ahead(sch, r) \in Int /\ Ahead(x.s, r) \in Int
    BY <2>2, BlockSizeAssumption DEF Ahead
  <2> QED BY <2>1, <2>3
<1>4. g = a - h /\ (sch.shared[r] = <<>> => h = 0 /\ a = 0 /\ g = 0)
  <2>1. Len(<<>>) * BlockSize = 0
    BY BlockSizeAssumption
  <2>2. sch.shared[r] = <<>> => h = 0 /\ a = 0 /\ g = 0
    BY <1>2, <1>3, <2>1 DEF Ahead
  <2>3. CASE x.s.shared[r] = sch.shared[r] /\ x.o.hits[r] = <<>>
    <3>1. g = a /\ h = 0
      BY <1>3, <2>1, <2>3 DEF Ahead
    <3> QED BY <2>2, <3>1
  <2>4. CASE x.s.shared[r] = <<>> /\ x.o.hits[r] = sch.shared[r]
    <3>1. g = 0 /\ h = a
      BY <1>3, <2>1, <2>4 DEF Ahead
    <3> QED BY <2>2, <3>1
  <2> QED BY <1>2, <2>3, <2>4
<1>5. w.n_past = past + h /\ w.rem = rem - h
  BY <1>1, <1>3
<1>6. Stored(w)
  BY <1>1 DEF InStep, Stored
<1>7. CASE w.state # "active"
  <2>1. Idle(req[r], sch, r)
    BY <1>1, <1>7 DEF InStep
  <2>2. sch.shared[r] = <<>>
    BY <1>0, <2>1 DEF Fits, Idle
  <2>3. w.n_past = past /\ w.rem = rem
    <3>1. h = 0
      BY <1>4, <2>2
    <3>2. past + h = past /\ rem - h = rem
      BY ONLY past \in Int, rem \in Int, <3>1
    <3> QED BY ONLY <1>5, <3>2
  <2>4. Idle(w, x.s, r)
    BY <1>1, <1>2, <1>3, <2>1, <2>3 DEF Idle
  <2> QED BY <1>6, <1>7, <2>4 DEF InStep
<1>8. CASE w.state = "active" /\ w.prefill = TRUE
  <2>1. Prefilling(req[r], sch, r)
    BY <1>1, <1>8 DEF InStep
  <2>2. /\ past >= 0 /\ past + rem = l /\ a <= rem /\ sch.ctx[r] = past + a /\ sch.rem[r] = rem - a
    BY <1>3, <2>1 DEF Prefilling
  <2>3. 0 <= h
    <3>1. Len(x.o.hits[r]) \in Nat
      <4>1. x.o.hits[r] \in Seq(Blocks)
        BY <1>0 DEF Outs
      <4> QED BY <4>1, LenProperties
    <3> QED BY <1>3, <3>1, BlockSizeAssumption
  <2>4. /\ past + h >= 0 /\ (past + h) + (rem - h) = l /\ g <= rem - h
        /\ past + a = (past + h) + g /\ rem - a = (rem - h) - g
    BY ONLY past \in Int, rem \in Int, l \in Int, h \in Int, a \in Int, g \in Int, <1>4, <2>2, <2>3
  <2>5. r \in x.s.waiting /\ r \notin x.s.running /\ r \notin x.s.swapped /\ w.gen = 0 /\ x.s.gen[r] = 0
    BY <1>1, <1>2, <2>1 DEF Prefilling
  <2>6. x.s.ctx[r] = (past + h) + g /\ x.s.rem[r] = (rem - h) - g
    BY <1>2, <2>2, <2>4
  <2>7. Prefilling(w, x.s, r)
    BY <1>3, <1>5, <2>4, <2>5, <2>6 DEF Prefilling
  <2> QED BY <1>6, <1>8, <2>7 DEF InStep
<1>9. CASE w.state = "active" /\ w.prefill = FALSE
  <2>1. Generating(req[r], sch, r)
    BY <1>1, <1>9 DEF InStep
  <2>2. sch.shared[r] = <<>>
    BY <1>0, <2>1 DEF Fits, Generating
  <2>3. w.n_past = past /\ w.rem = rem
    <3>1. h = 0
      BY <1>4, <2>2
    <3>2. past + h = past /\ rem - h = rem
      BY ONLY past \in Int, rem \in Int, <3>1
    <3> QED BY ONLY <1>5, <3>2
  <2>4. x.s.gen[r] = sch.gen[r]
    BY <1>2, <2>1 DEF Generating
  <2>5. Generating(w, x.s, r)
    BY <1>1, <1>2, <1>3, <2>1, <2>3, <2>4 DEF Generating
  <2> QED BY <1>6, <1>9, <2>5 DEF InStep
<1>10. w.prefill \in BOOLEAN
  BY <1>0, <1>1 DEF ReqRecs
<1> QED BY <1>7, <1>8, <1>9, <1>10

(***************************************************************************)
(* Copies on the host and in the cache: restoring one puts its contents    *)
(* back, and copying out takes contents of the cache.                      *)
(***************************************************************************)
LEMMA RestoreData ==
  ASSUME kv \in [Blocks -> BlockData], NEW q \in [Reqs -> ReqRecs], NEW R \in SUBSET Reqs,
         \A r \in R : Len(q[r].table) = Len(q[r].swap.data), \A r \in R : Stored(q[r])
  PROVE  RestoreKV(q, R) \in [Blocks -> BlockData]
<1> DEFINE Cell1(b) == LET r == CHOOSE r \in R : b \in BlocksOf(q[r].table)
                       IN  q[r].swap.data[CHOOSE i \in DOMAIN q[r].table : q[r].table[i] = b]
<1>1. ASSUME NEW b \in Blocks, \E r \in R : b \in BlocksOf(q[r].table) PROVE Cell1(b) \in BlockData
  <2>1. PICK r : r = CHOOSE x \in R : b \in BlocksOf(q[x].table)
    OBVIOUS
  <2>2. r \in R /\ b \in BlocksOf(q[r].table)
    BY <1>1, <2>1
  <2>3. PICK i : i = CHOOSE j \in DOMAIN q[r].table : q[r].table[j] = b
    OBVIOUS
  <2>4. i \in DOMAIN q[r].table
    BY <2>2, <2>3 DEF BlocksOf
  <2>5. q[r].table \in Seq(Blocks) /\ q[r].swap.data \in Seq(Contents)
    BY <2>2 DEF ReqRecs, Swaps
  <2>6. Len(q[r].table) = Len(q[r].swap.data)
    BY <2>2
  <2>7. i \in DOMAIN q[r].swap.data
    BY <2>4, <2>5, <2>6
  <2>8. q[r].swap.data[i] \in BlockData
    BY <2>2, <2>7 DEF Stored
  <2>9. Cell1(b) = q[r].swap.data[i]
    BY <2>1, <2>3
  <2> QED BY <2>8, <2>9
<1>2. RestoreKV(q, R) = [b \in Blocks |-> IF \E r \in R : b \in BlocksOf(q[r].table) THEN Cell1(b) ELSE kv[b]]
  BY Zenon DEF RestoreKV
<1> HIDE DEF Cell1
<1> QED BY <1>1, <1>2

\* What is copied to the host is what the blocks had.
LEMMA SwapOutStored ==
  ASSUME NEW k \in [Blocks -> BlockData], NEW v \in ReqRecs, NEW w, w = SwapOut(k, v)
  PROVE  /\ w.state = v.state /\ w.prefill = v.prefill /\ w.rem = v.rem /\ w.n_past = v.n_past /\ w.gen = v.gen
         /\ Stored(w)
<1>1. PICK d : d = [i \in DOMAIN v.table |-> k[v.table[i]]]
  OBVIOUS
<1>2. \A i \in DOMAIN d : d[i] \in BlockData
  <2>1. v.table \in Seq(Blocks)
    BY DEF ReqRecs
  <2>2. \A i \in DOMAIN v.table : v.table[i] \in Blocks
    BY <2>1
  <2> QED BY <1>1, <2>2
<1>3. PICK u, t : u = [active |-> TRUE, data |-> d] /\ t = <<>>
  OBVIOUS
<1>4. w = [v EXCEPT !.swap = u, !.table = t]
  BY <1>1, <1>3, Zenon DEF SwapOut
<1>5. w = [state |-> v.state, cancelled |-> v.cancelled, prefill |-> v.prefill, rem |-> v.rem,
           n_past |-> v.n_past, table |-> t, gen |-> v.gen, reg |-> v.reg, swap |-> u]
  BY <1>4 DEF ReqRecs
<1>6. w.swap.data = d
  BY <1>3, <1>5
<1>7. Stored(w)
  BY <1>2, <1>6 DEF Stored
<1> QED BY <1>5, <1>7

\* Another copy on the host is no progress.
LEMMA CopyInStep ==
  ASSUME NEW v, NEW s, NEW w, NEW r, InStep(v, s, r), Stored(w),
         w.state = v.state, w.prefill = v.prefill, w.rem = v.rem, w.n_past = v.n_past, w.gen = v.gen
  PROVE  InStep(w, s, r)
<1>1. v.state # "active" => Idle(w, s, r)
  BY DEF InStep, Idle
<1>2. v.state = "active" /\ v.prefill = TRUE => Prefilling(w, s, r)
  BY DEF InStep, Prefilling
<1>3. v.state = "active" /\ v.prefill = FALSE => Generating(w, s, r)
  BY DEF InStep, Generating
<1> QED BY <1>1, <1>2, <1>3 DEF InStep

\* Restored and preempted sequences are in step.
LEMMA AppliedProgress ==
  ASSUME NEW k \in [Blocks -> BlockData], NEW q \in [Reqs -> ReqRecs], NEW s \in Scheds,
         NEW fail \in SUBSET Reqs, NEW away, NEW back, NEW q2, q2 = Applied(k, q, fail, away, back),
         NEW s2, s2 = RemoveRequests(s, fail), NEW r \in Reqs, InStep(q[r], s, r)
  PROVE  /\ InStep(q2[r], s2, r)
         /\ q2[r].state = "active" => r \notin fail /\ q[r].state = "active" /\ q2[r].prefill = q[r].prefill
<1>1. /\ s2.waiting = s.waiting \ fail /\ s2.running = s.running \ fail /\ s2.swapped = s.swapped \ fail
      /\ s2.shared[r] = IF r \in fail THEN <<>> ELSE s.shared[r]
  BY RemoveRequestsType
<1>2. CASE r \in fail
  <2>1. q2[r] = [Submitted(r) EXCEPT !.state = "swap_in", !.cancelled = q[r].cancelled]
    BY <1>2 DEF Applied
  <2>2. PICK how, c, v : how = "swap_in" /\ c = q[r].cancelled /\ v = q2[r]
    OBVIOUS
  <2>3. how \in Outcomes /\ v = [Submitted(r) EXCEPT !.state = how, !.cancelled = c]
    BY <2>1, <2>2 DEF Outcomes
  <2>4. r \notin s2.waiting /\ r \notin s2.running /\ r \notin s2.swapped
    BY <1>1, <1>2
  <2>5. Gone(v, s2, r)
    BY ONLY r \in Reqs, <2>3, <2>4, EndedIdle
  <2> QED BY <2>2, <2>5, GoneInStep
<1>3. CASE r \notin fail
  <2>0. PICK v \in ReqRecs : v = q[r]
    OBVIOUS
  <2>1. Alike(v, s, v, s2, r)
    <3>1. s2.rem[r] = s.rem[r] /\ s2.ctx[r] = s.ctx[r] /\ s2.gen[r] = s.gen[r]
      BY <1>3, RemovedProgress
    <3> QED BY <1>1, <1>3, <3>1 DEF Alike
  <2>2. InStep(v, s2, r)
    BY <2>0, <2>1, AlikeInStep
  <2>3. PICK w : w = q2[r]
    OBVIOUS
  <2>4. /\ Stored(w) /\ w.state = v.state /\ w.prefill = v.prefill /\ w.rem = v.rem /\ w.n_past = v.n_past
        /\ w.gen = v.gen
    <3>1. CASE r \in away
      <4>1. w = SwapOut(k, v)
        BY <1>3, <2>0, <2>3, <3>1 DEF Applied
      <4> QED BY <4>1, SwapOutStored
    <3>2. CASE r \notin away /\ r \in back
      <4>1. PICK u : u = NoSwap
        OBVIOUS
      <4>2. w = [v EXCEPT !.swap = u]
        BY <1>3, <2>0, <2>3, <3>2, <4>1 DEF Applied
      <4>3. /\ w.state = v.state /\ w.prefill = v.prefill /\ w.rem = v.rem /\ w.n_past = v.n_past
            /\ w.gen = v.gen /\ w.swap = u
        BY <4>2 DEF ReqRecs
      <4>4. w.swap.data = <<>>
        BY <4>1, <4>3 DEF NoSwap
      <4> QED BY <4>3, <4>4 DEF Stored
    <3>3. CASE r \notin away /\ r \notin back
      <4>1. w = v
        BY <1>3, <2>0, <2>3, <3>3 DEF Applied
      <4> QED BY <2>2, <4>1 DEF InStep
    <3> QED BY <3>1, <3>2, <3>3
  <2>5. InStep(w, s2, r)
    BY <2>2, <2>4, CopyInStep
  <2> QED BY <1>3, <2>0, <2>3, <2>4, <2>5
<1> QED BY <1>2, <1>3
-----------------------------------------------------------------------------
(***************************************************************************)
(* The second invariant.  Every request is in step with the scheduler, and *)
(* the worker knows the unfinished ones.  From the schedule to the batch,  *)
(* the plan stays within the limits of a batch, and its members are in the *)
(* phase they were planned for.                                            *)
(***************************************************************************)
AllInStep(q, s) == \A r \in Reqs : InStep(q[r], s, r)
Known(q, A) == \A r \in Reqs : q[r].state = "active" => r \in A

WithinLimits(o) ==
  /\ \A r \in Reqs : o.chunk[r] >= 0
  /\ Distinct(o.prefill) /\ Distinct(o.decode) /\ BlocksOf(o.prefill) \intersect BlocksOf(o.decode) = {}
  /\ Len(o.prefill) + Len(o.decode) <= Config.max_num_seqs
  /\ IsFiniteSet(Slots(o.chunk, BlocksOf(o.prefill)))
  /\ Load(o.chunk, BlocksOf(o.prefill)) + Len(o.decode) <= Config.max_num_batched_tokens

InPhase(o, q, s) ==
  /\ \A r \in BlocksOf(o.prefill) : q[r].state = "active" => q[r].prefill = TRUE
  /\ \A r \in BlocksOf(o.decode) : q[r].state = "active" => q[r].prefill = FALSE /\ r \in s.running

PInv ==
  /\ pc \in {"fetch", "schedule", "empty", "build", "unbuilt", "execute"}
  /\ kv \in [Blocks -> BlockData]
  /\ AllInStep(req, sch) /\ Known(req, active)
  /\ pc # "execute" => batch = <<>>
  /\ pc \notin {"unbuilt", "execute"} => stalled = {}
  /\ Distinct(batch)
  /\ \A r \in BlocksOf(batch) \union stalled : req[r].state = "active"
  /\ pc \in {"build", "execute"} => WithinLimits(out) /\ InPhase(out, req, sch)

\* The second invariant holds at the start.
LEMMA InitPInv == Init => PInv
<1> SUFFICES ASSUME Init PROVE PInv
  OBVIOUS
<1>1. /\ pc = "fetch" /\ kv = [b \in Blocks |-> [i \in 0 .. BlockSize - 1 |-> <<>>]] /\ sch = SchedInit
      /\ req = [r \in Reqs |-> Submitted(r)] /\ batch = <<>> /\ stalled = {}
  BY DEF Init
<1>2. kv \in [Blocks -> BlockData]
  <2>1. <<>> \in Cells
    BY DEF Cells
  <2>2. [i \in 0 .. BlockSize - 1 |-> <<>>] \in BlockData
    BY <2>1 DEF BlockData
  <2> QED BY <1>1, <2>2
<1>3. ASSUME NEW r \in Reqs PROVE InStep(req[r], sch, r) /\ req[r].state # "active"
  <2>1. PICK v : v = req[r] /\ v = Submitted(r)
    BY <1>1
  <2>2. /\ v.state = "pending" /\ v.prefill = TRUE /\ v.rem = PromptLen(r) /\ v.n_past = 0 /\ v.gen = 0
        /\ v.swap.data = <<>>
    BY <2>1 DEF Submitted, NoSwap
  <2>3. sch.waiting = {} /\ sch.running = {} /\ sch.swapped = {}
    BY <1>1 DEF SchedInit
  <2>4. Idle(v, sch, r) /\ Stored(v)
    BY <2>2, <2>3 DEF Idle, Stored
  <2> QED BY <2>1, <2>2, <2>4 DEF InStep
<1>4. AllInStep(req, sch) /\ Known(req, active)
  BY <1>3 DEF AllInStep, Known
<1>5. BlocksOf(batch) = {} /\ Distinct(batch)
  BY <1>1, EmptySeqFacts
<1> QED BY <1>1, <1>2, <1>4, <1>5 DEF PInv

(***************************************************************************)
(* An iteration ends; requests fail.                                       *)
(***************************************************************************)
LEMMA FreshStart ==
  ASSUME NextIteration, kv' \in [Blocks -> BlockData], AllInStep(req', sch'), Known(req', active')
  PROVE  PInv'
<1>1. pc' = "fetch" /\ batch' = <<>> /\ stalled' = {}
  BY DEF NextIteration
<1>2. PICK b : b = batch' /\ b = <<>>
  BY <1>1
<1>3. BlocksOf(b) = {} /\ Distinct(b)
  BY <1>2, EmptySeqFacts
<1>4. BlocksOf(batch') = {} /\ Distinct(batch')
  BY <1>2, <1>3
<1> QED BY <1>1, <1>4 DEF PInv

\* Failing a set of requests keeps everybody in step.
LEMMA FailProgress ==
  ASSUME EInv, PInv, NEW R \in SUBSET Reqs, NEW how \in Outcomes, Fail(R, how)
  PROVE  /\ AllInStep(req', sch')
         /\ \A r \in Reqs : req'[r].state = "active" => req[r].state = "active"
<1>0. req \in [Reqs -> ReqRecs] /\ sch \in Scheds
  BY DEF EInv, Sound
<1>1. PICK q2, s2 : q2 = req' /\ s2 = sch'
  OBVIOUS
<1>2. q2 = Ended(req, R, how) /\ s2 = RemoveRequests(sch, R)
  BY <1>1 DEF Fail
<1>3. ASSUME NEW r \in Reqs
      PROVE  InStep(q2[r], s2, r) /\ (q2[r].state = "active" => req[r].state = "active")
  <2>1. IF r \in R THEN Gone(q2[r], s2, r) ELSE Alike(req[r], sch, q2[r], s2, r)
    BY <1>0, <1>2, EndProgress
  <2>2. InStep(req[r], sch, r)
    BY DEF PInv, AllInStep
  <2>3. CASE r \in R
    BY <2>1, <2>3, GoneInStep
  <2>4. CASE r \notin R
    <3>1. Alike(req[r], sch, q2[r], s2, r)
      BY <2>1, <2>4
    <3>2. InStep(q2[r], s2, r)
      BY <2>2, <3>1, AlikeInStep
    <3> QED BY <3>1, <3>2 DEF Alike
  <2> QED BY <2>3, <2>4
<1> QED BY <1>1, <1>3 DEF AllInStep

\* Reaping drops only requests that ended.
LEMMA ReapKnown ==
  ASSUME PInv, \A r \in Reqs : req'[r].state = "active" => req[r].state = "active", Reap \/ active' = active
  PROVE  Known(req', active')
  BY DEF PInv, Known, Reap

(***************************************************************************)
(* One lemma for each step.                                                *)
(***************************************************************************)
LEMMA EmptyProgress ==
  ASSUME EInv, PInv, FailUnschedulable \/ (\E R \in SUBSET Reqs : FailStalled(R)) \/ WaitAndRetry
  PROVE  PInv'
<1>0. /\ kv \in [Blocks -> BlockData] /\ Unfinished \subseteq Reqs /\ AllInStep(req, sch) /\ Known(req, active)
  BY DEF EInv, PInv, Unfinished
<1>1. CASE FailUnschedulable
  <2>1. PICK R \in SUBSET Reqs : Fail(R, "unschedulable")
    BY <1>0, <1>1 DEF FailUnschedulable
  <2>2. "unschedulable" \in Outcomes
    BY DEF Outcomes
  <2>3. kv' = kv /\ NextIteration /\ Reap
    BY <1>1 DEF FailUnschedulable
  <2>4. AllInStep(req', sch') /\ \A r \in Reqs : req'[r].state = "active" => req[r].state = "active"
    BY <2>1, <2>2, FailProgress
  <2>5. Known(req', active')
    BY <2>3, <2>4, ReapKnown
  <2> QED BY <1>0, <2>3, <2>4, <2>5, FreshStart
<1>2. CASE \E R \in SUBSET Reqs : FailStalled(R)
  <2>1. PICK R \in SUBSET Reqs : FailStalled(R)
    BY <1>2
  <2>2. "stalled" \in Outcomes /\ Fail(R, "stalled")
    BY <2>1 DEF Outcomes, FailStalled
  <2>3. kv' = kv /\ NextIteration /\ Reap
    BY <2>1 DEF FailStalled
  <2>4. AllInStep(req', sch') /\ \A r \in Reqs : req'[r].state = "active" => req[r].state = "active"
    BY <2>2, FailProgress
  <2>5. Known(req', active')
    BY <2>3, <2>4, ReapKnown
  <2> QED BY <1>0, <2>3, <2>4, <2>5, FreshStart
<1>3. CASE WaitAndRetry
  <2>1. kv' = kv /\ sch' = sch /\ req' = req /\ NextIteration
    BY <1>3 DEF WaitAndRetry
  <2>2. AllInStep(req', sch')
    BY <1>0, <2>1
  <2>3. Unfinished = {} \/ active' = active
    BY <1>3 DEF WaitAndRetry
  <2>4. Known(req', active')
    BY <1>0, <2>1, <2>3 DEF Known, Unfinished
  <2> QED BY <1>0, <2>1, <2>2, <2>4, FreshStart
<1> QED BY <1>1, <1>2, <1>3

\* Nothing could be built: the iteration ends, or requests fail.
LEMMA UnbuiltProgress ==
  ASSUME EInv, PInv, RetryBuild \/ FailUnbuilt
  PROVE  PInv'
<1>0. /\ kv \in [Blocks -> BlockData] /\ AllInStep(req, sch) /\ Known(req, active) /\ stalled \in SUBSET Reqs
  BY DEF EInv, PInv
<1>1. CASE RetryBuild
  <2>1. kv' = kv /\ sch' = sch /\ req' = req /\ active' = active /\ NextIteration
    BY <1>1 DEF RetryBuild
  <2>2. AllInStep(req', sch') /\ Known(req', active')
    BY <1>0, <2>1
  <2> QED BY <1>0, <2>1, <2>2, FreshStart
<1>2. CASE FailUnbuilt
  <2>1. "build_stall" \in Outcomes /\ Fail(stalled, "build_stall")
    BY <1>2 DEF Outcomes, FailUnbuilt
  <2>2. kv' = kv /\ NextIteration /\ Reap
    BY <1>2 DEF FailUnbuilt
  <2>3. AllInStep(req', sch') /\ \A r \in Reqs : req'[r].state = "active" => req[r].state = "active"
    BY <1>0, <2>1, FailProgress
  <2>4. Known(req', active')
    BY <2>2, <2>3, ReapKnown
  <2> QED BY <1>0, <2>2, <2>3, <2>4, FreshStart
<1> QED BY <1>1, <1>2

\* Cancelled requests leave.
LEMMA CancelledProgress ==
  ASSUME EInv, PInv, ProcessCancelled
  PROVE  PInv'
<1>1. UNCHANGED <<kv, out, active, batch, stalled>> /\ pc = "fetch" /\ pc' = "schedule"
  BY DEF ProcessCancelled
<1>2. PICK R \in SUBSET Reqs : Fail(R, "canceled")
  BY DEF ProcessCancelled, EInv, Unfinished
<1>3. "canceled" \in Outcomes
  BY DEF Outcomes
<1>4. AllInStep(req', sch') /\ \A r \in Reqs : req'[r].state = "active" => req[r].state = "active"
  BY <1>2, <1>3, FailProgress
<1>5. Known(req', active')
  BY <1>1, <1>4, ReapKnown
<1>6. kv \in [Blocks -> BlockData] /\ batch = <<>> /\ stalled = {} /\ Distinct(batch)
  BY <1>1 DEF PInv
<1>7. BlocksOf(batch) = {}
  BY <1>6, EmptySeqFacts
<1> QED BY <1>1, <1>4, <1>5, <1>6, <1>7 DEF PInv

\* Setting the flag moves nobody.
LEMMA CancelProgress ==
  ASSUME EInv, PInv, NEW r \in Reqs, Cancel(r)
  PROVE  PInv'
<1>0. req \in [Reqs -> ReqRecs] /\ out \in Outs /\ batch \in Seq(Reqs) /\ stalled \in SUBSET Reqs
  BY DEF EInv, Sound
<1>1. UNCHANGED <<pc, kv, sch, out, active, batch, stalled>>
  BY DEF Cancel
<1>2. PICK q2 : q2 = req' /\ q2 = [req EXCEPT ![r].cancelled = TRUE]
  BY DEF Cancel
<1>3. ASSUME NEW x \in Reqs
      PROVE  /\ q2[x].state = req[x].state /\ q2[x].prefill = req[x].prefill
             /\ Alike(req[x], sch, q2[x], sch, x)
  <2>1. /\ q2[x].state = req[x].state /\ q2[x].prefill = req[x].prefill /\ q2[x].rem = req[x].rem
        /\ q2[x].n_past = req[x].n_past /\ q2[x].gen = req[x].gen /\ q2[x].swap = req[x].swap
    BY <1>0, <1>2 DEF ReqRecs
  <2> QED BY <2>1 DEF Alike
<1>4. AllInStep(q2, sch)
  BY <1>3, AlikeInStep DEF PInv, AllInStep
<1>5. Known(q2, active)
  BY <1>3 DEF PInv, Known
<1>6. BlocksOf(batch) \subseteq Reqs /\ BlocksOf(out.prefill) \subseteq Reqs /\ BlocksOf(out.decode) \subseteq Reqs
  <2>1. out.prefill \in Seq(Reqs) /\ out.decode \in Seq(Reqs)
    BY <1>0 DEF Outs
  <2> QED BY <1>0, <2>1, BlocksOfSeq
<1>7. \A x \in BlocksOf(batch) \union stalled : q2[x].state = "active"
  BY <1>0, <1>3, <1>6 DEF PInv
<1>8. pc \in {"build", "execute"} => WithinLimits(out) /\ InPhase(out, q2, sch)
  BY <1>3, <1>6 DEF PInv, InPhase
<1> QED BY <1>1, <1>2, <1>4, <1>5, <1>7, <1>8 DEF PInv

\* A fetched request is in step.
LEMMA FetchInStep ==
  ASSUME EInv, PInv, NEW r \in Reqs, Fetch(r)
  PROVE  PInv'
<1>0. /\ Sound(bm, req, sch) /\ req \in [Reqs -> ReqRecs] /\ sch \in Scheds /\ req[r].state = "pending"
      /\ AllInStep(req, sch) /\ Known(req, active)
  BY DEF EInv, Sound, Fetch, PInv
<1>1. UNCHANGED <<pc, kv, out, batch, stalled>> /\ pc = "fetch"
  BY DEF Fetch
<1>2. kv \in [Blocks -> BlockData] /\ batch = <<>> /\ stalled = {} /\ Distinct(batch)
  BY <1>1 DEF PInv
<1>3. BlocksOf(batch) = {}
  BY <1>2, EmptySeqFacts
<1>4. PICK q2, s2 : q2 = req' /\ s2 = sch'
  OBVIOUS
<1>5. AllInStep(q2, s2) /\ Known(q2, active')
  <2>1. CASE Rejected(r)
    <3>1. q2 = Ended(req, {r}, "rejected") /\ s2 = sch /\ active' = active
      BY <1>4, <2>1 DEF Fetch
    <3>2. PICK how, c, v : how = "rejected" /\ c = req[r].cancelled /\ v = q2[r]
      OBVIOUS
    <3>3. how \in Outcomes /\ v = [Submitted(r) EXCEPT !.state = how, !.cancelled = c]
      BY <3>1, <3>2 DEF Ended, Outcomes
    <3>4. InStep(req[r], sch, r)
      BY <1>0 DEF AllInStep
    <3>5. r \notin sch.waiting /\ r \notin sch.running /\ r \notin sch.swapped
      BY <1>0, <3>4 DEF InStep, Idle
    <3>6. Gone(v, sch, r)
      BY ONLY r \in Reqs, <3>3, <3>5, EndedIdle
    <3>7. InStep(q2[r], sch, r) /\ q2[r].state # "active"
      BY <3>2, <3>6, GoneInStep
    <3>8. \A x \in Reqs \ {r} : q2[x] = req[x]
      BY <3>1 DEF Ended
    <3> QED BY <1>0, <3>1, <3>7, <3>8 DEF AllInStep, Known
  <2>2. CASE ~Rejected(r)
    <3>1. /\ q2 = [req EXCEPT ![r].state = "active"] /\ s2 = AddRequest(sch, bm, r)
          /\ active' = active \union {r}
      BY <1>4, <2>2 DEF Fetch
    <3>2. \A x \in Reqs : InStep(req[x], sch, x)
      BY <1>0 DEF AllInStep
    <3>3. \A x \in Reqs : InStep(q2[x], s2, x)
      BY <1>0, <3>1, <3>2, FetchProgress
    <3>4. \A x \in Reqs \ {r} : q2[x] = req[x]
      BY <1>0, <3>1
    <3> QED BY <1>0, <3>1, <3>3, <3>4 DEF AllInStep, Known
  <2> QED BY <2>1, <2>2
<1> QED BY <1>1, <1>2, <1>3, <1>4, <1>5 DEF PInv

\* The fast path plans the decode of the one running sequence without Schedule().
LEMMA FastPathProgress ==
  ASSUME EInv, PInv, NEW r \in Reqs, FastPath(r)
  PROVE  PInv'
<1>0. /\ req \in [Reqs -> ReqRecs] /\ sch \in Scheds /\ AllInStep(req, sch) /\ Known(req, active)
      /\ kv \in [Blocks -> BlockData]
  BY DEF EInv, Sound, PInv
<1>1. UNCHANGED <<kv, sch, req, active, batch, stalled>> /\ pc = "schedule" /\ pc' = "build"
  BY DEF FastPath
<1>2. batch = <<>> /\ stalled = {} /\ Distinct(batch)
  BY <1>1 DEF PInv
<1>3. BlocksOf(batch) = {}
  BY <1>2, EmptySeqFacts
<1>4. PICK o : o = out' /\ o = [NoOutput EXCEPT !.decode = <<r>>, !.total = 1, !.bctx = req[r].n_past]
  BY DEF FastPath
<1>5. o.prefill = <<>> /\ o.decode = <<r>> /\ o.chunk = [x \in Reqs |-> 0]
  BY <1>4 DEF NoOutput
<1>6. /\ BlocksOf(o.prefill) = {} /\ Distinct(o.prefill) /\ Len(o.prefill) = 0
      /\ BlocksOf(o.decode) = {r} /\ Distinct(o.decode) /\ Len(o.decode) = 1
  BY <1>5, EmptySeqFacts, SingletonSeq
<1>7. WithinLimits(o)
  <2>1. \A x \in Reqs : o.chunk[x] >= 0
    BY <1>5
  <2>2. IsFiniteSet(Slots(o.chunk, BlocksOf(o.prefill))) /\ Load(o.chunk, BlocksOf(o.prefill)) = 0
    BY <1>6, LoadNone
  <2>3. 0 + 1 <= Config.max_num_seqs /\ 0 + 1 <= Config.max_num_batched_tokens
    BY ConfigAssumption
  <2> QED BY <1>6, <2>1, <2>2, <2>3 DEF WithinLimits
<1>8. req[r].state = "active" /\ ~req[r].prefill /\ sch.swapped = {}
  BY DEF FastPath, FastPathFor, Unfinished
<1>9. InPhase(o, req, sch)
  <2>1. req[r].prefill = FALSE
    BY <1>0, <1>8 DEF ReqRecs
  <2>2. r \in sch.running
    BY <1>0, <1>8, <2>1 DEF AllInStep, InStep, Generating
  <2> QED BY <1>6, <2>1, <2>2 DEF InPhase
<1> QED BY <1>0, <1>1, <1>2, <1>3, <1>4, <1>7, <1>9 DEF PInv

(***************************************************************************)
(* A plan of the scheduler is within the limits of a batch.                *)
(***************************************************************************)
LEMMA PlanWithinLimits ==
  ASSUME NEW x, Planned(x)
  PROVE  WithinLimits(x.o)
<1>0. /\ x.o \in Outs /\ x.s \in Scheds /\ Budgeted(x.s, x.o) /\ Tracks(x.s, x.o)
      /\ \A r \in Reqs : Fits(Got(x.o)[r], x.s, r)
  BY DEF Planned, Sound
<1>1. \A r \in Reqs : x.o.chunk[r] >= 0
  BY <1>0 DEF Tracks
<1>2. BlocksOf(x.o.prefill) \intersect BlocksOf(x.o.decode) = {}
  <2>1. BlocksOf(x.o.prefill) \subseteq x.s.waiting /\ BlocksOf(x.o.decode) \subseteq x.s.running
    BY <1>0 DEF Budgeted
  <2>2. x.s.waiting \intersect x.s.running = {}
    BY <1>0 DEF Fits, Scheds
  <2> QED BY <2>1, <2>2
<1>3. PICK l \in Int, d \in Int, t \in Int, c \in Int :
        /\ l = Load(x.o.chunk, BlocksOf(x.o.prefill)) /\ d = Len(x.o.decode) /\ t = x.o.total
        /\ c = Config.max_num_batched_tokens
  <2>1. Load(x.o.chunk, BlocksOf(x.o.prefill)) \in Nat
    BY <1>0, FS_CardinalityType DEF Budgeted, Load
  <2> QED BY <1>0, <2>1, BudgetTypes
<1>4. l + d <= t /\ t <= c
  BY <1>0, <1>3 DEF Budgeted
<1>5. l + d <= c
  BY ONLY l \in Int, d \in Int, t \in Int, c \in Int, <1>4
<1> QED BY <1>0, <1>1, <1>2, <1>3, <1>5 DEF WithinLimits, Budgeted

\* The plan is applied to the requests.
LEMMA ApplyProgress ==
  ASSUME NEW m, Sound(m, req, sch), kv \in [Blocks -> BlockData], AllInStep(req, sch), NEW x, Planned(x),
         NEW q, NEW fail, NEW back, NEW away, NEW k, NEW m2, NEW q2, NEW s2,
         Applies(x, q, fail, back, away, k, m2, q2, s2)
  PROVE  /\ k \in [Blocks -> BlockData] /\ AllInStep(q2, s2) /\ InPhase(x.o, q2, s2)
         /\ \A r \in Reqs : q2[r].state = "active" => req[r].state = "active"
<1>a. /\ q = Got(x.o) /\ fail = SwapInFails(x.o, q) /\ back = Restored(x.o, q)
      /\ k = RestoreKV(q, back) /\ q2 = Applied(k, q, fail, away, back) /\ s2 = RemoveRequests(x.s, fail)
  BY DEF Applies
<1>0. /\ req \in [Reqs -> ReqRecs] /\ x.o \in Outs /\ Sound(x.m, q, x.s) /\ x.s \in Scheds
      /\ q \in [Reqs -> ReqRecs] /\ x.o.swapin \in SUBSET Reqs /\ \A r \in Reqs : Fits(q[r], x.s, r)
  BY <1>a, GotType DEF Planned, Sound, Outs
<1>1. fail \in SUBSET Reqs /\ back \in SUBSET Reqs
  BY <1>0, <1>a DEF SwapInFails, Restored
<1>2. \A r \in back : Len(q[r].table) = Len(q[r].swap.data)
  BY <1>a DEF Restored, SwapInFails
<1>3. ASSUME NEW r \in Reqs PROVE InStep(q[r], x.s, r)
  <2>1. InStep(req[r], sch, r)
    BY DEF AllInStep
  <2>2. PICK w : w = q[r] /\ w = Got(x.o)[r]
    BY <1>a
  <2>3. InStep(w, x.s, r)
    BY <2>1, <2>2, PlanProgress
  <2> QED BY <2>2, <2>3
<1>4. k \in [Blocks -> BlockData]
  <2>1. \A r \in back : Stored(q[r])
    BY <1>1, <1>3 DEF InStep
  <2>2. RestoreKV(q, back) \in [Blocks -> BlockData]
    BY <1>0, <1>1, <1>2, <2>1, RestoreData
  <2> QED BY <1>a, <2>2
<1>5. ASSUME NEW r \in Reqs
      PROVE  /\ InStep(q2[r], s2, r)
             /\ q2[r].state = "active" => r \notin fail /\ q[r].state = "active" /\ q2[r].prefill = q[r].prefill
  <2>1. InStep(q[r], x.s, r) /\ q2 = Applied(k, q, fail, away, back) /\ s2 = RemoveRequests(x.s, fail)
    BY <1>3, <1>a
  <2>2. q \in [Reqs -> ReqRecs] /\ x.s \in Scheds
    BY <1>0
  <2> QED BY ONLY r \in Reqs, <1>1, <1>4, <2>1, <2>2, AppliedProgress
<1>6. ASSUME NEW r \in Reqs, q2[r].state = "active" PROVE req[r].state = "active"
  BY <1>a, <1>0, <1>5, <1>6, GotType
<1>7. InPhase(x.o, q2, s2)
  <2>0. /\ BlocksOf(x.o.prefill) \subseteq x.s.waiting /\ BlocksOf(x.o.decode) \subseteq x.s.running
        /\ x.s.waiting \subseteq Reqs /\ x.s.running \subseteq Reqs
    BY <1>0 DEF Planned, Budgeted, Scheds
  <2>1. ASSUME NEW r \in BlocksOf(x.o.prefill), q2[r].state = "active" PROVE q2[r].prefill = TRUE
    <3>1. r \in Reqs /\ r \in x.s.waiting
      BY <2>0
    <3>2. q2[r].prefill = q[r].prefill
      BY <1>5, <2>1, <3>1
    <3> QED BY <1>0, <3>1, <3>2 DEF Fits
  <2>2. ASSUME NEW r \in BlocksOf(x.o.decode), q2[r].state = "active"
        PROVE  q2[r].prefill = FALSE /\ r \in s2.running
    <3>1. r \in Reqs /\ r \in x.s.running
      BY <2>0
    <3>2. q2[r].prefill = q[r].prefill /\ q[r].state = "active" /\ r \notin fail
      BY <1>5, <2>2, <3>1
    <3>3. s2.running = x.s.running \ fail
      BY <1>a, <1>0, <1>1, RemoveRequestsType
    <3>4. q[r].prefill \in BOOLEAN
      BY <1>0, <3>1 DEF ReqRecs
    <3>5. q[r].prefill = FALSE
      BY <1>3, <3>1, <3>2, <3>4 DEF InStep, Prefilling
    <3> QED BY <3>1, <3>2, <3>3, <3>5
  <2> QED BY <2>1, <2>2 DEF InPhase
<1> QED BY <1>4, <1>5, <1>6, <1>7 DEF AllInStep

\* Schedule() keeps the second invariant.
LEMMA ScheduleProgress ==
  ASSUME EInv, PInv, ScheduleBatch
  PROVE  PInv'
<1>0. /\ Sound(bm, req, sch) /\ req \in [Reqs -> ReqRecs] /\ kv \in [Blocks -> BlockData]
      /\ AllInStep(req, sch) /\ Known(req, active)
  BY DEF EInv, Sound, PInv
<1>1. PICK x \in Schedule(sch, bm) :
        LET got  == [r \in Reqs |-> Received(x.o, r)]
            fail == SwapInFails(x.o, got)
            back == Restored(x.o, got)
            away == {r \in x.o.preempted : got[r].table # <<>>}
        IN  /\ kv' = RestoreKV(got, back)
            /\ req' = [r \in Reqs |->
                          IF r \in fail THEN [Submitted(r) EXCEPT !.state = "swap_in",
                                                                  !.cancelled = got[r].cancelled]
                          ELSE IF r \in away THEN SwapOut(kv', got[r])
                          ELSE IF r \in back THEN [got[r] EXCEPT !.swap = NoSwap]
                          ELSE got[r]]
            /\ bm' = FreeTables(x.m, got, fail \union away)
            /\ sch' = RemoveRequests(x.s, fail)
            /\ out' = x.o
            /\ pc' = IF IsEmptyOutput(x.o) THEN "empty" ELSE "build"
  BY Zenon DEF ScheduleBatch
<1>2. PICK q : q = Got(x.o)
  OBVIOUS
<1>3. PICK fail : fail = SwapInFails(x.o, q)
  OBVIOUS
<1>4. PICK back : back = Restored(x.o, q)
  OBVIOUS
<1>5. PICK away : away = {r \in x.o.preempted : q[r].table # <<>>}
  OBVIOUS
<1>6. PICK k, q2, s2, m2 : k = kv' /\ q2 = req' /\ s2 = sch' /\ m2 = bm'
  OBVIOUS
<1>7. /\ Applies(x, q, fail, back, away, k, m2, q2, s2)
      /\ out' = x.o /\ pc' = IF IsEmptyOutput(x.o) THEN "empty" ELSE "build"
  BY <1>1, <1>2, <1>3, <1>4, <1>5, <1>6, Zenon DEF Applies, Applied, Got
<1>8. Planned(x)
  BY <1>0, SchedulePlanned
<1>9. /\ k \in [Blocks -> BlockData] /\ AllInStep(q2, s2) /\ InPhase(x.o, q2, s2)
      /\ \A r \in Reqs : q2[r].state = "active" => req[r].state = "active"
  BY ONLY <1>0, <1>7, <1>8, ApplyProgress
<1>10. WithinLimits(x.o)
  BY <1>8, PlanWithinLimits
<1>11. UNCHANGED <<active, batch, stalled>> /\ pc = "schedule"
  BY DEF ScheduleBatch
<1>12. batch = <<>> /\ stalled = {} /\ Distinct(batch)
  BY <1>11 DEF PInv
<1>13. BlocksOf(batch) = {}
  BY <1>12, EmptySeqFacts
<1>14. out' = x.o /\ pc' \in {"empty", "build"}
  BY <1>7
<1>15. Known(q2, active)
  BY <1>0, <1>9 DEF Known
<1> QED BY <1>6, <1>9, <1>10, <1>11, <1>12, <1>13, <1>14, <1>15 DEF PInv

(***************************************************************************)
(* A batch is built from the plan.                                         *)
(***************************************************************************)
LEMMA BuildStart ==
  ASSUME EInv, PInv, pc = "build", NEW b, b = out.prefill \o out.decode,
         NEW y0, y0 = [m |-> bm, k |-> kv, q |-> req, batch |-> <<>>, stalled |-> {},
                       kind |-> "none", ok |-> TRUE],
         NEW y \in Visit(BuildOne, y0, b)
  PROVE  /\ b \in Seq(Reqs) /\ BlocksOf(b) = Scheduled(out)
         /\ Building(y, sch, req, BlocksOf(b)) /\ Protected(y, BlocksOf(b))
<1>0. /\ Sound(bm, req, sch) /\ req \in [Reqs -> ReqRecs] /\ kv \in [Blocks -> Contents] /\ out \in Outs
      /\ out.prefill \in Seq(Reqs) /\ out.decode \in Seq(Reqs)
  BY DEF EInv, Sound, Outs
<1>1. b \in Seq(Reqs) /\ BlocksOf(b) = Scheduled(out) /\ Distinct(b)
  <2>1. PICK b1 \in Seq(Reqs), b2 \in Seq(Reqs) : b1 = out.prefill /\ b2 = out.decode
    BY ONLY <1>0
  <2>2. Distinct(b1) /\ Distinct(b2) /\ BlocksOf(b1) \intersect BlocksOf(b2) = {}
    BY <2>1 DEF PInv, WithinLimits
  <2>3. b1 \o b2 \in Seq(Reqs) /\ BlocksOf(b1 \o b2) = BlocksOf(b1) \union BlocksOf(b2) /\ Distinct(b1 \o b2)
    BY ONLY b1 \in Seq(Reqs), b2 \in Seq(Reqs), <2>2, BlocksOfConcat
  <2>4. b = b1 \o b2
    BY <2>1
  <2> QED BY ONLY <2>1, <2>3, <2>4 DEF Scheduled
<1>2. Building(y0, sch, req, BlocksOf(b)) /\ Protected(y0, {})
  <2>1. /\ y0.m = bm /\ y0.k = kv /\ y0.q = req /\ y0.batch = <<>> /\ y0.stalled = {}
        /\ y0 = [m |-> y0.m, k |-> y0.k, q |-> y0.q, batch |-> y0.batch, stalled |-> y0.stalled,
                 kind |-> y0.kind, ok |-> y0.ok]
    OBVIOUS
  <2>2. /\ y0.batch \in Seq(Reqs) /\ BlocksOf(y0.batch) = {} /\ y0.stalled \in SUBSET Reqs
        /\ Distinct(y0.batch)
    BY <2>1, EmptySeqFacts
  <2>3. Building(y0, sch, req, BlocksOf(b))
    BY <1>0, <2>1, <2>2 DEF Building
  <2>4. Protected(y0, {})
    BY <2>1, <2>2 DEF Protected, StillAt
  <2> QED BY <2>3, <2>4
<1>3. Building(y, sch, req, BlocksOf(b)) /\ Protected(y, BlocksOf(b))
  BY <1>0, <1>1, <1>2, BuildAllPrivate
<1> QED BY <1>1, <1>3

\* Building the batch keeps it.
LEMMA BuildProgress ==
  ASSUME EInv, PInv, BuildBatch
  PROVE  PInv'
<1>0. /\ req \in [Reqs -> ReqRecs] /\ kv \in [Blocks -> BlockData] /\ AllInStep(req, sch) /\ Known(req, active)
      /\ out \in Outs /\ pc = "build" /\ WithinLimits(out) /\ InPhase(out, req, sch)
  BY DEF EInv, Sound, PInv, BuildBatch
<1>1. PICK b : b = out.prefill \o out.decode
  OBVIOUS
<1>2. PICK y0 : y0 = [m |-> bm, k |-> kv, q |-> req, batch |-> <<>>, stalled |-> {},
                      kind |-> "none", ok |-> TRUE]
  OBVIOUS
<1>3. PICK y \in Visit(BuildOne, y0, b) :
        /\ kv' = y.k /\ req' = y.q
        /\ batch' = y.batch /\ stalled' = y.stalled
        /\ pc' = IF y.batch = <<>> THEN "unbuilt" ELSE "execute"
  BY <1>1, <1>2, Zenon DEF BuildBatch
<1>4. Building(y, sch, req, BlocksOf(b)) /\ Protected(y, BlocksOf(b))
  BY <1>0, <1>1, <1>2, BuildStart
<1>5. sch' = sch /\ out' = out /\ active' = active
  BY DEF BuildBatch
<1>6. \A r \in Reqs : StillAt(req[r], y.q[r])
  BY <1>4 DEF Protected
<1>7. y.k \in [Blocks -> BlockData]
  <2>1. y.k \in [Blocks -> Contents]
    BY <1>4 DEF Building
  <2>2. \A e \in Blocks : y.k[e] \in BlockData
    BY <1>0, <1>4 DEF Protected
  <2> QED BY <2>1, <2>2
<1>8. AllInStep(y.q, sch) /\ Known(y.q, active)
  <2>1. ASSUME NEW r \in Reqs PROVE InStep(y.q[r], sch, r) /\ (y.q[r].state = "active" => r \in active)
    <3>1. Alike(req[r], sch, y.q[r], sch, r)
      BY <1>6 DEF StillAt, Alike
    <3>2. InStep(y.q[r], sch, r)
      BY <1>0, <3>1, AlikeInStep DEF AllInStep
    <3> QED BY <1>0, <1>6, <3>2 DEF Known, StillAt
  <2> QED BY <2>1 DEF AllInStep, Known
<1>9. Distinct(y.batch) /\ \A r \in BlocksOf(y.batch) \union y.stalled : y.q[r].state = "active"
  <2>1. BlocksOf(y.batch) \subseteq Reqs /\ y.stalled \subseteq Reqs
    BY <1>4, BlocksOfSeq DEF Building
  <2> QED BY <1>4, <1>6, <2>1 DEF Protected, StillAt
<1>10. InPhase(out, y.q, sch)
  <2>1. BlocksOf(out.prefill) \subseteq Reqs /\ BlocksOf(out.decode) \subseteq Reqs
    <3>1. out.prefill \in Seq(Reqs) /\ out.decode \in Seq(Reqs)
      BY <1>0 DEF Outs
    <3> QED BY <3>1, BlocksOfSeq
  <2> QED BY <1>0, <1>6, <2>1 DEF InPhase, StillAt
<1>11. pc' \in {"unbuilt", "execute"} /\ (pc' # "execute" => batch' = <<>>)
  BY <1>3
<1> QED BY <1>0, <1>3, <1>5, <1>7, <1>8, <1>9, <1>10, <1>11 DEF PInv

(***************************************************************************)
(* What a batch writes is the text of its members, as far as they may get. *)
(***************************************************************************)
LEMMA StepBounds ==
  ASSUME EInv, PInv, pc = "execute", NEW r \in BlocksOf(batch)
  PROVE  /\ r \in Reqs /\ req[r].n_past \in Int /\ req[r].n_past >= 0 /\ TokensToTake(r) \in Int
         /\ PromptLen(r) + MaxTokens[r] \in Int
         /\ req[r].n_past + TokensToTake(r) <= PromptLen(r) + MaxTokens[r]
<1>0. /\ req \in [Reqs -> ReqRecs] /\ out \in Outs /\ sch \in Scheds /\ batch \in Seq(Reqs)
  BY DEF EInv, Sound
<1>1. r \in Reqs
  BY <1>0, BlocksOfSeq
<1>2. /\ req[r].state = "active" /\ InStep(req[r], sch, r) /\ out.chunk[r] >= 0
  BY <1>1 DEF PInv, AllInStep, WithinLimits
<1>3. PICK n \in Int, l \in Int, m \in Int, k \in Int, rem \in Int, g \in Int :
        /\ n = req[r].n_past /\ l = PromptLen(r) /\ m = MaxTokens[r] /\ k = TokensToTake(r)
        /\ rem = req[r].rem /\ g = req[r].gen
  <2>1. req[r] \in ReqRecs /\ PromptLen(r) \in Int /\ MaxTokens[r] \in Int /\ TokensToTake(r) \in Int
    BY <1>0, <1>1, PromptLenType, MaxTokensAssumption, TokensToTakeType
  <2> QED BY <2>1 DEF ReqRecs
<1>4. m >= 1 /\ l >= 0
  BY <1>1, <1>3, MaxTokensAssumption, PromptLenType
<1>5. CASE req[r].prefill = TRUE
  <2>1. Prefilling(req[r], sch, r)
    BY <1>2, <1>5 DEF InStep
  <2>2. n >= 0 /\ n + rem = l /\ Ahead(sch, r) <= rem
    BY <1>3, <2>1 DEF Prefilling
  <2>3. Ahead(sch, r) \in Int /\ Ahead(sch, r) >= 0
    <3>1. sch.shared[r] \in Seq(Blocks)
      BY <1>0, <1>1 DEF Scheds
    <3>2. Len(sch.shared[r]) \in Nat
      BY <3>1, LenProperties
    <3> QED BY <3>2, BlockSizeAssumption DEF Ahead
  <2>4. rem >= 0
    BY <2>2, <2>3
  <2>5. k <= rem
    BY <1>0, <1>1, <1>2, <1>3, <1>5, <2>4, TokensToTakeValue
  <2>6. n + k <= l + m
    BY ONLY n \in Int, l \in Int, m \in Int, k \in Int, rem \in Int, <1>4, <2>2, <2>5
  <2> QED BY <1>1, <1>3, <2>2, <2>6
<1>6. CASE req[r].prefill = FALSE
  <2>1. Generating(req[r], sch, r)
    BY <1>2, <1>6 DEF InStep
  <2>2. 1 <= g /\ g <= m - 1 /\ n = l + g - 1
    BY <1>3, <2>1 DEF Generating
  <2>3. k = 1
    BY <1>3, <1>6 DEF TokensToTake
  <2>4. n >= 0 /\ n + k <= l + m
    BY ONLY n \in Int, l \in Int, m \in Int, k \in Int, g \in Int, <1>4, <2>2, <2>3
  <2> QED BY <1>1, <1>3, <2>4
<1>7. req[r].prefill \in BOOLEAN
  BY <1>0, <1>1 DEF ReqRecs
<1> QED BY <1>5, <1>6, <1>7

\* Blocks written by a batch hold texts of the sequences.
LEMMA WrittenData ==
  ASSUME EInv, PInv, pc = "execute"
  PROVE  Written \in [Blocks -> BlockData]
<1>0. kv \in [Blocks -> BlockData]
  BY DEF PInv
<1>1. ASSUME NEW b \in Blocks, NEW i \in 0 .. BlockSize - 1
      PROVE  (IF Writers(b, i) = {} THEN kv[b][i]
              ELSE LET r == CHOOSE r \in Writers(b, i) : TRUE
                       p == CHOOSE p \in WritePos(r, b, i) : TRUE
                   IN  IF HoldsContext(r, req[r].n_past) THEN Text(r, p + 1) ELSE <<>>) \in Cells
  <2>1. CASE Writers(b, i) = {}
    <3>1. kv[b] \in BlockData
      BY <1>0
    <3> QED BY <2>1, <3>1 DEF BlockData
  <2>2. CASE Writers(b, i) # {}
    <3>1. PICK r : r = CHOOSE x \in Writers(b, i) : TRUE
      OBVIOUS
    <3>2. r \in Writers(b, i)
      BY <2>2, <3>1
    <3>3. r \in BlocksOf(batch) /\ WritePos(r, b, i) # {}
      BY <3>2 DEF Writers
    <3>4. PICK p : p = CHOOSE x \in WritePos(r, b, i) : TRUE
      OBVIOUS
    <3>5. p \in WritePos(r, b, i)
      BY <3>3, <3>4
    <3>6. PICK n \in Int, k \in Int, e \in Int :
             /\ n = req[r].n_past /\ k = TokensToTake(r) /\ e = PromptLen(r) + MaxTokens[r]
             /\ n >= 0 /\ n + k <= e /\ r \in Reqs
      BY <3>3, StepBounds
    <3>7. p \in n .. n + k - 1
      BY <3>5, <3>6 DEF WritePos
    <3>8. PICK j \in 1 .. e : j = p + 1
      BY ONLY n \in Int, k \in Int, e \in Int, <3>6, <3>7
    <3>9. Text(r, j) \in Cells /\ <<>> \in Cells
      BY <3>6, <3>8 DEF Cells
    <3> QED BY <2>2, <3>1, <3>4, <3>8, <3>9
  <2> QED BY <2>1, <2>2
<1> DEFINE D(b, i) == IF Writers(b, i) = {} THEN kv[b][i]
              ELSE LET r == CHOOSE r \in Writers(b, i) : TRUE
                       p == CHOOSE p \in WritePos(r, b, i) : TRUE
                   IN  IF HoldsContext(r, req[r].n_past) THEN Text(r, p + 1) ELSE <<>>
<1>2. Written = [b \in Blocks |-> [i \in 0 .. BlockSize - 1 |-> D(b, i)]]
  BY Zenon DEF Written
<1>3. \A b \in Blocks, i \in 0 .. BlockSize - 1 : D(b, i) \in Cells
  BY <1>1
<1> HIDE DEF D
<1>4. ASSUME NEW b \in Blocks PROVE [i \in 0 .. BlockSize - 1 |-> D(b, i)] \in BlockData
  BY <1>3 DEF BlockData
<1> QED BY <1>2, <1>4

\* Running the batch, or failing it, keeps it.
LEMMA ExecuteProgress ==
  ASSUME EInv, PInv, ExecuteBatch \/ FailBatch
  PROVE  PInv'
<1>0. /\ Sound(bm, req, sch) /\ req \in [Reqs -> ReqRecs] /\ out \in Outs /\ batch \in Seq(Reqs)
      /\ out.prefill \in Seq(Reqs) /\ out.decode \in Seq(Reqs)
      /\ kv \in [Blocks -> BlockData] /\ AllInStep(req, sch) /\ Known(req, active)
  BY DEF EInv, PInv, Sound, Outs
<1>1. PICK B \in SUBSET Reqs : B = BlocksOf(batch)
  BY <1>0, BlocksOfSeq
<1>p. pc = "execute"
  BY DEF ExecuteBatch, FailBatch
<1>2. Written \in [Blocks -> BlockData]
  BY <1>p, WrittenData
<1>3. CASE ExecuteBatch
  <2>1. PICK y0 : y0 = [m |-> bm, s |-> sch, q |-> req]
    OBVIOUS
  <2>2. Working(y0, BlocksOf(batch)) /\ y0.q = req /\ y0.s = sch
    <3>1. y0.m = bm /\ y0.s = sch /\ y0.q = req /\ y0 = [m |-> y0.m, s |-> y0.s, q |-> y0.q]
      BY <2>1
    <3>2. \A r \in BlocksOf(batch) : sch.shared[r] = <<>> /\ req[r].state # "pending"
      BY DEF EInv, Adopted
    <3> QED BY <1>0, <3>1, <3>2 DEF Working, Ready
  <2>3. PICK y \in Visit(OutputOne, y0, batch) : sch' = y.s /\ req' = y.q
    BY <1>3, <2>1, Zenon DEF ExecuteBatch
  <2>4. ASSUME NEW r \in BlocksOf(batch) PROVE Member(r)
    <3>1. r \in Scheduled(out) /\ r \in Reqs
      BY <1>1 DEF EInv
    <3>2. req[r].state = "active" /\ out.chunk[r] >= 0 /\ InPhase(out, req, sch)
      BY <1>p, <3>1 DEF PInv, WithinLimits
    <3> QED BY <3>1, <3>2 DEF Member, InPhase, Scheduled
  <2>5. Distinct(batch) /\ \A x \in Reqs : InStep(req[x], sch, x)
    BY <1>0 DEF PInv, AllInStep
  <2>6. \A x \in Reqs : Processed(y, x)
    BY <1>0, <2>2, <2>3, <2>4, <2>5, OutputsProgress
  <2>7. AllInStep(req', sch')
    BY <2>3, <2>6 DEF AllInStep, Processed
  <2>8. kv' = Written /\ NextIteration /\ active' = {r \in active : req'[r].state = "active"}
    BY <1>3 DEF ExecuteBatch, Reap
  <2>9. Known(req', active')
    BY <1>0, <2>3, <2>6, <2>8 DEF Known, Processed
  <2> QED BY <1>2, <2>7, <2>8, <2>9, FreshStart
<1>4. CASE FailBatch
  <2>1. "failed" \in Outcomes /\ Fail(B, "failed")
    BY <1>1, <1>4 DEF Outcomes, FailBatch
  <2>2. kv' \in {kv, Written} /\ NextIteration /\ (Reap \/ active' = active)
    BY <1>4 DEF FailBatch
  <2>3. AllInStep(req', sch') /\ \A r \in Reqs : req'[r].state = "active" => req[r].state = "active"
    BY <2>1, FailProgress
  <2>4. Known(req', active')
    BY <2>2, <2>3, ReapKnown
  <2>5. kv' \in [Blocks -> BlockData]
    BY <1>0, <1>2, <2>2
  <2> QED BY <2>2, <2>3, <2>4, <2>5, FreshStart
<1> QED BY <1>3, <1>4
-----------------------------------------------------------------------------
\* Every step keeps it.
LEMMA NextProgress ==
  ASSUME EInv, PInv, [Next]_vars
  PROVE  PInv'
<1>1. ASSUME NEW r \in Reqs, Cancel(r) PROVE PInv'
  BY <1>1, CancelProgress
<1>2. ASSUME NEW r \in Reqs, Fetch(r) PROVE PInv'
  BY <1>2, FetchInStep
<1>3. CASE ProcessCancelled
  BY <1>3, CancelledProgress
<1>4. ASSUME NEW r \in Reqs, FastPath(r) PROVE PInv'
  BY <1>4, FastPathProgress
<1>5. CASE ScheduleBatch
  BY <1>5, ScheduleProgress
<1>6. CASE FailUnschedulable \/ (\E R \in SUBSET Reqs : FailStalled(R)) \/ WaitAndRetry
  BY <1>6, EmptyProgress
<1>7. CASE BuildBatch
  BY <1>7, BuildProgress
<1>8. CASE RetryBuild \/ FailUnbuilt
  BY <1>8, UnbuiltProgress
<1>9. CASE ExecuteBatch \/ FailBatch
  BY <1>9, ExecuteProgress
<1>10. CASE UNCHANGED vars
  <2>1. /\ pc' = pc /\ kv' = kv /\ sch' = sch /\ out' = out /\ req' = req /\ active' = active
        /\ batch' = batch /\ stalled' = stalled
    BY <1>10 DEF vars
  <2> QED BY <2>1 DEF PInv
<1> QED BY <1>1, <1>2, <1>3, <1>4, <1>5, <1>6, <1>7, <1>8, <1>9, <1>10 DEF Next, Worker

(***************************************************************************)
(* The second invariant holds of the worker, whatever the requests, the    *)
(* blocks and the configuration.                                           *)
(***************************************************************************)
THEOREM EngineInStep == Spec => [](EInv /\ PInv)
<1>1. Init => PInv
  BY InitPInv
<1>2. EInv /\ PInv /\ [Next]_vars => PInv'
  BY NextProgress
<1> QED BY <1>1, <1>2, EngineSound, PTL DEF Spec

(***************************************************************************)
(* What it says between iterations.                                        *)
(***************************************************************************)
LEMMA InvAgrees == EInv /\ PInv => SchedulerAgrees
<1> SUFFICES ASSUME EInv, PInv, pc = "fetch"
             PROVE  /\ sch.waiting \union sch.running \union sch.swapped = Unfinished
                    /\ sch.waiting = {r \in Unfinished : req[r].prefill}
                    /\ sch.running = Unfinished \ (sch.waiting \union sch.swapped)
                    /\ \A r \in Unfinished :
                        LET reserved == Len(sch.shared[r]) * BlockSize
                        IN  /\ sch.ctx[r] = req[r].n_past + reserved
                            /\ sch.rem[r] = req[r].rem - reserved
                            /\ ~req[r].prefill => sch.gen[r] = req[r].gen - 1
  BY Zenon DEF SchedulerAgrees
<1>0. /\ req \in [Reqs -> ReqRecs] /\ sch \in Scheds /\ active \in SUBSET Reqs
      /\ \A r \in Reqs : InStep(req[r], sch, r) /\ Fits(req[r], sch, r)
      /\ \A r \in Reqs : req[r].state = "active" => r \in active
  BY DEF EInv, PInv, Sound, AllInStep, Known
<1>1. sch.waiting \subseteq Reqs /\ sch.running \subseteq Reqs /\ sch.swapped \subseteq Reqs
      /\ Unfinished \subseteq Reqs
  BY <1>0 DEF Scheds, Unfinished
<1>2. ASSUME NEW r \in Reqs
      PROVE  /\ r \in Unfinished <=> req[r].state = "active"
             /\ req[r].prefill \in BOOLEAN
             /\ r \notin Unfinished => r \notin sch.waiting /\ r \notin sch.running /\ r \notin sch.swapped
             /\ r \in Unfinished /\ req[r].prefill = TRUE =>
                  r \in sch.waiting /\ r \notin sch.running /\ r \notin sch.swapped
             /\ r \in Unfinished /\ req[r].prefill = FALSE =>
                  r \notin sch.waiting /\ (r \in sch.running <=> r \notin sch.swapped)
  <2>1. r \in Unfinished <=> req[r].state = "active"
    BY <1>0 DEF Unfinished
  <2>2. req[r].prefill \in BOOLEAN
    BY <1>0 DEF ReqRecs
  <2>3. InStep(req[r], sch, r)
    BY <1>0
  <2>4. r \notin Unfinished => r \notin sch.waiting /\ r \notin sch.running /\ r \notin sch.swapped
    BY <2>1, <2>3 DEF InStep, Idle
  <2>5. r \in Unfinished /\ req[r].prefill = TRUE =>
          r \in sch.waiting /\ r \notin sch.running /\ r \notin sch.swapped
    BY <2>1, <2>3 DEF InStep, Prefilling
  <2>6. r \in Unfinished /\ req[r].prefill = FALSE =>
          r \notin sch.waiting /\ (r \in sch.running <=> r \notin sch.swapped)
    BY <2>1, <2>3 DEF InStep, Generating
  <2> QED BY <2>1, <2>2, <2>4, <2>5, <2>6
<1>3. sch.waiting \union sch.running \union sch.swapped = Unfinished
  BY <1>1, <1>2
<1>4. sch.waiting = {r \in Unfinished : req[r].prefill}
  BY <1>1, <1>2
<1>5. sch.running = Unfinished \ (sch.waiting \union sch.swapped)
  BY <1>1, <1>2
<1>6. ASSUME NEW r \in Unfinished
      PROVE  /\ sch.ctx[r] = req[r].n_past + Len(sch.shared[r]) * BlockSize
             /\ sch.rem[r] = req[r].rem - Len(sch.shared[r]) * BlockSize
             /\ ~req[r].prefill => sch.gen[r] = req[r].gen - 1
  <2>1. r \in Reqs /\ req[r].state = "active" /\ InStep(req[r], sch, r) /\ req[r].prefill \in BOOLEAN
    BY <1>0, <1>1, <1>2
  <2>2. CASE req[r].prefill = TRUE
    BY <2>1, <2>2 DEF InStep, Prefilling, Ahead
  <2>3. CASE req[r].prefill = FALSE
    <3>1. Generating(req[r], sch, r)
      BY <2>1, <2>3 DEF InStep
    <3>2. sch.shared[r] = <<>>
      BY <1>0, <2>1, <3>1 DEF Fits, Generating
    <3>3. PICK n \in Int, h \in Int : n = req[r].n_past /\ h = Len(sch.shared[r]) * BlockSize /\ h = 0
      <4>1. Len(<<>>) * BlockSize = 0
        BY BlockSizeAssumption
      <4> QED BY <1>0, <2>1, <3>2, <4>1 DEF ReqRecs
    <3>4. n = n + h /\ 0 = 0 - h
      BY <3>3
    <3> QED BY <3>1, <3>3, <3>4 DEF Generating
  <2> QED BY <2>1, <2>2, <2>3
<1> QED BY <1>3, <1>4, <1>5, <1>6

\* The ranges of TypeOK follow.
LEMMA InvType == EInv /\ PInv => TypeOK
<1> SUFFICES ASSUME EInv, PInv PROVE TypeOK
  OBVIOUS
<1>0. /\ req \in [Reqs -> ReqRecs] /\ sch \in Scheds /\ active \in SUBSET Reqs /\ stalled \in SUBSET Reqs
      /\ batch \in Seq(Reqs) /\ bm \in BMType
      /\ \A r \in Reqs : InStep(req[r], sch, r)
      /\ \A r \in Reqs : req[r].state = "active" => r \in active
  BY DEF EInv, PInv, Sound, GoodBM, AllInStep, Known
<1>1. ASSUME NEW r \in Reqs
      PROVE  /\ req[r].state \in {"pending", "active"} \union Outcomes
             /\ req[r].cancelled \in BOOLEAN /\ req[r].prefill \in BOOLEAN
             /\ req[r].rem \in 0 .. PromptLen(r)
             /\ req[r].n_past \in 0 .. PromptLen(r) + MaxTokens[r]
             /\ req[r].gen \in 0 .. MaxTokens[r] - 1
             /\ BlocksOf(req[r].table) \subseteq Blocks
             /\ \A i \in DOMAIN req[r].swap.data : req[r].swap.data[i] \in BlockData
  <2>1. req[r] \in ReqRecs /\ InStep(req[r], sch, r)
    BY <1>0
  <2>2. /\ req[r].state \in States /\ req[r].cancelled \in BOOLEAN /\ req[r].prefill \in BOOLEAN
        /\ req[r].table \in Seq(Blocks)
    BY <2>1 DEF ReqRecs
  <2>3. BlocksOf(req[r].table) \subseteq Blocks
    BY <2>2, BlocksOfSeq
  <2>4. \A i \in DOMAIN req[r].swap.data : req[r].swap.data[i] \in BlockData
    BY <2>1 DEF InStep, Stored
  <2>5. PICK n \in Int, l \in Int, m \in Int, rem \in Int, g \in Int, a \in Int :
          /\ n = req[r].n_past /\ l = PromptLen(r) /\ m = MaxTokens[r] /\ rem = req[r].rem /\ g = req[r].gen
          /\ a = Ahead(sch, r) /\ l >= 0 /\ m >= 1 /\ a >= 0
    <3>1. PromptLen(r) \in Int /\ PromptLen(r) >= 0 /\ MaxTokens[r] \in Int /\ MaxTokens[r] >= 1
      BY PromptLenType, MaxTokensAssumption
    <3>2. Len(sch.shared[r]) \in Nat
      <4>1. sch.shared[r] \in Seq(Blocks)
        BY <1>0 DEF Scheds
      <4> QED BY <4>1, LenProperties
    <3>3. Ahead(sch, r) \in Int /\ Ahead(sch, r) >= 0
      BY <3>2, BlockSizeAssumption DEF Ahead
    <3> QED BY <2>1, <3>1, <3>3 DEF ReqRecs
  <2>6. \/ rem = l /\ n = 0 /\ g = 0
        \/ g = 0 /\ n >= 0 /\ n + rem = l /\ a <= rem
        \/ rem = 0 /\ 1 <= g /\ g <= m - 1 /\ n = l + g - 1
    <3>1. CASE req[r].state # "active"
      BY <2>1, <2>5, <3>1 DEF InStep, Idle
    <3>2. CASE req[r].state = "active" /\ req[r].prefill = TRUE
      BY <2>1, <2>5, <3>2 DEF InStep, Prefilling
    <3>3. CASE req[r].state = "active" /\ req[r].prefill = FALSE
      BY <2>1, <2>5, <3>3 DEF InStep, Generating
    <3> QED BY <2>2, <3>1, <3>2, <3>3
  <2>7. rem \in 0 .. l /\ n \in 0 .. l + m /\ g \in 0 .. m - 1
    BY ONLY n \in Int, l \in Int, m \in Int, rem \in Int, g \in Int, a \in Int, <2>5, <2>6
  <2> QED BY <2>2, <2>3, <2>4, <2>5, <2>7 DEF States
<1>2. stalled \subseteq active /\ BlocksOf(batch) \subseteq active
  <2>1. BlocksOf(batch) \subseteq Reqs
    BY <1>0, BlocksOfSeq
  <2> QED BY <1>0, <2>1 DEF PInv
<1> QED BY <1>0, <1>1, <1>2 DEF TypeOK, PInv
-----------------------------------------------------------------------------
(***************************************************************************)
(* A sequence without repetitions is as long as its elements are many.     *)
(***************************************************************************)
LEMMA DistinctLen ==
  ASSUME NEW q \in Seq(Reqs), Distinct(q)
  PROVE  IsFiniteSet(BlocksOf(q)) /\ Cardinality(BlocksOf(q)) = Len(q)
<1>1. PICK n \in Int : n = Len(q) /\ n >= 0 /\ DOMAIN q = 1 .. n
  BY LenProperties
<1>2. PICK a \in Int : a = 1
  OBVIOUS
<1>3. IsFiniteSet(a .. n) /\ Cardinality(a .. n) = IF a > n THEN 0 ELSE n - a + 1
  BY ONLY a \in Int, n \in Int, FS_Interval
<1>4. PICK D : D = 1 .. n /\ IsFiniteSet(D) /\ Cardinality(D) = n
  BY <1>1, <1>2, <1>3
<1>5. PICK B : B = BlocksOf(q)
  OBVIOUS
<1>6. PICK f : f = [i \in D |-> q[i]]
  OBVIOUS
<1>7. f \in Bijection(D, B)
  <2>1. f \in [D -> B] /\ \A i \in D : f[i] = q[i]
    BY <1>1, <1>4, <1>5, <1>6 DEF BlocksOf
  <2>2. \A i, j \in D : f[i] = f[j] => i = j
    BY <1>1, <1>4, <2>1 DEF Distinct
  <2>3. \A b \in B : \E i \in D : f[i] = b
    BY <1>1, <1>4, <1>5, <2>1 DEF BlocksOf
  <2> QED BY <2>1, <2>2, <2>3 DEF Bijection, Injection, Surjection, IsInjective
<1>8. ExistsBijection(D, B)
  BY <1>7 DEF ExistsBijection
<1>9. IsFiniteSet(B) /\ Cardinality(B) = Cardinality(D)
  BY ONLY <1>4, <1>8, FS_Bijection
<1> QED BY <1>1, <1>4, <1>5, <1>9

(***************************************************************************)
(* The sum of what the members of a batch take is their load.              *)
(***************************************************************************)
TakeStep(r, n, c) == TokensToTake(r) + n
TakenSoFar(S, n, c) == IsFiniteSet(Slots(c, S)) /\ n = Load(c, S)
Taking == INSTANCE Folding_proofs WITH Choose <- NextToFree, Step <- TakeStep, Good <- TakenSoFar

\* The fold of TokensToTake over a set of requests is the number of their slots.
LEMMA TokensAreLoad ==
  ASSUME NEW f \in [Reqs -> Int], NEW S \in SUBSET Reqs,
         \A r \in S : f[r] = TokensToTake(r) /\ f[r] >= 0
  PROVE  /\ IsFiniteSet(Slots(f, S))
         /\ MapThenSumSet(TokensToTake, S) = Load(f, S)
<1>1. MapThenSumSet(TokensToTake, S) = Taking!Fold(S, 0, f)
  BY ZenonT(60) DEF MapThenSumSet, MapThenFoldSet, Taking!Fold, Taking!MapThenFoldSet, NextToFree, TakeStep
<1>2. Taking!IsFiniteSet(S)
  <2>1. IsFiniteSet(S)
    BY ReqsAssumption, FS_Subset
  <2> QED BY <2>1, Zenon DEF IsFiniteSet, Taking!IsFiniteSet
<1>3. Taking!Chooses(S)
  BY DEF Taking!Chooses, NextToFree
<1>4. TakenSoFar({}, 0, f)
  BY LoadNone DEF TakenSoFar
<1>5. ASSUME NEW R \in SUBSET S, NEW n, R # {}, TakenSoFar(R \ {NextToFree(R)}, n, f)
      PROVE  TakenSoFar(R, TakeStep(NextToFree(R), n, f), f)
  <2>1. PICK r \in R : r = NextToFree(R)
    BY <1>5 DEF NextToFree
  <2>2. PICK P \in SUBSET Reqs : P = R \ {r}
    OBVIOUS
  <2>3. PICK k \in Int : k = f[r] /\ k >= 0 /\ k = TokensToTake(r)
    OBVIOUS
  <2>4. IsFiniteSet(Slots(f, P)) /\ n = Load(f, P)
    BY <1>5, <2>1, <2>2 DEF TakenSoFar
  <2>5. Adds(f, P, f, R, r, k)
    BY <2>1, <2>2, <2>3 DEF Adds
  <2>6. r \in Reqs
    OBVIOUS
  <2>7. IsFiniteSet(Slots(f, R)) /\ Load(f, R) = Load(f, P) + k
    <3>1. IsFiniteSet(Slots(f, P))
      BY <2>4
    <3>2. Grows(f, P, f, R, k)
      BY ONLY f \in [Reqs -> Int], P \in SUBSET Reqs, <3>1, <2>6, k \in Int, <2>5, LoadAdd
    <3> QED BY <3>2 DEF Grows
  <2>8. n \in Int
    BY <2>4, FS_CardinalityType DEF Load
  <2>9. TakeStep(NextToFree(R), n, f) = k + n
    BY <2>1, <2>3 DEF TakeStep
  <2>10. k + n = Load(f, R)
    BY <2>4, <2>7, <2>8
  <2> QED BY <2>7, <2>9, <2>10 DEF TakenSoFar
<1>6. Taking!Kept(S, f)
  BY <1>5 DEF Taking!Kept
<1>7. TakenSoFar(S, Taking!Fold(S, 0, f), f)
  BY ONLY <1>2, <1>3, <1>4, <1>6, Taking!FoldInvariant
<1> QED BY <1>1, <1>7 DEF TakenSoFar

(***************************************************************************)
(* A batch takes no more than what was planned for it: the chunk of every  *)
(* prefill and one token for every decode.                                 *)
(***************************************************************************)
LEMMA LoadBound ==
  ASSUME NEW f \in [Reqs -> Int], NEW g \in [Reqs -> Int], NEW B \in SUBSET Reqs,
         NEW P \in SUBSET Reqs, NEW D \in SUBSET Reqs, B \subseteq P \union D,
         \A r \in B : (r \in P => f[r] <= g[r]) /\ (r \in D => f[r] <= 1),
         IsFiniteSet(Slots(g, P)), IsFiniteSet(D)
  PROVE  Load(f, B) <= Load(g, P) + Cardinality(D)
<1>1. PICK a \in Int : a = 1
  OBVIOUS
<1>2. IsFiniteSet({a}) /\ Cardinality({a}) = 1
  BY FS_Singleton
<1>3. PICK T : T = D \X {a}
  OBVIOUS
<1>4. IsFiniteSet(D \X {a}) /\ Cardinality(D \X {a}) = Cardinality(D) * Cardinality({a})
  BY ONLY IsFiniteSet(D), <1>2, FS_Product
<1>5. Cardinality(D) \in Nat
  BY FS_CardinalityType
<1>6. IsFiniteSet(T) /\ Cardinality(T) = Cardinality(D)
  BY <1>2, <1>3, <1>4, <1>5
<1>7. PICK G : G = Slots(g, P)
  OBVIOUS
<1>8. PICK U : U = G \union T
  OBVIOUS
<1>9. PICK F : F = Slots(f, B)
  OBVIOUS
<1>10. F \subseteq U
  <2> SUFFICES ASSUME NEW p \in F PROVE p \in G \/ p \in T
    BY <1>8
  <2>1. PICK r \in B, i \in Nat : p = <<r, i>> /\ 1 <= i /\ i <= f[r]
    BY <1>9 DEF Slots
  <2>2. CASE r \in P
    <3>1. f[r] \in Int /\ g[r] \in Int /\ f[r] <= g[r]
      BY <2>2
    <3>2. i <= g[r]
      BY <2>1, <3>1
    <3> QED BY <1>7, <2>1, <2>2, <3>2 DEF Slots
  <2>3. CASE r \in D
    <3>1. f[r] \in Int /\ f[r] <= 1
      BY <2>3
    <3>2. i = a
      BY <1>1, <2>1, <3>1
    <3> QED BY <1>3, <2>1, <2>3, <3>2
  <2> QED BY <2>2, <2>3
<1>11. IsFiniteSet(U) /\ Cardinality(U) = Cardinality(G) + Cardinality(T) - Cardinality(G \cap T)
  BY <1>6, <1>7, <1>8, FS_Union
<1>12. IsFiniteSet(F) /\ Cardinality(F) <= Cardinality(U)
  BY <1>10, <1>11, FS_Subset
<1>13. PICK I : I = G \cap T
  OBVIOUS
<1>14. IsFiniteSet(I)
  <2>1. I \subseteq G /\ IsFiniteSet(G)
    BY <1>7, <1>13
  <2> QED BY <2>1, FS_Subset
<1>15. /\ Cardinality(F) \in Nat /\ Cardinality(U) \in Nat /\ Cardinality(G) \in Nat /\ Cardinality(T) \in Nat
       /\ Cardinality(I) \in Nat
  BY <1>6, <1>7, <1>11, <1>12, <1>14, FS_CardinalityType
<1>16. Cardinality(F) <= Cardinality(G) + Cardinality(T)
  BY <1>11, <1>12, <1>13, <1>15
<1> QED BY <1>6, <1>7, <1>9, <1>16 DEF Load

\* The batch has its members from the plan, and the plan is within the limits.
LEMMA InvBudget == EInv /\ PInv => BatchWithinBudget
<1> SUFFICES ASSUME EInv, PInv, pc = "execute"
             PROVE  /\ Len(batch) <= Config.max_num_seqs
                    /\ MapThenSumSet(TokensToTake, BlocksOf(batch)) <= Config.max_num_batched_tokens
  BY DEF BatchWithinBudget
<1>0. /\ req \in [Reqs -> ReqRecs] /\ out \in Outs /\ sch \in Scheds /\ batch \in Seq(Reqs)
      /\ BlocksOf(batch) \subseteq Scheduled(out)
      /\ WithinLimits(out) /\ InPhase(out, req, sch) /\ Distinct(batch)
      /\ \A r \in BlocksOf(batch) : req[r].state = "active"
  BY DEF EInv, Sound, PInv
<1>1. PICK q \in Seq(Reqs), u \in Seq(Reqs), v \in Seq(Reqs), g \in [Reqs -> Int] :
        q = batch /\ u = out.prefill /\ v = out.decode /\ g = out.chunk
  BY <1>0 DEF Outs
<1>2. /\ Distinct(q) /\ Distinct(u) /\ Distinct(v) /\ BlocksOf(u) \intersect BlocksOf(v) = {}
      /\ Len(u) + Len(v) <= Config.max_num_seqs
      /\ IsFiniteSet(Slots(g, BlocksOf(u)))
      /\ Load(g, BlocksOf(u)) + Len(v) <= Config.max_num_batched_tokens
      /\ \A r \in Reqs : g[r] >= 0
  BY <1>0, <1>1 DEF WithinLimits
<1>3. PICK B \in SUBSET Reqs, P \in SUBSET Reqs, D \in SUBSET Reqs :
        B = BlocksOf(q) /\ P = BlocksOf(u) /\ D = BlocksOf(v)
  BY BlocksOfSeq
<1>4. B \subseteq P \union D /\ P \intersect D = {}
  BY <1>0, <1>1, <1>2, <1>3 DEF Scheduled
<1>5. /\ IsFiniteSet(B) /\ Cardinality(B) = Len(q)
      /\ IsFiniteSet(P) /\ Cardinality(P) = Len(u)
      /\ IsFiniteSet(D) /\ Cardinality(D) = Len(v)
  BY <1>2, <1>3, DistinctLen
<1>6. PICK x \in Int, y \in Int, z \in Int, most \in Int, tokens \in Int, load \in Int :
        /\ x = Len(q) /\ y = Len(u) /\ z = Len(v) /\ most = Config.max_num_seqs
        /\ tokens = Config.max_num_batched_tokens /\ load = Load(g, P)
  <2>1. Len(q) \in Int /\ Len(u) \in Int /\ Len(v) \in Int
    BY LenProperties
  <2>2. Config.max_num_seqs \in Int /\ Config.max_num_batched_tokens \in Int
    BY ConfigAssumption
  <2>3. Load(g, P) \in Int
    BY <1>2, <1>3, FS_CardinalityType DEF Load
  <2> QED BY <2>1, <2>2, <2>3
<1>7. x <= y + z
  <2>1. PICK U : U = P \union D
    OBVIOUS
  <2>2. IsFiniteSet(U) /\ Cardinality(U) = Cardinality(P) + Cardinality(D) - Cardinality(P \cap D)
    BY <1>5, <2>1, FS_Union
  <2>3. Cardinality(P \cap D) = 0
    BY <1>4, FS_EmptySet
  <2>4. Cardinality(B) <= Cardinality(U)
    BY <1>4, <2>1, <2>2, FS_Subset
  <2> QED BY <1>5, <1>6, <2>2, <2>3, <2>4
<1>8. PICK f \in [Reqs -> Int] : \A r \in Reqs : f[r] = TokensToTake(r)
  <2>1. \A r \in Reqs : TokensToTake(r) \in Int
    BY <1>0, TokensToTakeType
  <2>2. PICK h : h = [r \in Reqs |-> TokensToTake(r)]
    OBVIOUS
  <2>3. h \in [Reqs -> Int]
    BY <2>1, <2>2
  <2>4. \A r \in Reqs : h[r] = TokensToTake(r)
    BY <2>2
  <2> QED BY <2>3, <2>4
<1>9. ASSUME NEW r \in B
      PROVE  f[r] >= 0 /\ (r \in P => f[r] <= g[r]) /\ (r \in D => f[r] <= 1)
  <2>1. r \in Reqs /\ req[r].state = "active" /\ out.chunk[r] >= 0 /\ InStep(req[r], sch, r)
    BY <1>0, <1>1, <1>2, <1>3 DEF PInv, AllInStep
  <2>2. r \in P => req[r].prefill = TRUE
    BY <1>0, <1>1, <1>3, <2>1 DEF InPhase
  <2>3. r \in D => req[r].prefill = FALSE
    BY <1>0, <1>1, <1>3, <2>1 DEF InPhase
  <2>4. CASE r \in P
    <3>1. req[r].rem >= 0
      <4>1. Prefilling(req[r], sch, r)
        BY <2>1, <2>2, <2>4 DEF InStep
      <4>2. PICK k \in Int, rem \in Int : k = Ahead(sch, r) /\ rem = req[r].rem /\ k >= 0
        <5>1. sch.shared[r] \in Seq(Blocks) /\ req[r] \in ReqRecs
          BY <1>0, <2>1 DEF Scheds
        <5>2. Len(sch.shared[r]) \in Nat
          BY <5>1, LenProperties
        <5>3. Ahead(sch, r) \in Int /\ Ahead(sch, r) >= 0
          BY <5>2, BlockSizeAssumption DEF Ahead
        <5> QED BY <5>1, <5>3 DEF ReqRecs
      <4>3. k <= rem
        BY <4>1, <4>2 DEF Prefilling
      <4> QED BY <4>2, <4>3
    <3>2. TokensToTake(r) \in Int /\ 0 <= TokensToTake(r) /\ TokensToTake(r) <= out.chunk[r]
      BY <1>0, <2>1, <2>2, <2>4, <3>1, TokensToTakeValue
    <3>3. f[r] = TokensToTake(r) /\ g[r] = out.chunk[r] /\ r \notin D
      BY <1>1, <1>4, <1>8, <2>1, <2>4
    <3> QED BY <3>2, <3>3
  <2>5. CASE r \in D
    <3>1. f[r] = 1 /\ r \notin P
      BY <1>4, <1>8, <2>1, <2>3, <2>5 DEF TokensToTake
    <3> QED BY <3>1
  <2> QED BY <1>4, <2>4, <2>5
<1>10. MapThenSumSet(TokensToTake, B) = Load(f, B)
  BY <1>8, <1>9, TokensAreLoad
<1>11. Load(f, B) <= load + z
  <2>1. Load(f, B) <= Load(g, P) + Cardinality(D)
    BY <1>2, <1>3, <1>4, <1>5, <1>9, LoadBound
  <2> QED BY <1>5, <1>6, <2>1
<1>12. PICK taken \in Int : taken = Load(f, B)
  <2>1. IsFiniteSet(Slots(f, B))
    BY <1>8, <1>9, TokensAreLoad
  <2> QED BY <2>1, FS_CardinalityType DEF Load
<1>13. y + z <= most /\ load + z <= tokens
  BY <1>2, <1>3, <1>6
<1>14. x <= most /\ taken <= tokens
  BY ONLY x \in Int, y \in Int, z \in Int, most \in Int, tokens \in Int, load \in Int, taken \in Int,
          <1>7, <1>11, <1>12, <1>13
<1> QED BY <1>1, <1>3, <1>6, <1>10, <1>12, <1>14

(***************************************************************************)
(* Between two iterations the scheduler and the worker agree on every      *)
(* unfinished request: which queue it is in, how much of its prompt is     *)
(* left, how long its context is and how many tokens it has generated,     *)
(* although each keeps its own counters and the worker reports a step with *)
(* OnPrefillChunkComplete and OnDecodeStepComplete.                        *)
(***************************************************************************)
THEOREM SchedulerInAgreement == Spec => []SchedulerAgrees
  BY EngineInStep, InvAgrees, PTL

(***************************************************************************)
(* The worker's state stays in its ranges: no request processes more than  *)
(* its prompt and its limit of tokens (OnDecodeStepComplete and the        *)
(* worker's finish check), and only unfinished requests are batched or     *)
(* stalled.                                                                *)
(***************************************************************************)
THEOREM EngineTypeCorrect == Spec => []TypeOK
  BY EngineInStep, InvType, PTL

(***************************************************************************)
(* Whatever Schedule() restores, decodes, preempts and prefills in one     *)
(* call, the batch the worker builds from it has no more sequences than    *)
(* max_num_seqs and no more tokens than max_num_batched_tokens.            *)
(***************************************************************************)
THEOREM BatchesWithinBudget == Spec => []BatchWithinBudget
  BY EngineInStep, InvBudget, PTL
-----------------------------------------------------------------------------
(***************************************************************************)
(* What the running batch writes: blocks of the writer's table that nobody *)
(* else has a reference to.                                                *)
(***************************************************************************)
WInv ==
  pc = "execute" => \A r \in BlocksOf(batch) : \A b \in WriteRange(r) :
    b \in Blocks /\ b \in BlocksOf(req[r].table) /\ bm.ref[b] <= 1

\* The batch that was just built writes private blocks.
LEMMA BuildWrites ==
  ASSUME EInv, PInv, BuildBatch
  PROVE  WInv'
<1>0. /\ Sound(bm, req, sch) /\ req \in [Reqs -> ReqRecs] /\ out \in Outs
  BY DEF EInv, Sound
<1>1. PICK b : b = out.prefill \o out.decode
  OBVIOUS
<1>2. PICK y0 : y0 = [m |-> bm, k |-> kv, q |-> req, batch |-> <<>>, stalled |-> {},
                      kind |-> "none", ok |-> TRUE]
  OBVIOUS
<1>3. pc = "build"
  BY DEF BuildBatch
<1>4. PICK y \in Visit(BuildOne, y0, b) :
        bm' = y.m /\ req' = y.q /\ batch' = y.batch
  BY <1>1, <1>2, Zenon DEF BuildBatch
<1>5. Building(y, sch, req, BlocksOf(b)) /\ Protected(y, BlocksOf(b))
  BY <1>1, <1>2, <1>3, BuildStart
<1>6. out' = out
  BY DEF BuildBatch
<1> SUFFICES ASSUME NEW r \in BlocksOf(y.batch), NEW e \in WriteRange(r)'
             PROVE  e \in Blocks /\ e \in BlocksOf(y.q[r].table) /\ y.m.ref[e] <= 1
  BY <1>4 DEF WInv
<1>7. r \in Reqs /\ Owned(y, r) /\ StillAt(req[r], y.q[r]) /\ y.q \in [Reqs -> ReqRecs]
  BY <1>5 DEF Protected, Building, Sound
<1>8. PICK t \in Seq(Blocks) : t = y.q[r].table /\ DOMAIN t = 1 .. Len(t) /\ Len(t) \in Int
  BY <1>7, LenProperties DEF ReqRecs
<1>9. PICK a \in Int, k \in Int : a = req[r].n_past /\ k = TokensToTake(r)
  BY <1>0, <1>7, TokensToTakeType DEF ReqRecs
<1>10. req'[r].n_past = a /\ req'[r].table = t /\ TokensToTake(r)' = k
  <2>1. req'[r].n_past = a /\ req'[r].rem = req[r].rem /\ req'[r].prefill = req[r].prefill /\ req'[r].table = t
    BY <1>4, <1>7, <1>8, <1>9 DEF StillAt
  <2> QED BY <1>6, <1>9, <2>1 DEF TokensToTake
<1>11. PICK w \in a .. a + k - 1 : w \div BlockSize < Len(t) /\ e = t[w \div BlockSize + 1]
  BY <1>10 DEF WriteRange
<1>12. PICK j \in Int : j = w \div BlockSize
  BY BlockSizeAssumption
<1>13. PICK low \in Int, high \in Int : low = FirstBlock(r) /\ high = LastBlock(r)
  BY <1>0, <1>7, RangeOfType
<1>14. low <= j /\ j <= high
  <2>1. w \in Int /\ a <= w /\ w <= a + k - 1 /\ a + k - 1 \in Int
    BY <1>11
  <2>2. a \div BlockSize <= w \div BlockSize
    BY <2>1, DivMonotone
  <2>3. w \div BlockSize <= (a + k - 1) \div BlockSize
    <3>1. PICK v \in Int : v = a + k - 1
      BY <2>1
    <3>2. w \div BlockSize <= v \div BlockSize
      BY <2>1, <3>1, DivMonotone
    <3> QED BY <3>1, <3>2
  <2> QED BY <1>9, <1>12, <1>13, <2>2, <2>3 DEF FirstBlock, LastBlock
<1>15. /\ DOMAIN RangeOf(r) = 1 .. high - low + 1
       /\ \A i \in 1 .. high - low + 1 : RangeOf(r)[i] = low + i
  BY <1>13 DEF RangeOf
<1>16. j - low + 1 \in DOMAIN RangeOf(r) /\ RangeOf(r)[j - low + 1] = j + 1
  BY <1>14, <1>15
<1>17. j + 1 >= 1 /\ (j + 1 \in DOMAIN t => y.m.ref[t[j + 1]] <= 1)
  BY <1>7, <1>8, <1>16 DEF Owned, Private
<1>18. j + 1 \in DOMAIN t
  BY <1>8, <1>11, <1>12, <1>17
<1> QED BY <1>8, <1>11, <1>12, <1>17, <1>18 DEF BlocksOf

\* Nothing else happens between building a batch and running it but a cancellation.
LEMMA NextWrites ==
  ASSUME EInv, PInv, WInv, [Next]_vars
  PROVE  WInv'
<1>1. ASSUME NEW r \in Reqs, Cancel(r) PROVE WInv'
  <2>1. UNCHANGED <<pc, bm, out, batch>> /\ req' = [req EXCEPT ![r].cancelled = TRUE]
    BY <1>1 DEF Cancel
  <2>2. req \in [Reqs -> ReqRecs] /\ batch \in Seq(Reqs)
    BY DEF EInv, Sound
  <2>3. ASSUME NEW x \in Reqs
        PROVE  /\ req'[x].n_past = req[x].n_past /\ req'[x].rem = req[x].rem
               /\ req'[x].prefill = req[x].prefill /\ req'[x].table = req[x].table
    BY <2>1, <2>2 DEF ReqRecs
  <2>4. ASSUME NEW x \in Reqs PROVE WriteRange(x)' = WriteRange(x)
    <3>1. TokensToTake(x)' = TokensToTake(x)
      BY <2>1, <2>3 DEF TokensToTake
    <3> QED BY <2>3, <3>1 DEF WriteRange
  <2>5. BlocksOf(batch) \subseteq Reqs
    BY <2>2, BlocksOfSeq
  <2> QED BY <2>1, <2>3, <2>4, <2>5 DEF WInv
<1>2. CASE BuildBatch
  BY <1>2, BuildWrites
<1>3. CASE UNCHANGED vars
  <2>1. pc' = pc /\ bm' = bm /\ out' = out /\ batch' = batch /\ req' = req
    BY <1>3 DEF vars
  <2>2. ASSUME NEW x PROVE WriteRange(x)' = WriteRange(x)
    <3>1. TokensToTake(x)' = TokensToTake(x)
      BY <2>1 DEF TokensToTake
    <3> QED BY <2>1, <3>1 DEF WriteRange
  <2> QED BY <2>1, <2>2 DEF WInv
<1>4. ASSUME NEW r \in Reqs, Fetch(r) \/ FastPath(r) PROVE pc' # "execute"
  BY <1>4 DEF Fetch, FastPath
<1>5. CASE ProcessCancelled \/ ScheduleBatch
  <2>1. pc' # "execute"
    BY <1>5 DEF ProcessCancelled, ScheduleBatch
  <2> QED BY <2>1 DEF WInv
<1>6. CASE \/ FailUnschedulable \/ (\E R \in SUBSET Reqs : FailStalled(R)) \/ WaitAndRetry
           \/ RetryBuild \/ FailUnbuilt \/ ExecuteBatch \/ FailBatch
  <2>1. pc' # "execute"
    BY <1>6 DEF FailUnschedulable, FailStalled, WaitAndRetry, RetryBuild, FailUnbuilt,
                ExecuteBatch, FailBatch, NextIteration
  <2> QED BY <2>1 DEF WInv
<1> QED BY <1>1, <1>2, <1>3, <1>4, <1>5, <1>6 DEF Next, Worker, WInv

(***************************************************************************)
(* A block with one reference at most has one user at most.                *)
(***************************************************************************)
LEMMA InvWrites == EInv /\ WInv => WritesPrivate
<1> SUFFICES ASSUME EInv, WInv, pc = "execute", NEW r \in BlocksOf(batch), NEW b \in WriteRange(r)
             PROVE  Keepers(b) = {r} /\ Reservers(b) = {}
  BY DEF WritesPrivate
<1>1. Covers(bm.ref, Kept(req), Reserved(sch)) /\ bm.ref \in [Blocks -> Nat] /\ batch \in Seq(Reqs)
  BY DEF EInv, Sound, GoodBM, BMType
<1>2. r \in Reqs
  BY <1>1, BlocksOfSeq
<1>3. b \in Blocks /\ b \in BlocksOf(req[r].table) /\ bm.ref[b] <= 1
  BY DEF WInv
<1>4. bm.ref[b] >= Cardinality(Keepers(b)) + Cardinality(Reservers(b))
  <2>1. bm.ref[b] >= Count(Kept(req), b) + Count(Reserved(sch), b)
    BY <1>1, <1>3 DEF Covers
  <2> QED BY <2>1, CountsUsers
<1>5. /\ IsFiniteSet(Keepers(b)) /\ IsFiniteSet(Reservers(b))
      /\ Cardinality(Keepers(b)) \in Nat /\ Cardinality(Reservers(b)) \in Nat
  <2>1. IsFiniteSet(Keepers(b)) /\ IsFiniteSet(Reservers(b))
    BY ReqsAssumption, FS_Subset DEF Keepers, Reservers
  <2> QED BY <2>1, FS_CardinalityType
<1>6. r \in Keepers(b)
  BY <1>2, <1>3 DEF Keepers
<1>7. Cardinality(Keepers(b)) # 0
  BY <1>5, <1>6, FS_EmptySet
<1>8. Cardinality(Keepers(b)) = 1 /\ Cardinality(Reservers(b)) = 0
  BY <1>1, <1>3, <1>4, <1>5, <1>7
<1>9. Reservers(b) = {}
  BY <1>5, <1>8, FS_EmptySet
<1>10. Cardinality(Keepers(b) \ {r}) = 0 /\ IsFiniteSet(Keepers(b) \ {r})
  BY <1>5, <1>6, <1>8, FS_RemoveElement
<1>11. Keepers(b) \ {r} = {}
  BY <1>10, FS_EmptySet
<1> QED BY <1>6, <1>9, <1>11

(***************************************************************************)
(* Whatever is shared, preempted, swapped, copied or reused: when a batch  *)
(* runs, ensure_request_blocks_writable has made every block it writes     *)
(* private to the request that writes it.                                  *)
(***************************************************************************)
THEOREM WritesArePrivate == Spec => []WritesPrivate
<1>1. Init => WInv
  BY DEF Init, WInv
<1>2. EInv /\ PInv /\ WInv /\ [Next]_vars => WInv'
  BY NextWrites
<1>3. EInv /\ WInv => WritesPrivate
  BY InvWrites
<1> QED BY <1>1, <1>2, <1>3, EngineInStep, PTL DEF Spec
=============================================================================
