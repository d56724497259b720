--------------------------- MODULE KeyInputProofs ---------------------------
(***************************************************************************)
(* Proofs about KeyInput, for every fifo size the option allows, every     *)
(* MP_MAX_KEY_DOWN and all sets of keys and bindings.                      *)
(***************************************************************************)
EXTENDS KeyInput, SequenceTheorems, TLAPS

DoubleKeys == {Double[b] : b \in DOMAIN Double}

\* What the fifo and previous_down_key keep to, whatever is put.
FifoType(q) ==
  /\ q \in [fifo : Seq(Code), previous : Code]
  /\ Len(q.fifo) <= key_fifo_size

FifoInv(q) ==
  /\ \A n \in 1 .. Len(q.fifo) : q.fifo[n].all => ~q.fifo[n].down
  /\ q.fifo # <<>> => (q.previous.all <=> q.fifo[Len(q.fifo)].all)
  /\ \A n \in 1 .. Len(q.fifo) - 1 : ~(q.fifo[n].all /\ q.fifo[n + 1].all)
  /\ Len(q.fifo) = key_fifo_size => q.fifo[Len(q.fifo)].all

\* NoStuckKeys, and the same of any fifo, key_down and held keys.
Unstuck(f, keys, h) ==
  /\ \A n \in 1 .. Len(keys) :
       keys[n] \in h \/ \E i \in 1 .. Len(f) : Frees(f[i], keys[n])
  /\ \A n \in 1 .. Len(f) :
       f[n].down => \/ f[n].key \in h
                    \/ \E i \in n + 1 .. Len(f) : Frees(f[i], f[n].key)

\* Pushes of double clicks are ignored when the player makes its own.
NoDoubles(f, keys) ==
  OwnDoubles => /\ \A n \in 1 .. Len(f) : f[n].down => f[n].key \notin DoubleKeys
                /\ \A n \in 1 .. Len(keys) : keys[n] \notin DoubleKeys

Distinct(keys) == \A m, n \in 1 .. Len(keys) : keys[m] = keys[n] => m = n

Queue == [fifo |-> fifo, previous |-> previous]

KeyInv ==
  /\ FifoInv(Queue)
  /\ Distinct(key_down)
  /\ NoDoubles(fifo, key_down)
  /\ Unstuck(fifo, key_down, held)

Size == key_fifo_size \in Nat /\ key_fifo_size >= 2

LEMMA SizeType == ASSUME key_fifo_size \in FifoSizes PROVE Size
  BY KeyAssumption DEF KeyAssumption, Size

----------------------------------------------------------------------------
\* What one put does to the fifo.  A push is stored as it is or dropped, and a
\* code that is not dropped comes last.
LEMMA PutStores ==
  ASSUME Size, NEW q, FifoType(q), NEW code \in Code, ~code.all
  PROVE  LET r == put_key_internal(q, code) IN
         \/ Dropped(q, code) /\ r = q
         \/ \E c \in Code :
              /\ ~Dropped(q, code)
              /\ r = [fifo |-> Append(q.fifo, c),
                      previous |-> [key |-> IF c.down THEN c.key ELSE NoKey,
                                    down |-> FALSE, all |-> c.all]]
              /\ Len(q.fifo) < key_fifo_size
              /\ c.all => ~c.down
              /\ c = code \/ c.all
              /\ c.all => ~q.previous.all
              /\ Len(q.fifo) + 1 = key_fifo_size => c.all
<1>1. CASE Dropped(q, code)
  BY <1>1 DEF put_key_internal
<1>2. CASE ~Dropped(q, code)
  <2> DEFINE c == Stored(q, code)
  <2>1. Len(q.fifo) \in Nat
    BY DEF FifoType
  <2>2. Len(q.fifo) < key_fifo_size
    BY <1>2, <2>1 DEF Dropped, Free, FifoType, Size
  <2>3. c \in Code /\ (c.all => ~c.down) /\ (c = code \/ c.all)
    BY DEF Stored, Code
  <2>4. Len(q.fifo) + 1 = key_fifo_size => c.all
    BY <2>1 DEF Stored, Free, Size
  <2>6. c.all => ~q.previous.all
    BY <1>2 DEF Stored, Dropped
  <2>5. put_key_internal(q, code) =
          [fifo |-> Append(q.fifo, c),
           previous |-> [key |-> IF c.down THEN c.key ELSE NoKey,
                         down |-> FALSE, all |-> c.all]]
    BY <1>2, <2>3 DEF put_key_internal, UpCode, Code
  <2> QED BY <1>2, <2>2, <2>3, <2>4, <2>5, <2>6
<1> QED BY <1>1, <1>2

LEMMA PutKeepsFifo ==
  ASSUME Size, NEW q, FifoType(q), FifoInv(q), NEW code \in Code, ~code.all
  PROVE  FifoType(put_key_internal(q, code)) /\ FifoInv(put_key_internal(q, code))
<1> DEFINE r == put_key_internal(q, code)
<1>1. CASE r = q
  BY <1>1
<1>2. CASE r # q
  <2>1. PICK c \in Code :
          /\ r = [fifo |-> Append(q.fifo, c),
                  previous |-> [key |-> IF c.down THEN c.key ELSE NoKey,
                                down |-> FALSE, all |-> c.all]]
          /\ Len(q.fifo) < key_fifo_size
          /\ c.all => ~c.down
          /\ c.all => ~q.previous.all
          /\ Len(q.fifo) + 1 = key_fifo_size => c.all
    BY <1>2, PutStores
  <2>2. q.fifo \in Seq(Code) /\ Len(q.fifo) \in Nat
    BY DEF FifoType
  <2>3. r.previous \in Code /\ r.previous.all = c.all
    BY <2>1 DEF Code
  <2>4. r.fifo = Append(q.fifo, c)
    BY <2>1
  <2>5. /\ r.fifo \in Seq(Code) /\ Len(r.fifo) = Len(q.fifo) + 1
        /\ r.fifo[Len(r.fifo)] = c
        /\ \A n \in 1 .. Len(q.fifo) : r.fifo[n] = q.fifo[n]
    BY <2>2, <2>4, AppendProperties
  <2>6. FifoType(r)
    BY <2>1, <2>2, <2>3, <2>5 DEF FifoType, Size
  <2>7. r.fifo # <<>> => (r.previous.all <=> r.fifo[Len(r.fifo)].all)
    BY <2>3, <2>5
  <2>8. ASSUME NEW n \in 1 .. Len(r.fifo) - 1
        PROVE  ~(r.fifo[n].all /\ r.fifo[n + 1].all)
    <3>1. CASE n = Len(q.fifo)
      <4>1. q.fifo # <<>> /\ n \in 1 .. Len(q.fifo) /\ n + 1 = Len(r.fifo)
        BY <2>2, <2>5, <3>1
      <4> QED BY <2>1, <2>5, <3>1, <4>1 DEF FifoInv
    <3>2. CASE n # Len(q.fifo)
      <4>1. n \in 1 .. Len(q.fifo) - 1 /\ n \in 1 .. Len(q.fifo) /\ n + 1 \in 1 .. Len(q.fifo)
        BY <2>2, <2>5, <3>2
      <4> QED BY <2>5, <4>1 DEF FifoInv
    <3> QED BY <3>1, <3>2
  <2>9. FifoInv(r)
    BY <2>1, <2>2, <2>5, <2>7, <2>8 DEF FifoInv, Size
  <2> QED BY <2>6, <2>9
<1> QED BY <1>1, <1>2

\* A push that the user holds, or a release, sticks no key ...
LEMMA PutSticksNone ==
  ASSUME Size, NEW q, FifoType(q), NEW code \in Code, ~code.all,
         NEW keys \in Seq(Keys), NEW h, Unstuck(q.fifo, keys, h),
         code.down => code.key \in h
  PROVE  Unstuck(put_key_internal(q, code).fifo, keys, h)
<1> DEFINE r == put_key_internal(q, code)
<1>1. CASE r = q
  BY <1>1
<1>2. CASE r # q
  <2>1. PICK c \in Code : /\ r.fifo = Append(q.fifo, c)
                          /\ c.all => ~c.down
                          /\ c = code \/ c.all
    BY <1>2, PutStores
  <2>2. q.fifo \in Seq(Code) /\ Len(q.fifo) \in Nat
    BY DEF FifoType
  <2>3. /\ Len(r.fifo) = Len(q.fifo) + 1
        /\ r.fifo[Len(r.fifo)] = c
        /\ \A n \in 1 .. Len(q.fifo) : r.fifo[n] = q.fifo[n]
    BY <2>1, <2>2, AppendProperties
  <2>4. ASSUME NEW n \in 1 .. Len(keys)
        PROVE  keys[n] \in h \/ \E i \in 1 .. Len(r.fifo) : Frees(r.fifo[i], keys[n])
    BY <2>2, <2>3 DEF Unstuck
  <2>5. ASSUME NEW n \in 1 .. Len(r.fifo), r.fifo[n].down
        PROVE  \/ r.fifo[n].key \in h
               \/ \E i \in n + 1 .. Len(r.fifo) : Frees(r.fifo[i], r.fifo[n].key)
    <3>1. CASE n = Len(r.fifo)
      BY <2>1, <2>3, <2>5, <3>1
    <3>2. CASE n \in 1 .. Len(q.fifo)
      <4>1. CASE q.fifo[n].key \in h
        BY <2>3, <3>2, <4>1
      <4>2. CASE q.fifo[n].key \notin h
        <5>1. PICK i \in n + 1 .. Len(q.fifo) : Frees(q.fifo[i], q.fifo[n].key)
          BY <2>3, <2>5, <3>2, <4>2 DEF Unstuck
        <5>2. i \in 1 .. Len(q.fifo) /\ i \in n + 1 .. Len(r.fifo)
          BY <2>2, <2>3, <3>2
        <5>3. Frees(r.fifo[i], r.fifo[n].key)
          BY <2>3, <3>2, <5>1, <5>2
        <5> QED BY <5>2, <5>3
      <4> QED BY <4>1, <4>2
    <3> QED BY <2>2, <2>3, <3>1, <3>2
  <2> QED BY <2>4, <2>5 DEF Unstuck
<1> QED BY <1>1, <1>2

\* ... and after a release its key need not be held any more: the release is in
\* the fifo, or the fifo ends in a reset.
LEMMA ReleaseFrees ==
  ASSUME Size, NEW q, FifoType(q), FifoInv(q), NEW k \in Keys,
         NEW keys \in Seq(Keys), NEW h, Unstuck(q.fifo, keys, h)
  PROVE  Unstuck(put_key_internal(q, UpCode(k)).fifo, keys, h \ {k})
<1> DEFINE code == UpCode(k)
           r == put_key_internal(q, code)
           last == r.fifo[Len(r.fifo)]
<1>0. code \in Code /\ ~code.all /\ ~code.down /\ code.key = k
  BY DEF UpCode, Code
<1>1. q.fifo \in Seq(Code) /\ Len(q.fifo) \in Nat
  BY DEF FifoType
<1>2. Unstuck(r.fifo, keys, h)
  <2> HIDE DEF code
  <2> QED BY <1>0, PutSticksNone
<1>3. FifoType(r) /\ FifoInv(r)
  <2> HIDE DEF code
  <2> QED BY <1>0, PutKeepsFifo
<1>4. r.fifo \in Seq(Code) /\ Len(r.fifo) \in Nat
  BY <1>3 DEF FifoType
<1>5. r.fifo # <<>> /\ Frees(last, k) /\ ~last.down
  <2>1. CASE Dropped(q, code) /\ r = q
    <3>1. Len(q.fifo) = key_fifo_size \/ (Len(q.fifo) + 1 = key_fifo_size /\ q.previous.all)
      BY <1>0, <1>1, <2>1 DEF Dropped, Free, Size
    <3>2. q.fifo # <<>> /\ Len(q.fifo) >= 1
      BY <1>1, <3>1 DEF Size
    <3>3. q.fifo[Len(q.fifo)].all
      BY <3>1, <3>2 DEF FifoInv
    <3>4. ~q.fifo[Len(q.fifo)].down
      BY <1>1, <3>2, <3>3 DEF FifoInv
    <3> QED BY <2>1, <3>2, <3>3, <3>4 DEF Frees
  <2>2. CASE \E c \in Code : r.fifo = Append(q.fifo, c) /\ (c.all => ~c.down)
                             /\ (c = code \/ c.all)
    <3>1. PICK c \in Code : /\ r.fifo = Append(q.fifo, c) /\ (c.all => ~c.down)
                            /\ (c = code \/ c.all)
      BY <2>2
    <3>2. r.fifo # <<>> /\ last = c
      BY <1>1, <3>1, AppendProperties
    <3>3. Frees(c, k) /\ ~c.down
      BY <1>0, <3>1 DEF Frees
    <3> QED BY <3>2, <3>3
  <2>3. \/ Dropped(q, code) /\ r = q
        \/ \E c \in Code : r.fifo = Append(q.fifo, c) /\ (c.all => ~c.down)
                           /\ (c = code \/ c.all)
    <3> HIDE DEF code
    <3> QED BY <1>0, PutStores
  <2> QED BY <2>1, <2>2, <2>3
<1>6. Len(r.fifo) \in 1 .. Len(r.fifo)
  BY <1>4, <1>5
<1>7. ASSUME NEW n \in 1 .. Len(keys)
      PROVE  keys[n] \in h \ {k} \/ \E i \in 1 .. Len(r.fifo) : Frees(r.fifo[i], keys[n])
  <2>1. CASE keys[n] = k
    BY <1>5, <1>6, <2>1
  <2>2. CASE keys[n] # k
    BY <1>2, <2>2 DEF Unstuck
  <2> QED BY <2>1, <2>2
<1>8. ASSUME NEW n \in 1 .. Len(r.fifo), r.fifo[n].down
      PROVE  \/ r.fifo[n].key \in h \ {k}
             \/ \E i \in n + 1 .. Len(r.fifo) : Frees(r.fifo[i], r.fifo[n].key)
  <2>1. CASE r.fifo[n].key = k
    <3>1. n # Len(r.fifo)
      BY <1>5, <1>8
    <3>2. Len(r.fifo) \in n + 1 .. Len(r.fifo)
      BY <1>4, <3>1
    <3> QED BY <1>5, <2>1, <3>2
  <2>2. CASE r.fifo[n].key # k
    BY <1>2, <1>8, <2>2 DEF Unstuck
  <2> QED BY <2>1, <2>2
<1> QED BY <1>7, <1>8 DEF Unstuck

----------------------------------------------------------------------------
\* What a driver's event does to the fifo: put_key stores the code, and after
\* it, perhaps, the release of a double click.
LEMMA PutAddsNoDouble ==
  ASSUME Size, NEW q, FifoType(q), NEW code \in Code, ~code.all, NEW keys,
         NoDoubles(q.fifo, keys),
         OwnDoubles /\ code.down => code.key \notin DoubleKeys
  PROVE  NoDoubles(put_key_internal(q, code).fifo, keys)
<1> DEFINE r == put_key_internal(q, code)
<1>1. CASE r = q
  BY <1>1
<1>2. CASE r # q
  <2>1. PICK c \in Code : /\ r.fifo = Append(q.fifo, c)
                          /\ c.all => ~c.down
                          /\ c = code \/ c.all
    BY <1>2, PutStores
  <2>2. q.fifo \in Seq(Code) /\ Len(q.fifo) \in Nat
    BY DEF FifoType
  <2>3. /\ Len(r.fifo) = Len(q.fifo) + 1
        /\ r.fifo[Len(r.fifo)] = c
        /\ \A n \in 1 .. Len(q.fifo) : r.fifo[n] = q.fifo[n]
    BY <2>1, <2>2, AppendProperties
  <2>4. ASSUME OwnDoubles, NEW n \in 1 .. Len(r.fifo), r.fifo[n].down
        PROVE  r.fifo[n].key \notin DoubleKeys
    <3>1. CASE n = Len(r.fifo)
      BY <2>1, <2>3, <2>4, <3>1
    <3>2. CASE n \in 1 .. Len(q.fifo)
      BY <2>3, <2>4, <3>2 DEF NoDoubles
    <3> QED BY <2>2, <2>3, <3>1, <3>2
  <2> QED BY <2>4 DEF NoDoubles
<1> QED BY <1>1, <1>2

\* The fifo's part of the invariant, for the keys h.
FifoGood(q, h) ==
  /\ FifoType(q)
  /\ FifoInv(q)
  /\ NoDoubles(q.fifo, key_down)
  /\ Unstuck(q.fifo, key_down, h)

LEMMA PutKeyKeeps ==
  ASSUME TypeOK, Size, FifoType(Queue), FifoInv(Queue), NoDoubles(fifo, key_down),
         NEW code \in Code, ~code.all, code.key \in Keys, put_key(code), NEW h,
         Unstuck(put_key_internal(Queue, code).fifo, key_down, h),
         OwnDoubles /\ code.key \in DoubleKeys => Unstuck(fifo, key_down, h)
  PROVE  /\ \E r : FifoGood(r, h) /\ fifo' = r.fifo /\ previous' = r.previous
         /\ last_key' \in (Keys \union {NoKey}) \X (Keys \union {NoKey})
<1>0. key_down \in Seq(Keys)
  BY DEF TypeOK
<1>1. CASE OwnDoubles /\ code.key \in DoubleKeys
  <2>1. UNCHANGED fifoVars
    BY <1>1 DEF put_key, DoubleKeys
  <2>2. FifoGood(Queue, h) /\ fifo' = Queue.fifo /\ previous' = Queue.previous
    BY <1>1, <2>1 DEF FifoGood, Queue, fifoVars
  <2>3. last_key' \in (Keys \union {NoKey}) \X (Keys \union {NoKey})
    BY <2>1 DEF TypeOK, fifoVars
  <2> QED BY <2>2, <2>3
<1>2. CASE ~(OwnDoubles /\ code.key \in DoubleKeys)
  <2> DEFINE q == put_key_internal(Queue, code)
             l == IF code.down THEN <<code.key, last_key[1]>> ELSE last_key
  <2>1. PICK fast \in BOOLEAN :
          LET r == IF /\ fast /\ OwnDoubles /\ l = <<code.key, code.key>>
                      /\ code.key \in DOMAIN Double
                   THEN put_key_internal(q, UpCode(Double[code.key])) ELSE q
          IN fifo' = r.fifo /\ previous' = r.previous /\ last_key' = l
    BY <1>2 DEF put_key, DoubleKeys, Queue
  <2>2. l \in (Keys \union {NoKey}) \X (Keys \union {NoKey})
    BY DEF TypeOK
  <2>3. Queue.fifo = fifo
    BY DEF Queue
  <2>4. FifoGood(q, h)
    <3>1. FifoType(q) /\ FifoInv(q)
      BY PutKeepsFifo
    <3>2. NoDoubles(q.fifo, key_down)
      BY <1>2, <2>3, PutAddsNoDouble
    <3> QED BY <3>1, <3>2 DEF FifoGood
  <2> HIDE DEF q, l
  <2>5. ASSUME code.key \in DOMAIN Double
        PROVE  FifoGood(put_key_internal(q, UpCode(Double[code.key])), h)
    <3> DEFINE up == UpCode(Double[code.key])
    <3>1. Double[code.key] \in Keys
      BY <2>5 DEF Keys
    <3>2. up \in Code /\ ~up.all /\ ~up.down
      BY <3>1 DEF UpCode, Code
    <3> HIDE DEF up
    <3>3. FifoType(put_key_internal(q, up)) /\ FifoInv(put_key_internal(q, up))
      BY <2>4, <3>2, PutKeepsFifo DEF FifoGood
    <3>4. NoDoubles(put_key_internal(q, up).fifo, key_down)
      BY <2>4, <3>2, PutAddsNoDouble DEF FifoGood
    <3>5. Unstuck(put_key_internal(q, up).fifo, key_down, h)
      BY <1>0, <2>4, <3>2, PutSticksNone DEF FifoGood
    <3>6. FifoGood(put_key_internal(q, up), h)
      BY <3>3, <3>4, <3>5 DEF FifoGood
    <3> QED BY <3>6 DEF up
  <2> QED BY <2>1, <2>2, <2>4, <2>5
<1> QED BY <1>1, <1>2

----------------------------------------------------------------------------
\* What one event does to the keys that are down.

Down == [key_down : Seq(Keys), last_down : BOOLEAN, ar_state : {-1, 0, 1},
         ar_cmd : Bound \union {NoCmd}, cmd : Bound \union {NoCmd}]

LEMMA WithoutOne ==
  ASSUME NEW keys \in Seq(Keys), NEW j \in 1 .. Len(keys), Distinct(keys)
  PROVE  /\ Without(keys, j) \in Seq(Keys)
         /\ Distinct(Without(keys, j))
         /\ \A n \in 1 .. Len(Without(keys, j)) : \E m \in 1 .. Len(keys) :
              m # j /\ Without(keys, j)[n] = keys[m]
<1> DEFINE w == Without(keys, j)
           at(n) == IF n < j THEN n ELSE n + 1
<1>1. Len(keys) \in Nat /\ Len(keys) - 1 \in Nat
  OBVIOUS
<1>2. \A n \in 1 .. Len(keys) - 1 : at(n) \in 1 .. Len(keys) /\ at(n) # j
  BY <1>1
<1>3. w = [n \in 1 .. Len(keys) - 1 |-> keys[at(n)]]
  BY DEF Without
<1>4. w \in Seq(Keys) /\ Len(w) = Len(keys) - 1
  <2>1. w \in [1 .. Len(keys) - 1 -> Keys]
    BY <1>2, <1>3
  <2> QED BY <1>1, <2>1
<1>5. \A n \in 1 .. Len(w) : w[n] = keys[at(n)]
  BY <1>3, <1>4
<1>6. Distinct(w)
  <2> SUFFICES ASSUME NEW m \in 1 .. Len(w), NEW n \in 1 .. Len(w), w[m] = w[n]
               PROVE  m = n
    BY DEF Distinct
  <2>1. at(m) = at(n)
    BY <1>2, <1>4, <1>5 DEF Distinct
  <2> QED BY <1>1, <1>4, <2>1
<1> QED BY <1>2, <1>4, <1>5, <1>6

LEMMA CommandType == \A keys : get_cmd_from_keys(keys) \in Bound \union {NoCmd}
  BY DEF get_cmd_from_keys

\* After code, a key is down that was and that code does not free, or the key
\* that code pushes.
Follows(keys, code, d) ==
  \A n \in 1 .. Len(keys) :
    \/ code.down /\ keys[n] = code.key
    \/ \E m \in 1 .. Len(d.key_down) : keys[n] = d.key_down[m] /\ ~Frees(code, keys[n])

LEMMA PushedKeeps ==
  ASSUME NEW d \in Down, Distinct(d.key_down), NEW code \in Code,
         code.down, ~code.all, code.key \in Keys
  PROVE  LET e == KeyPushed(d, code.key)
         IN e \in Down /\ Distinct(e.key_down) /\ Follows(e.key_down, code, d)
<1> DEFINE k == code.key
           e == KeyPushed(d, k)
<1>1. d.key_down \in Seq(Keys) /\ Len(d.key_down) \in Nat
  BY DEF Down
<1>2. CASE TooManyPushed(d) \/ k \in Pushed(d)
  <2>1. e = d
    BY <1>2 DEF KeyPushed
  <2>2. Follows(d.key_down, code, d)
    BY DEF Follows, Frees
  <2> QED BY <2>1, <2>2
<1>3. CASE ~(TooManyPushed(d) \/ k \in Pushed(d))
  <2>1. e = [d EXCEPT !.key_down = Append(@, k), !.last_down = TRUE, !.ar_state = 0]
    BY <1>3 DEF KeyPushed
  <2>2. e.key_down = Append(d.key_down, k)
    BY <2>1 DEF Down
  <2>3. /\ e.key_down \in Seq(Keys) /\ Len(e.key_down) = Len(d.key_down) + 1
        /\ e.key_down[Len(e.key_down)] = k
        /\ \A n \in 1 .. Len(d.key_down) : e.key_down[n] = d.key_down[n]
    BY <1>1, <2>2, AppendProperties
  <2>4. e \in Down
    BY <2>1, <2>2, <2>3 DEF Down
  <2>5. \A n \in 1 .. Len(d.key_down) : d.key_down[n] # k
    BY <1>3 DEF Pushed
  <2>6. Distinct(e.key_down)
    <3> HIDE DEF e
    <3> QED BY <1>1, <2>3, <2>5 DEF Distinct
  <2>7. Follows(e.key_down, code, d)
    <3> HIDE DEF e
    <3> QED BY <1>1, <2>3 DEF Follows, Frees
  <2> QED BY <2>4, <2>6, <2>7
<1> QED BY <1>2, <1>3

LEMMA ReleasedKeeps ==
  ASSUME NEW d \in Down, Distinct(d.key_down), NEW code \in Code,
         ~code.down, code.all => d.key_down = <<>>, code.key \in Keys
  PROVE  LET e == KeyReleased(d, code.key)
         IN e \in Down /\ Distinct(e.key_down) /\ Follows(e.key_down, code, d)
<1> DEFINE k == code.key
           e == KeyReleased(d, k)
<1>1. d.key_down \in Seq(Keys) /\ Len(d.key_down) \in Nat
  BY DEF Down
<1>2. CASE k \notin Pushed(d) /\ Len(d.key_down) >= MaxKeyDown
  <2>1. e = d
    BY <1>2 DEF KeyReleased
  <2>2. \A n \in 1 .. Len(d.key_down) : d.key_down[n] # k
    BY <1>2 DEF Pushed
  <2>3. Follows(d.key_down, code, d)
    BY <1>1, <2>2 DEF Follows, Frees
  <2> QED BY <2>1, <2>3
<1>3. CASE ~(k \notin Pushed(d) /\ Len(d.key_down) >= MaxKeyDown)
  <2> DEFINE keys == IF k \in Pushed(d) THEN d.key_down ELSE Append(d.key_down, k)
             j == CHOOSE n \in 1 .. Len(keys) : keys[n] = k
  <2>1. /\ keys \in Seq(Keys) /\ Len(keys) \in Nat /\ Distinct(keys)
        /\ \E n \in 1 .. Len(keys) : keys[n] = k
        /\ \A n \in 1 .. Len(keys) : keys[n] # k =>
             \E m \in 1 .. Len(d.key_down) : keys[n] = d.key_down[m]
    <3>1. CASE k \in Pushed(d)
      BY <1>1, <3>1 DEF Pushed
    <3>2. CASE k \notin Pushed(d)
      <4>1. /\ keys \in Seq(Keys) /\ Len(keys) = Len(d.key_down) + 1
            /\ keys[Len(keys)] = k
            /\ \A n \in 1 .. Len(d.key_down) : keys[n] = d.key_down[n]
        BY <1>1, <3>2, AppendProperties
      <4>2. \A n \in 1 .. Len(d.key_down) : d.key_down[n] # k
        BY <3>2 DEF Pushed
      <4> HIDE DEF keys
      <4>3. Len(keys) \in 1 .. Len(keys)
        BY <1>1, <4>1
      <4>4. Distinct(keys)
        BY <1>1, <4>1, <4>2 DEF Distinct
      <4>5. ASSUME NEW n \in 1 .. Len(keys), keys[n] # k
            PROVE  \E m \in 1 .. Len(d.key_down) : keys[n] = d.key_down[m]
        BY <1>1, <4>1, <4>5
      <4> QED BY <4>1, <4>3, <4>4, <4>5
    <3> QED BY <3>1, <3>2
  <2>2. e = [key_down  |-> Without(keys, j),
             last_down |-> FALSE, ar_state |-> -1, ar_cmd |-> NoCmd,
             cmd |-> IF k \in Pushed(d) /\ ~d.last_down THEN NoCmd
                     ELSE get_cmd_from_keys(keys)]
    BY <1>3 DEF KeyReleased
  <2> HIDE DEF keys
  <2>3. j \in 1 .. Len(keys) /\ keys[j] = k
    BY <2>1
  <2> HIDE DEF j
  <2>4. /\ Without(keys, j) \in Seq(Keys)
        /\ Distinct(Without(keys, j))
        /\ \A n \in 1 .. Len(Without(keys, j)) : \E m \in 1 .. Len(keys) :
             m # j /\ Without(keys, j)[n] = keys[m]
    BY <2>1, <2>3, WithoutOne
  <2>5. e \in Down
    BY <2>2, <2>4, CommandType DEF Down
  <2>6. e.key_down = Without(keys, j)
    BY <2>2
  <2>7. ASSUME NEW n \in 1 .. Len(e.key_down)
        PROVE  \E m \in 1 .. Len(d.key_down) :
                 e.key_down[n] = d.key_down[m] /\ ~Frees(code, e.key_down[n])
    <3> HIDE DEF e
    <3>1. PICK m \in 1 .. Len(keys) : m # j /\ e.key_down[n] = keys[m]
      BY <2>4, <2>6
    <3>2. keys[m] # k
      BY <2>1, <2>3, <3>1 DEF Distinct
    <3>3. PICK i \in 1 .. Len(d.key_down) : e.key_down[n] = d.key_down[i]
      BY <2>1, <3>1, <3>2
    <3>4. ~code.all
      BY <3>3
    <3> QED BY <3>1, <3>2, <3>3, <3>4 DEF Frees
  <2>8. Follows(e.key_down, code, d)
    BY <2>7 DEF Follows
  <2> QED BY <2>4, <2>5, <2>6, <2>8
<1> QED BY <1>2, <1>3

LEMMA InterpretKeeps ==
  ASSUME NEW d \in Down, Distinct(d.key_down), NEW code \in Code,
         code.all => ~code.down
  PROVE  LET e == interpret_key(d, code)
         IN e \in Down /\ Distinct(e.key_down) /\ Follows(e.key_down, code, d)
<1> DEFINE r == IF code.all THEN ReleaseAll(d) ELSE d
           e == interpret_key(d, code)
<1>1. r \in Down /\ Distinct(r.key_down) /\ (code.all => r.key_down = <<>>)
  <2>1. CASE code.all
    <3>1. r = [d EXCEPT !.key_down = <<>>, !.last_down = FALSE]
      BY <2>1 DEF ReleaseAll
    <3>2. <<>> \in Seq(Keys)
      OBVIOUS
    <3>3. r.key_down = <<>> /\ r \in Down
      <4> HIDE DEF r
      <4> QED BY <3>1, <3>2 DEF Down
    <3> QED BY <2>1, <3>3 DEF Distinct
  <2>2. CASE ~code.all
    BY <2>2
  <2> QED BY <2>1, <2>2
<1>2. \A keys : Follows(keys, code, r) => Follows(keys, code, d)
  <2>1. CASE code.all
    BY <1>1, <2>1 DEF Follows
  <2>2. CASE ~code.all
    BY <2>2
  <2> QED BY <2>1, <2>2
<1>3. CASE code.key = NoKey /\ ~code.all
  <2>1. e = d
    BY <1>3 DEF interpret_key
  <2>2. NoKey \notin Keys
    BY KeyAssumption DEF KeyAssumption
  <2>3. \A n \in 1 .. Len(d.key_down) : d.key_down[n] # NoKey
    BY <2>2 DEF Down
  <2>4. Follows(d.key_down, code, d)
    BY <1>3, <2>3 DEF Follows, Frees
  <2> QED BY <2>1, <2>4
<1>4. CASE code.key = NoKey /\ code.all
  <2>1. e = r
    BY <1>4 DEF interpret_key
  <2>2. Follows(r.key_down, code, d)
    BY <1>1, <1>4 DEF Follows
  <2> QED BY <1>1, <2>1, <2>2
<1>5. CASE code.key # NoKey
  <2>1. code.key \in Keys
    BY <1>5 DEF Code
  <2>2. CASE code.down
    <3>1. e = KeyPushed(r, code.key) /\ ~code.all
      BY <1>5, <2>2 DEF interpret_key
    <3> HIDE DEF r, e
    <3> QED BY <1>1, <1>2, <2>1, <2>2, <3>1, PushedKeeps DEF e
  <2>3. CASE ~code.down
    <3>1. e = KeyReleased(r, code.key)
      BY <1>5, <2>3 DEF interpret_key
    <3> HIDE DEF r, e
    <3> QED BY <1>1, <1>2, <2>1, <2>3, <3>1, ReleasedKeeps DEF e
  <2> QED BY <2>2, <2>3
<1> QED BY <1>3, <1>4, <1>5

LEMMA RepeatKeeps ==
  ASSUME NEW d \in Down, NEW elapsed \in BOOLEAN
  PROVE  LET e == check_autorepeat(d, elapsed)
         IN e \in Down /\ e.key_down = d.key_down
<1> DEFINE c == IF d.ar_state = 0 THEN get_cmd_from_keys(d.key_down) ELSE d.ar_cmd
<1>1. c \in Bound \union {NoCmd}
  BY CommandType DEF Down
<1> HIDE DEF c
<1>2. LET e == [d EXCEPT !.ar_state = IF c = NoCmd THEN -1 ELSE 1, !.ar_cmd = c, !.cmd = c]
      IN e \in Down /\ e.key_down = d.key_down
  BY <1>1 DEF Down
<1> QED BY <1>2 DEF check_autorepeat, c

\* read_events takes the head of the fifo: what that code freed is not down any
\* more, and what it pushed was held or freed behind it.
LEMMA PopSticksNone ==
  ASSUME NEW f \in Seq(Code), f # <<>>, NEW d \in Down, NEW h,
         Unstuck(f, d.key_down, h), NEW keys \in Seq(Keys),
         Follows(keys, Head(f), d)
  PROVE  Unstuck(Tail(f), keys, h)
<1> DEFINE t == Tail(f)
<1>1. /\ t \in Seq(Code) /\ Len(f) \in Nat /\ Len(t) = Len(f) - 1 /\ Len(f) >= 1
      /\ \A i \in 1 .. Len(t) : t[i] = f[i + 1]
      /\ Head(f) = f[1]
  OBVIOUS
<1> HIDE DEF t
<1>2. \A i \in 2 .. Len(f) : i - 1 \in 1 .. Len(t) /\ t[i - 1] = f[i]
  BY <1>1
<1>3. ASSUME NEW n \in 1 .. Len(keys)
      PROVE  keys[n] \in h \/ \E i \in 1 .. Len(t) : Frees(t[i], keys[n])
  <2>1. CASE Head(f).down /\ keys[n] = Head(f).key
    <3>1. 1 \in 1 .. Len(f)
      BY <1>1
    <3>2. keys[n] \in h \/ \E i \in 2 .. Len(f) : Frees(f[i], keys[n])
      BY <1>1, <2>1, <3>1 DEF Unstuck
    <3> QED BY <1>2, <3>2
  <2>2. CASE \E m \in 1 .. Len(d.key_down) :
               keys[n] = d.key_down[m] /\ ~Frees(Head(f), keys[n])
    <3>1. keys[n] \in h \/ \E i \in 1 .. Len(f) : Frees(f[i], keys[n])
      BY <2>2 DEF Unstuck
    <3>2. \A i \in 1 .. Len(f) : Frees(f[i], keys[n]) => i \in 2 .. Len(f)
      BY <1>1, <2>2
    <3> QED BY <1>2, <3>1, <3>2
  <2> QED BY <2>1, <2>2 DEF Follows
<1>4. ASSUME NEW n \in 1 .. Len(t), t[n].down
      PROVE  t[n].key \in h \/ \E i \in n + 1 .. Len(t) : Frees(t[i], t[n].key)
  <2>1. n + 1 \in 1 .. Len(f) /\ t[n] = f[n + 1]
    BY <1>1
  <2>2. t[n].key \in h \/ \E i \in n + 2 .. Len(f) : Frees(f[i], t[n].key)
    BY <1>4, <2>1 DEF Unstuck
  <2>3. \A i \in n + 2 .. Len(f) : i - 1 \in n + 1 .. Len(t) /\ t[i - 1] = f[i]
    BY <1>1
  <2> QED BY <2>2, <2>3
<1> QED BY <1>3, <1>4 DEF Unstuck, t

LEMMA PopKeepsFifo ==
  ASSUME Size, NEW f \in Seq(Code), NEW p \in Code, f # <<>>,
         FifoType([fifo |-> f, previous |-> p]), FifoInv([fifo |-> f, previous |-> p])
  PROVE  /\ FifoType([fifo |-> Tail(f), previous |-> p])
         /\ FifoInv([fifo |-> Tail(f), previous |-> p])
<1> DEFINE t == Tail(f)
<1>1. /\ t \in Seq(Code) /\ Len(f) \in Nat /\ Len(t) = Len(f) - 1 /\ Len(f) >= 1
      /\ \A i \in 1 .. Len(t) : t[i] = f[i + 1]
  OBVIOUS
<1>2. Len(f) <= key_fifo_size
  BY DEF FifoType
<1> HIDE DEF t
<1>3. FifoType([fifo |-> t, previous |-> p])
  BY <1>1, <1>2 DEF FifoType, Size
<1>4. FifoInv([fifo |-> t, previous |-> p])
  <2>1. /\ \A n \in 1 .. Len(f) : f[n].all => ~f[n].down
        /\ p.all <=> f[Len(f)].all
        /\ \A n \in 1 .. Len(f) - 1 : ~(f[n].all /\ f[n + 1].all)
    BY <1>1 DEF FifoInv
  <2>2. \A n \in 1 .. Len(t) : n + 1 \in 1 .. Len(f) /\ t[n] = f[n + 1]
    BY <1>1
  <2>3. \A n \in 1 .. Len(t) : t[n].all => ~t[n].down
    BY <2>1, <2>2
  <2>4. t # <<>> => (p.all <=> t[Len(t)].all)
    BY <1>1, <2>1
  <2>5. \A n \in 1 .. Len(t) - 1 : ~(t[n].all /\ t[n + 1].all)
    <3> TAKE n \in 1 .. Len(t) - 1
    <3>1. n + 1 \in 1 .. Len(f) - 1 /\ n \in 1 .. Len(t) /\ n + 1 \in 1 .. Len(t)
      BY <1>1
    <3>2. ~(f[n + 1].all /\ f[n + 1 + 1].all)
      BY <2>1, <3>1
    <3> QED BY <2>2, <3>1, <3>2
  <2>6. Len(t) # key_fifo_size
    BY <1>1, <1>2 DEF Size
  <2> QED BY <2>3, <2>4, <2>5, <2>6 DEF FifoInv
<1> QED BY <1>3, <1>4 DEF t

LEMMA PopAddsNoDouble ==
  ASSUME NEW f \in Seq(Code), f # <<>>, NEW d \in Down,
         NoDoubles(f, d.key_down), NEW keys \in Seq(Keys),
         Follows(keys, Head(f), d)
  PROVE  NoDoubles(Tail(f), keys)
<1>1. SUFFICES ASSUME OwnDoubles
               PROVE  /\ \A n \in 1 .. Len(Tail(f)) :
                           Tail(f)[n].down => Tail(f)[n].key \notin DoubleKeys
                      /\ \A n \in 1 .. Len(keys) : keys[n] \notin DoubleKeys
  BY DEF NoDoubles
<1>2. /\ \A n \in 1 .. Len(Tail(f)) : n + 1 \in 1 .. Len(f) /\ Tail(f)[n] = f[n + 1]
      /\ Head(f) = f[1] /\ 1 \in 1 .. Len(f)
  OBVIOUS
<1>3. /\ \A n \in 1 .. Len(f) : f[n].down => f[n].key \notin DoubleKeys
      /\ \A n \in 1 .. Len(d.key_down) : d.key_down[n] \notin DoubleKeys
  BY <1>1 DEF NoDoubles
<1>4. \A n \in 1 .. Len(keys) : keys[n] \notin DoubleKeys
  BY <1>2, <1>3 DEF Follows
<1> QED BY <1>2, <1>3, <1>4

----------------------------------------------------------------------------
\* The inductive invariant.
Inv == TypeOK /\ KeyInv

LEMMA InitKeeps == Init => Inv
<1> SUFFICES ASSUME Init PROVE Inv
  OBVIOUS
<1>1. Size
  BY SizeType DEF Init
<1>2. UpCode(NoKey) \in Code /\ <<>> \in Seq(Code) /\ <<>> \in Seq(Keys)
  BY DEF UpCode, Code
<1>3. TypeOK
  <2>1. key_fifo_size \in FifoSizes /\ fifo \in Seq(Code) /\ Len(fifo) <= key_fifo_size
    BY <1>1, <1>2 DEF Init, Size
  <2>2. previous \in Code /\ last_key \in (Keys \union {NoKey}) \X (Keys \union {NoKey})
    BY <1>2 DEF Init
  <2>3. /\ key_down \in Seq(Keys) /\ last_down \in BOOLEAN /\ held \subseteq EventKeys
        /\ ar_state \in {-1, 0, 1} /\ ar_cmd \in Bound \union {NoCmd}
        /\ cmd \in Bound \union {NoCmd}
    BY <1>2 DEF Init
  <2> QED BY <2>1, <2>2, <2>3 DEF TypeOK
<1>4. FifoInv(Queue)
  BY <1>1 DEF Init, Queue, FifoInv, Size
<1>5. Distinct(key_down) /\ NoDoubles(fifo, key_down) /\ Unstuck(fifo, key_down, held)
  BY DEF Init, Distinct, NoDoubles, Unstuck
<1> QED BY <1>3, <1>4, <1>5 DEF Inv, KeyInv

LEMMA QueueType == TypeOK => Size /\ FifoType(Queue)
  BY SizeType DEF TypeOK, Queue, FifoType

\* A driver's event, for the keys that are held after it.
LEMMA EventKeeps ==
  ASSUME Inv, NEW code \in Code, ~code.all, code.key \in Keys, put_key(code),
         held' \subseteq EventKeys,
         Unstuck(put_key_internal(Queue, code).fifo, key_down, held'),
         OwnDoubles /\ code.key \in DoubleKeys => Unstuck(fifo, key_down, held')
  PROVE  Inv'
<1>1. TypeOK /\ Size /\ FifoType(Queue) /\ FifoInv(Queue) /\ NoDoubles(fifo, key_down)
      /\ Distinct(key_down)
  BY QueueType DEF Inv, KeyInv
<1>2. /\ \E r : FifoGood(r, held') /\ fifo' = r.fifo /\ previous' = r.previous
      /\ last_key' \in (Keys \union {NoKey}) \X (Keys \union {NoKey})
  BY <1>1, PutKeyKeeps
<1>3. PICK r : FifoGood(r, held') /\ fifo' = r.fifo /\ previous' = r.previous
  BY <1>2
<1>4. UNCHANGED <<key_fifo_size, key_down, last_down, ar_state, ar_cmd, cmd>>
  BY DEF put_key, downVars
<1>5. /\ r \in [fifo : Seq(Code), previous : Code] /\ Len(r.fifo) <= key_fifo_size
      /\ FifoInv(r) /\ NoDoubles(r.fifo, key_down) /\ Unstuck(r.fifo, key_down, held')
  BY <1>3 DEF FifoGood, FifoType
<1>6. Queue' = r
  BY <1>3, <1>5 DEF Queue
<1>7. TypeOK'
  BY <1>1, <1>2, <1>3, <1>4, <1>5 DEF TypeOK
<1>8. FifoInv(Queue)'
  BY <1>4, <1>5, <1>6 DEF FifoInv
<1>9. (Distinct(key_down) /\ NoDoubles(fifo, key_down) /\ Unstuck(fifo, key_down, held))'
  BY <1>1, <1>3, <1>4, <1>5 DEF Distinct, NoDoubles, Unstuck
<1> QED BY <1>7, <1>8, <1>9 DEF Inv, KeyInv

LEMMA UnstuckGrows ==
  ASSUME NEW f, NEW keys, NEW h, NEW k, Unstuck(f, keys, h)
  PROVE  Unstuck(f, keys, h \union {k})
  BY DEF Unstuck

LEMMA CodeTypes ==
  ASSUME NEW k \in Keys
  PROVE  /\ DownCode(k) \in Code /\ ~DownCode(k).all /\ DownCode(k).down /\ DownCode(k).key = k
         /\ UpCode(k) \in Code /\ ~UpCode(k).all /\ ~UpCode(k).down /\ UpCode(k).key = k
  BY DEF DownCode, UpCode, Code

LEMMA PressKeeps == ASSUME Inv, NEW k \in EventKeys, Press(k) PROVE Inv'
<1> DEFINE code == DownCode(k)
<1>1. k \in Keys /\ code \in Code /\ ~code.all /\ code.key = k
  BY CodeTypes DEF Keys
<1>2. put_key(code) /\ held' = held \union {k} /\ held' \subseteq EventKeys
  BY DEF Press, Inv, TypeOK
<1> HIDE DEF code
<1>3. Size /\ FifoType(Queue) /\ key_down \in Seq(Keys) /\ Queue.fifo = fifo
  BY QueueType DEF Inv, TypeOK, Queue
<1>4. Unstuck(fifo, key_down, held') /\ k \in held'
  BY <1>2, UnstuckGrows DEF Inv, KeyInv
<1>5. Unstuck(put_key_internal(Queue, code).fifo, key_down, held')
  BY <1>1, <1>3, <1>4, PutSticksNone
<1> QED BY <1>1, <1>2, <1>4, <1>5, EventKeeps

LEMMA ReleaseKeeps == ASSUME Inv, NEW k \in EventKeys, Release(k) PROVE Inv'
<1> DEFINE code == UpCode(k)
<1>1. k \in Keys /\ code \in Code /\ ~code.all /\ code.key = k
  BY CodeTypes DEF Keys
<1>2. put_key(code) /\ held' = held \ {k} /\ held' \subseteq EventKeys
  BY DEF Release, Inv, TypeOK
<1>3. /\ Size /\ FifoType(Queue) /\ FifoInv(Queue) /\ key_down \in Seq(Keys)
      /\ Queue.fifo = fifo /\ Unstuck(fifo, key_down, held) /\ NoDoubles(fifo, key_down)
  BY QueueType DEF Inv, KeyInv, TypeOK, Queue
<1>4. Unstuck(put_key_internal(Queue, code).fifo, key_down, held')
  BY <1>1, <1>2, <1>3, ReleaseFrees
<1>5. OwnDoubles /\ k \in DoubleKeys => Unstuck(fifo, key_down, held')
  BY <1>2, <1>3 DEF NoDoubles, Unstuck
<1> HIDE DEF code
<1> QED BY <1>1, <1>2, <1>4, <1>5, EventKeeps

LEMMA TapKeeps == ASSUME Inv, NEW k \in TapKeys, Tap(k) PROVE Inv'
<1> DEFINE code == UpCode(k)
<1>1. k \in Keys /\ code \in Code /\ ~code.all /\ ~code.down /\ code.key = k
  BY CodeTypes DEF Keys
<1>2. put_key(code) /\ held' = held /\ held' \subseteq EventKeys
  BY DEF Tap, Inv, TypeOK
<1> HIDE DEF code
<1>3. /\ Size /\ FifoType(Queue) /\ key_down \in Seq(Keys) /\ Queue.fifo = fifo
      /\ Unstuck(fifo, key_down, held')
  BY <1>2, QueueType DEF Inv, KeyInv, TypeOK, Queue
<1>4. Unstuck(put_key_internal(Queue, code).fifo, key_down, held')
  BY <1>1, <1>3, PutSticksNone
<1> QED BY <1>1, <1>2, <1>3, <1>4, EventKeeps

LEMMA ReadKeeps == ASSUME Inv, read_keys PROVE Inv'
<1> DEFINE d == [key_down |-> key_down, last_down |-> last_down,
                 ar_state |-> ar_state, ar_cmd |-> ar_cmd, cmd |-> NoCmd]
           e == IF fifo = <<>> THEN d ELSE interpret_key(d, Head(fifo))
<1>1. PICK elapsed \in BOOLEAN :
        LET f == IF e.cmd # NoCmd THEN e ELSE check_autorepeat(e, elapsed)
        IN /\ key_down' = f.key_down /\ last_down' = f.last_down
           /\ ar_state' = f.ar_state /\ ar_cmd' = f.ar_cmd /\ cmd' = f.cmd
           /\ fifo' = IF fifo = <<>> THEN <<>> ELSE Tail(fifo)
           /\ UNCHANGED <<key_fifo_size, previous, last_key, held>>
  BY DEF read_keys
<1>2. /\ TypeOK /\ Size /\ FifoType(Queue) /\ FifoInv(Queue) /\ Distinct(key_down)
      /\ NoDoubles(fifo, key_down) /\ Unstuck(fifo, key_down, held)
  BY QueueType DEF Inv, KeyInv
<1>3. /\ fifo \in Seq(Code) /\ Len(fifo) <= key_fifo_size /\ previous \in Code
      /\ d \in Down /\ d.key_down = key_down
  BY <1>2 DEF TypeOK, Down
<1> HIDE DEF d
<1>4. fifo # <<>> => /\ Head(fifo) \in Code
                     /\ Head(fifo).all => ~Head(fifo).down
                     /\ Tail(fifo) \in Seq(Code)
  BY <1>2, <1>3 DEF FifoInv, Queue
<1>5. fifo # <<>> => e \in Down /\ Distinct(e.key_down) /\ Follows(e.key_down, Head(fifo), d)
  BY <1>2, <1>3, <1>4, InterpretKeeps
<1>6. fifo = <<>> => e = d
  OBVIOUS
<1> HIDE DEF e
<1>7. e \in Down /\ Distinct(e.key_down)
  BY <1>2, <1>3, <1>5, <1>6
<1> DEFINE f == IF e.cmd # NoCmd THEN e ELSE check_autorepeat(e, elapsed)
<1>8. f \in Down /\ f.key_down = e.key_down
  BY <1>7, RepeatKeeps
<1>9. /\ key_down' = f.key_down /\ last_down' = f.last_down
      /\ ar_state' = f.ar_state /\ ar_cmd' = f.ar_cmd /\ cmd' = f.cmd
      /\ fifo' = IF fifo = <<>> THEN <<>> ELSE Tail(fifo)
      /\ UNCHANGED <<key_fifo_size, previous, last_key, held>>
  BY <1>1
<1> HIDE DEF f
<1>10. /\ FifoType([fifo |-> fifo', previous |-> previous])
       /\ FifoInv([fifo |-> fifo', previous |-> previous])
  <2>1. CASE fifo = <<>>
    BY <1>2, <1>9, <2>1 DEF Queue
  <2>2. CASE fifo # <<>>
    BY <1>2, <1>3, <1>9, <2>2, PopKeepsFifo DEF Queue
  <2> QED BY <2>1, <2>2
<1>11. NoDoubles(fifo', key_down') /\ Unstuck(fifo', key_down', held)
  <2>1. CASE fifo = <<>>
    BY <1>2, <1>3, <1>6, <1>8, <1>9, <2>1
  <2>2. CASE fifo # <<>>
    <3>1. key_down' = e.key_down /\ e.key_down \in Seq(Keys) /\ fifo' = Tail(fifo)
      BY <1>7, <1>8, <1>9, <2>2 DEF Down
    <3>2. Follows(e.key_down, Head(fifo), d)
      BY <1>5, <2>2
    <3>3. NoDoubles(Tail(fifo), e.key_down)
      BY <1>2, <1>3, <2>2, <3>1, <3>2, PopAddsNoDouble
    <3>4. Unstuck(Tail(fifo), e.key_down, held)
      BY <1>2, <1>3, <2>2, <3>1, <3>2, PopSticksNone
    <3> QED BY <3>1, <3>3, <3>4
  <2> QED BY <2>1, <2>2
<1>12. TypeOK'
  <2>1. key_fifo_size' \in FifoSizes /\ fifo' \in Seq(Code) /\ Len(fifo') <= key_fifo_size'
    BY <1>2, <1>9, <1>10 DEF FifoType, TypeOK
  <2>2. /\ previous' \in Code /\ held' \subseteq EventKeys
        /\ last_key' \in (Keys \union {NoKey}) \X (Keys \union {NoKey})
    BY <1>2, <1>9 DEF TypeOK
  <2>3. /\ key_down' \in Seq(Keys) /\ last_down' \in BOOLEAN /\ ar_state' \in {-1, 0, 1}
        /\ ar_cmd' \in Bound \union {NoCmd} /\ cmd' \in Bound \union {NoCmd}
    BY <1>8, <1>9 DEF Down
  <2> QED BY <2>1, <2>2, <2>3 DEF TypeOK
<1>13. FifoInv(Queue)'
  BY <1>9, <1>10 DEF FifoInv, Queue
<1>14. (Distinct(key_down) /\ NoDoubles(fifo, key_down) /\ Unstuck(fifo, key_down, held))'
  BY <1>7, <1>8, <1>9, <1>11 DEF Distinct, NoDoubles, Unstuck
<1> QED BY <1>12, <1>13, <1>14 DEF Inv, KeyInv

LEMMA StepKeeps == Inv /\ [Next]_vars => Inv'
<1> SUFFICES ASSUME Inv, [Next]_vars PROVE Inv'
  OBVIOUS
<1>1. ASSUME NEW k \in EventKeys, Press(k) PROVE Inv'
  BY <1>1, PressKeeps
<1>2. ASSUME NEW k \in EventKeys, Release(k) PROVE Inv'
  BY <1>2, ReleaseKeeps
<1>3. ASSUME NEW k \in TapKeys, Tap(k) PROVE Inv'
  BY <1>3, TapKeeps
<1>4. CASE read_keys
  BY <1>4, ReadKeeps
<1>5. CASE UNCHANGED vars
  BY <1>5 DEF vars, fifoVars, downVars, Inv, TypeOK, KeyInv, Queue, FifoInv, Distinct,
              NoDoubles, Unstuck
<1> QED BY <1>1, <1>2, <1>3, <1>4, <1>5 DEF Next

LEMMA Invariance == Spec => []Inv
  BY InitKeeps, StepKeeps, PTL DEF Spec

----------------------------------------------------------------------------
\* The fifo stays inside its array of key_fifo_size codes, the keys that are
\* down are keys, and the command given or repeated is one of the bindings'.
THEOREM KeyTypesKept == Spec => []TypeOK
<1>1. Inv => TypeOK
  BY DEF Inv
<1> QED BY <1>1, Invariance, PTL

\* Whatever the fifo drops, no key stays down that the user has released and
\* that no code in the fifo frees.
THEOREM NoKeySticks == Spec => []NoStuckKeys
<1>1. Inv => NoStuckKeys
  BY DEF Inv, KeyInv, Unstuck, NoStuckKeys
<1> QED BY <1>1, Invariance, PTL

\* The fifo never holds two resets in a row, as the comment in mp_fifo.c on
\* MP_KEY_RELEASE_ALL promises.
THEOREM ResetsStayApart == Spec => []ResetsAreApart
<1>1. Inv => ResetsAreApart
  BY DEF Inv, KeyInv, FifoInv, Queue, ResetsAreApart
<1> QED BY <1>1, Invariance, PTL

----------------------------------------------------------------------------
\* RepeatsHeldKeys, of a value of the variables that read_keys changes.
Repeats(d) == d.ar_state = 1 /\ d.key_down # <<>> => d.ar_cmd = get_cmd_from_keys(d.key_down)

LEMMA InterpretRepeats ==
  ASSUME NEW d \in Down, Repeats(d), NEW code \in Code
  PROVE  Repeats(interpret_key(d, code))
<1> DEFINE r == IF code.all THEN ReleaseAll(d) ELSE d
<1>1. r \in Down /\ Repeats(r)
  <2>1. CASE code.all
    <3>1. r = [d EXCEPT !.key_down = <<>>, !.last_down = FALSE]
      BY <2>1 DEF ReleaseAll
    <3>2. <<>> \in Seq(Keys)
      OBVIOUS
    <3> HIDE DEF r
    <3> QED BY <3>1, <3>2 DEF Down, Repeats
  <2>2. CASE ~code.all
    BY <2>2
  <2> QED BY <2>1, <2>2
<1> HIDE DEF r
<1>2. Repeats(KeyPushed(r, code.key))
  BY <1>1 DEF KeyPushed, Repeats, Down
<1>3. Repeats(KeyReleased(r, code.key))
  BY <1>1 DEF KeyReleased, Repeats
<1> QED BY <1>1, <1>2, <1>3 DEF interpret_key, r

\* The command that is repeated is bound to the keys that are down, so pushing
\* or releasing another key ends the repetition of the former command.
THEOREM RepeatIsOfHeldKeys == Spec => []RepeatsHeldKeys
<1>1. Init => RepeatsHeldKeys
  BY DEF Init, RepeatsHeldKeys
<1>2. Inv /\ RepeatsHeldKeys /\ [Next]_vars => RepeatsHeldKeys'
  <2> SUFFICES ASSUME Inv, RepeatsHeldKeys, [Next]_vars PROVE RepeatsHeldKeys'
    OBVIOUS
  <2>1. CASE read_keys
    <3> DEFINE d == [key_down |-> key_down, last_down |-> last_down,
                     ar_state |-> ar_state, ar_cmd |-> ar_cmd, cmd |-> NoCmd]
               e == IF fifo = <<>> THEN d ELSE interpret_key(d, Head(fifo))
    <3>1. PICK elapsed \in BOOLEAN :
            LET f == IF e.cmd # NoCmd THEN e ELSE check_autorepeat(e, elapsed)
            IN key_down' = f.key_down /\ ar_state' = f.ar_state /\ ar_cmd' = f.ar_cmd
      BY <2>1 DEF read_keys
    <3>2. d \in Down /\ Repeats(d) /\ Distinct(d.key_down)
      BY DEF Inv, TypeOK, KeyInv, Down, Repeats, RepeatsHeldKeys
    <3> HIDE DEF d
    <3>3. fifo # <<>> => Head(fifo) \in Code /\ (Head(fifo).all => ~Head(fifo).down)
      BY DEF Inv, TypeOK, KeyInv, FifoInv, Queue
    <3>4. e \in Down /\ Repeats(e)
      BY <3>2, <3>3, InterpretKeeps, InterpretRepeats
    <3> HIDE DEF e
    <3> DEFINE c == IF e.ar_state = 0 THEN get_cmd_from_keys(e.key_down) ELSE e.ar_cmd
               g == [e EXCEPT !.ar_state = IF c = NoCmd THEN -1 ELSE 1, !.ar_cmd = c, !.cmd = c]
    <3>5. \/ check_autorepeat(e, elapsed) = e
          \/ check_autorepeat(e, elapsed) = g /\ ~(e.ar_state < 0) /\ e.key_down # <<>>
      BY DEF check_autorepeat
    <3>6. Repeats(check_autorepeat(e, elapsed))
      <4>1. CASE check_autorepeat(e, elapsed) = e
        BY <3>4, <4>1
      <4>2. CASE check_autorepeat(e, elapsed) # e
        <5>1. check_autorepeat(e, elapsed) = g /\ ~(e.ar_state < 0) /\ e.key_down # <<>>
          BY <3>5, <4>2
        <5>2. e.ar_state = 0 \/ e.ar_state = 1
          BY <3>4, <5>1 DEF Down
        <5>3. c = get_cmd_from_keys(e.key_down)
          BY <3>4, <5>1, <5>2 DEF Repeats
        <5> HIDE DEF c
        <5> QED BY <3>4, <5>1, <5>3 DEF Repeats, Down
      <4> QED BY <4>1, <4>2
    <3> QED BY <3>1, <3>4, <3>6 DEF Repeats, RepeatsHeldKeys
  <2>2. CASE UNCHANGED downVars
    BY <2>2 DEF downVars, RepeatsHeldKeys
  <2>3. read_keys \/ UNCHANGED downVars
    BY DEF Next, Press, Release, Tap, put_key, vars
  <2> QED BY <2>1, <2>2, <2>3
<1> QED BY <1>1, <1>2, Invariance, PTL DEF Spec

LEMMA AppendTwo == ASSUME NEW a, NEW b PROVE Append(<<a>>, b) = <<a, b>>
<1>1. <<a>> \in Seq({a, b}) /\ Len(<<a>>) = 1 /\ <<a>>[1] = a
  OBVIOUS
<1>2. /\ Append(<<a>>, b) \in Seq({a, b}) /\ Len(Append(<<a>>, b)) = 2
      /\ Append(<<a>>, b)[1] = a /\ Append(<<a>>, b)[2] = b
  BY <1>1, AppendProperties
<1>3. <<a, b>> \in Seq({a, b}) /\ Len(<<a, b>>) = 2 /\ <<a, b>>[1] = a /\ <<a, b>>[2] = b
  OBVIOUS
<1>4. \A i \in 1 .. 2 : i = 1 \/ i = 2
  OBVIOUS
<1>5. \A i \in 1 .. 2 : Append(<<a>>, b)[i] = <<a, b>>[i]
  BY <1>2, <1>3, <1>4
<1> QED BY <1>2, <1>3, <1>5, SeqEqual, Zenon

\* Even with key-fifo-size=2 a click on an idle player gives its command: the
\* push is stored, and the release in the last slot with its key.
THEOREM ClicksCount == Spec => []ClickGivesCommand
<1>1. ASSUME Inv, fifo = <<>>, key_down = <<>>, NEW k \in EventKeys
      PROVE  LET q == put_key_internal(put_key_internal(Queue, DownCode(k)), UpCode(k))
                 d == [key_down |-> <<>>, last_down |-> last_down,
                       ar_state |-> ar_state, ar_cmd |-> ar_cmd, cmd |-> NoCmd]
             IN /\ Len(q.fifo) = 2
                /\ interpret_key(interpret_key(d, q.fifo[1]), q.fifo[2]).cmd
                     = get_cmd_from_keys(<<k>>)
  <2> DEFINE d == [key_down |-> <<>>, last_down |-> last_down,
                   ar_state |-> ar_state, ar_cmd |-> ar_cmd, cmd |-> NoCmd]
             p == [fifo |-> <<DownCode(k)>>, previous |-> UpCode(k)]
             up == [key |-> k, down |-> FALSE, all |-> Free(p) = 1]
  <2>1. Size /\ k \in Keys /\ k # NoKey /\ MaxKeyDown \in Nat \ {0}
    BY <1>1, QueueType, KeyAssumption DEF Inv, KeyAssumption, Keys
  <2>2. put_key_internal(Queue, DownCode(k)) = p
    <3>1. Queue.fifo = <<>> /\ Free(Queue) = key_fifo_size
      BY <1>1, <2>1 DEF Queue, Free, Size
    <3>2. ~Dropped(Queue, DownCode(k)) /\ Stored(Queue, DownCode(k)) = DownCode(k)
      BY <2>1, <3>1 DEF Dropped, Stored, Size
    <3>3. Append(Queue.fifo, DownCode(k)) = <<DownCode(k)>>
      BY <3>1
    <3>4. DownCode(k).down /\ DownCode(k).key = k /\ DownCode(k).all = FALSE
      BY DEF DownCode
    <3>5. UpCode(k) \in Code /\ UpCode(k).all = FALSE
      BY <2>1 DEF UpCode, Code
    <3>6. [UpCode(k) EXCEPT !.all = FALSE] = UpCode(k)
      <4> DEFINE u == UpCode(k)
      <4> HIDE DEF u
      <4>1. u \in Code /\ u.all = FALSE
        BY <3>5 DEF u
      <4>2. [u EXCEPT !.all = FALSE] = u
        BY <4>1 DEF Code
      <4> QED BY <4>2 DEF u
    <3> QED BY <3>2, <3>3, <3>4, <3>6 DEF put_key_internal
  <2>3. Free(p) = key_fifo_size - 1
    BY DEF Free
  <2>4. put_key_internal(p, UpCode(k)).fifo = <<DownCode(k), up>>
    <3>1. ~Dropped(p, UpCode(k))
      BY <2>1, <2>3 DEF Dropped, Size, UpCode
    <3>2. Stored(p, UpCode(k)) = up
      BY DEF Stored, UpCode
    <3>3. Append(p.fifo, up) = <<DownCode(k), up>>
      BY AppendTwo
    <3> HIDE DEF up, p
    <3> QED BY <3>1, <3>2, <3>3 DEF put_key_internal
  <2>5. interpret_key(d, DownCode(k)) =
          [d EXCEPT !.key_down = <<k>>, !.last_down = TRUE, !.ar_state = 0]
    BY <2>1 DEF interpret_key, DownCode, KeyPushed, TooManyPushed, Pushed
  <2> DEFINE e == interpret_key(d, DownCode(k))
             r == IF up.all THEN ReleaseAll(e) ELSE e
  <2>6. interpret_key(e, up) = KeyReleased(r, k)
    BY <2>1 DEF interpret_key
  <2>7. e.key_down = <<k>> /\ e.last_down
    BY <2>5
  <2>8. KeyReleased(r, k).cmd = get_cmd_from_keys(<<k>>)
    <3>1. CASE up.all
      <4>1. r = [e EXCEPT !.key_down = <<>>, !.last_down = FALSE]
        BY <3>1 DEF ReleaseAll
      <4>2. r.key_down = <<>>
        BY <2>5, <4>1
      <4> HIDE DEF r
      <4> QED BY <2>1, <4>2 DEF KeyReleased, Pushed
    <3>2. CASE ~up.all
      <4>1. r.key_down = <<k>> /\ r.last_down
        BY <2>7, <3>2
      <4>2. k \in Pushed(r)
        <5> HIDE DEF r
        <5>1. r.key_down[1] = k /\ 1 \in 1 .. Len(r.key_down)
          BY <4>1
        <5> QED BY <5>1 DEF Pushed
      <4> HIDE DEF r
      <4> QED BY <4>1, <4>2 DEF KeyReleased
    <3> QED BY <3>1, <3>2
  <2>9. KeyReleased(r, k).cmd = interpret_key(interpret_key(d, DownCode(k)), up).cmd
    BY <2>6
  <2> HIDE DEF up, d, r, e, p
  <2>10. Len(<<DownCode(k), up>>) = 2 /\ <<DownCode(k), up>>[1] = DownCode(k)
         /\ <<DownCode(k), up>>[2] = up
    OBVIOUS
  <2> QED BY <2>2, <2>4, <2>8, <2>9, <2>10 DEF d
<1>2. Inv => ClickGivesCommand
  BY <1>1 DEF ClickGivesCommand, Queue
<1> QED BY <1>2, Invariance, PTL
=============================================================================
