------------------------- MODULE PacketRelayProofs --------------------------
(***************************************************************************)
(* The frames of the TCP fallback carry packets whole, in order and once,  *)
(* for every base, every size of the buffers and every set of packets, and *)
(* wherever the connection is cut.                                         *)
(*                                                                         *)
(* The bytes in flight are described by positions: off[k] is where the     *)
(* frame of the k-th packet begins, counted from the first byte in wire,   *)
(* which is byte 1.  A frame that the reader has begun lies partly before  *)
(* it.  Every byte of wire that a frame claims is that frame's.            *)
(***************************************************************************)
EXTENDS PacketRelay, SequenceTheorems, WellFoundedInduction, TLAPS

Offsets == [Nat -> Int]

\* The frames that the reader has not finished: from packet r + 1 on.
Consecutive(off, s, r) ==
  \A k \in (r + 1)..Len(s) :
    /\ off[k + 1] = off[k] + 2 + Len(s[k])
    /\ \A l \in (k + 1)..(Len(s) + 1) : off[k + 1] <= off[l]

\* What w has of the frame of packet p at position o is what the writer writes.
Holds(o, w, p) ==
  /\ \A i \in 1..2 : o + i \in 1..Len(w) => w[o + i] = Header(Len(p))[i]
  /\ \A j \in 1..Len(p) : o + 2 + j \in 1..Len(w) => w[o + 2 + j] = p[j]

Laid(off, w, s, r) == \A k \in (r + 1)..Len(s) : Holds(off[k], w, s[k])

\* How much of the last frame the writer has still to write.
Pending ==
  CASE out = "header"  -> 2 + Len(Last(sent))
    [] out = "payload" -> Len(Last(sent))
    [] OTHER           -> 0

Framing(off) ==
  /\ off[Len(received) + 1] = IF inn = "header" THEN 0 ELSE -2
  /\ Consecutive(off, sent, Len(received))
  /\ Laid(off, wire, sent, Len(received))
  /\ inn = "body" => Len(received) < Len(sent) /\ need = Len(sent[Len(received) + 1])
  /\ Len(wire) <= off[Len(sent) + 1]
  /\ ~cut => Len(wire) = off[Len(sent) + 1] - Pending

Framed == transport = "tcp" /\ inn # "failed" => \E off \in Offsets : Framing(off)

Delivered ==
  transport = "tcp" =>
    /\ Len(received) <= Len(sent)
    /\ \A k \in 1..Len(received) : received[k] = sent[k]

Modes ==
  /\ transport = "tcp" => inn # "stream"
  /\ transport = "quic" => inn \in {"stream", "failed"} /\ out # "header"
  /\ out \in {"header", "payload"} => sent # <<>>

PacketInv == TypeOK /\ Modes /\ FailsOnlyWhenCut /\ Delivered /\ Framed
-----------------------------------------------------------------------------
(* The least number is what induction over data starts from here: no prover *)
(* can instantiate an induction theorem with a formula.                     *)

LEMMA LeastNatural ==
  ASSUME NEW S, S \subseteq Nat, S # {}
  PROVE  \E m \in S : \A n \in S : m <= n
<1> DEFINE R == OpToRel(<, Nat)
<1>2. \E x \in S : \A y \in S : ~(<<y, x>> \in R)
  <2> HIDE DEF R
  <2>1. IsWellFoundedOn(R, Nat)
    BY NatLessThanWellFounded DEF R
  <2> QED
    BY <2>1, WFMin
<1>3. \A x, y \in Nat : <<y, x>> \in R <=> y < x
  BY DEF OpToRel
<1> HIDE DEF R
<1>4. PICK x \in S : \A y \in S : ~(<<y, x>> \in R)
  BY <1>2
<1>5. ASSUME NEW y \in S PROVE x <= y
  <2>1. x \in Nat /\ y \in Nat /\ ~(<<y, x>> \in R)
    BY <1>4
  <2>2. ~(y < x)
    BY <1>3, <2>1
  <2> QED
    BY <2>1, <2>2
<1> QED
  BY <1>5

-----------------------------------------------------------------------------
(* The bytes of a sequence of packets, one after the other: FlattenSeq is  *)
(* a recursive function, of which a prover knows only that it is chosen.   *)
(* Its equations are shown here, each by the least number it fails for.    *)

\* f[i] is the first i packets of s, one after the other.
Flattens(f, s) == f = [i \in 1..Len(s) |-> IF i = 1 THEN s[i] ELSE f[i - 1] \o s[i]]

LEMMA FlattenExists ==
  ASSUME NEW s, Len(s) \in Nat
  PROVE  \E f : Flattens(f, s)
<1> DEFINE Upto(n, f) == f = [i \in 1..n |-> IF i = 1 THEN s[i] ELSE f[i - 1] \o s[i]]
           bad == {n \in Nat : ~\E f : Upto(n, f)}
<1>1. bad = {}
  <2>1. SUFFICES ASSUME bad # {} PROVE FALSE
    OBVIOUS
  <2>2. PICK m \in bad : \A n \in bad : m <= n
    <3> HIDE DEF bad
    <3>1. bad \subseteq Nat
      BY DEF bad
    <3> QED
      BY <2>1, <3>1, LeastNatural
  <2>3. m \in Nat /\ ~\E f : Upto(m, f)
    BY <2>2
  <2>4. m # 0
    <3>1. Upto(0, <<>>)
      OBVIOUS
    <3> QED
      BY <2>3, <3>1
  <2>5. m - 1 \in Nat /\ m - 1 \notin bad
    <3> HIDE DEF bad
    <3>1. m - 1 \in Nat /\ ~(m <= m - 1)
      BY <2>3, <2>4
    <3> QED
      BY <2>2, <3>1
  <2>6. PICK f : Upto(m - 1, f)
    BY <2>5
  <2> DEFINE g == [i \in 1..m |-> IF i = 1 THEN s[i] ELSE f[i - 1] \o s[i]]
  <2>7. ASSUME NEW i \in 1..(m - 1) PROVE g[i] = f[i]
    <3>1. i \in 1..m
      BY <2>3
    <3>2. g[i] = IF i = 1 THEN s[i] ELSE f[i - 1] \o s[i]
      BY <3>1
    <3> HIDE DEF g
    <3>3. f[i] = IF i = 1 THEN s[i] ELSE f[i - 1] \o s[i]
      BY <2>6
    <3> QED
      BY <3>2, <3>3
  <2>8. Upto(m, g)
    <3>1. ASSUME NEW i \in 1..m, i # 1 PROVE f[i - 1] = g[i - 1]
      <4>1. i - 1 \in 1..(m - 1)
        BY <2>3, <3>1
      <4> QED
        BY <2>7, <4>1
    <3> QED
      BY <3>1
  <2> QED
    BY <2>3, <2>8
<1>2. \E f : Upto(Len(s), f)
  BY <1>1
<1> QED
  BY <1>2 DEF Flattens

LEMMA FlattenIs ==
  ASSUME NEW s, Len(s) \in Nat
  PROVE  /\ Len(s) = 0 => FlattenSeq(s) = s
         /\ Len(s) # 0 => \E f : Flattens(f, s) /\ FlattenSeq(s) = f[Len(s)]
<1> DEFINE f == CHOOSE f : Flattens(f, s)
<1>1. Flattens(f, s)
  BY FlattenExists
<1>2. Len(s) # 0 => FlattenSeq(s) = f[Len(s)]
  BY DEF FlattenSeq, Flattens
<1>3. Len(s) = 0 => FlattenSeq(s) = s
  BY DEF FlattenSeq
<1> HIDE DEF f
<1> QED
  BY <1>1, <1>2, <1>3

LEMMA FlattenStep ==
  ASSUME NEW s, Len(s) \in Nat, NEW f, Flattens(f, s), NEW i \in 1..Len(s)
  PROVE  f[i] = IF i = 1 THEN s[1] ELSE f[i - 1] \o s[i]
BY DEF Flattens

\* t begins with the packets of s, and then so does its flattening.
Begins(s, t) == Len(s) <= Len(t) /\ \A i \in 1..Len(s) : s[i] = t[i]

LEMMA FlattenAgree ==
  ASSUME NEW s, NEW t, NEW f, NEW g, Flattens(f, s), Flattens(g, t),
         Len(s) \in Nat, Len(t) \in Nat, Begins(s, t)
  PROVE  \A i \in 1..Len(s) : f[i] = g[i]
<1> DEFINE n == Len(s)
           bad == {i \in 1..n : f[i] # g[i]}
<1>1. SUFFICES ASSUME bad # {} PROVE FALSE
  OBVIOUS
<1>2. PICK m \in bad : \A i \in bad : m <= i
  <2> HIDE DEF bad
  <2>1. bad \subseteq Nat
    BY DEF bad
  <2> QED
    BY <1>1, <2>1, LeastNatural
<1>3. m \in 1..n /\ m \in 1..Len(s) /\ m \in 1..Len(t) /\ f[m] # g[m] /\ s[m] = t[m]
  BY <1>2 DEF Begins
<1>4. f[m] = (IF m = 1 THEN s[1] ELSE f[m - 1] \o s[m])
  BY <1>3, FlattenStep
<1>5. g[m] = (IF m = 1 THEN t[1] ELSE g[m - 1] \o t[m])
  BY <1>3, FlattenStep
<1>6. m # 1 => f[m - 1] = g[m - 1]
  <2>1. SUFFICES ASSUME m # 1 PROVE f[m - 1] = g[m - 1]
    OBVIOUS
  <2>2. m - 1 \in 1..n /\ ~(m <= m - 1)
    BY <1>3, <2>1
  <2>3. m - 1 \notin bad
    BY <1>2, <2>2
  <2> QED
    BY <2>2, <2>3
<1> HIDE DEF bad
<1>7. CASE m = 1
  BY <1>3, <1>4, <1>5, <1>7
<1>8. CASE m # 1
  BY <1>3, <1>4, <1>5, <1>6, <1>8
<1> QED
  BY <1>7, <1>8

LEMMA FlattenParts ==
  ASSUME NEW S, NEW s \in Seq(Seq(S)), NEW f, Flattens(f, s)
  PROVE  \A i \in 1..Len(s) : f[i] \in Seq(S)
<1> DEFINE bad == {i \in 1..Len(s) : f[i] \notin Seq(S)}
<1>1. SUFFICES ASSUME bad # {} PROVE FALSE
  OBVIOUS
<1>2. PICK m \in bad : \A i \in bad : m <= i
  <2> HIDE DEF bad
  <2>1. bad \subseteq Nat
    BY DEF bad
  <2> QED
    BY <1>1, <2>1, LeastNatural
<1>3. m \in 1..Len(s) /\ f[m] \notin Seq(S) /\ s[m] \in Seq(S) /\ Len(s) \in Nat
  BY <1>2
<1>4. f[m] = (IF m = 1 THEN s[1] ELSE f[m - 1] \o s[m])
  BY <1>3, FlattenStep
<1>5. m # 1 => f[m - 1] \in Seq(S)
  <2>1. SUFFICES ASSUME m # 1 PROVE f[m - 1] \in Seq(S)
    OBVIOUS
  <2>2. m - 1 \in 1..Len(s) /\ ~(m <= m - 1)
    BY <1>3, <2>1
  <2>3. m - 1 \notin bad
    BY <1>2, <2>2
  <2> QED
    BY <2>2, <2>3
<1> HIDE DEF bad
<1>6. CASE m = 1
  BY <1>3, <1>4, <1>6
<1>7. CASE m # 1
  <2>1. f[m - 1] \o s[m] \in Seq(S)
    BY <1>3, <1>5, <1>7, ConcatProperties
  <2> QED
    BY <1>3, <1>4, <1>7, <2>1
<1> QED
  BY <1>6, <1>7

LEMMA FlattenType ==
  ASSUME NEW S, NEW s \in Seq(Seq(S))
  PROVE  FlattenSeq(s) \in Seq(S)
<1>1. Len(s) \in Nat
  OBVIOUS
<1>2. CASE Len(s) = 0
  <2>1. s = <<>> /\ FlattenSeq(s) = s
    BY <1>1, <1>2, FlattenIs
  <2>2. <<>> \in Seq(S)
    OBVIOUS
  <2> QED
    BY <2>1, <2>2
<1>3. CASE Len(s) # 0
  <2>1. PICK f : Flattens(f, s) /\ FlattenSeq(s) = f[Len(s)]
    BY <1>1, <1>3, FlattenIs
  <2>2. Len(s) \in 1..Len(s)
    BY <1>1, <1>3
  <2> QED
    BY <2>1, <2>2, FlattenParts
<1> QED
  BY <1>2, <1>3

LEMMA FlattenAppend ==
  ASSUME NEW S, NEW s \in Seq(Seq(S)), NEW p \in Seq(S)
  PROVE  FlattenSeq(Append(s, p)) = FlattenSeq(s) \o p
<1> DEFINE t == Append(s, p)
<1>1. /\ Len(s) \in Nat /\ Len(t) = Len(s) + 1 /\ Len(t) \in 1..Len(t) /\ t[Len(t)] = p
      /\ \A i \in 1..Len(s) : s[i] = t[i]
  BY AppendProperties
<1> HIDE DEF t
<1>2. PICK g : Flattens(g, t) /\ FlattenSeq(t) = g[Len(t)]
  BY <1>1, FlattenIs
<1>3. g[Len(t)] = (IF Len(t) = 1 THEN t[1] ELSE g[Len(t) - 1] \o t[Len(t)])
  <2>1. Len(t) \in Nat /\ Len(t) \in 1..Len(t) /\ Flattens(g, t)
    BY <1>1, <1>2
  <2> QED
    BY <2>1, FlattenStep
<1>4. CASE Len(s) = 0
  <2>1. FlattenSeq(s) = <<>>
    BY <1>1, <1>4, FlattenIs
  <2>2. FlattenSeq(t) = p
    BY <1>1, <1>2, <1>3, <1>4
  <2>3. <<>> \o p = p
    BY ConcatEmptySeq
  <2> QED
    BY <2>1, <2>2, <2>3 DEF t
<1>5. CASE Len(s) # 0
  <2>1. PICK f : Flattens(f, s) /\ FlattenSeq(s) = f[Len(s)]
    BY <1>1, <1>5, FlattenIs
  <2>2. Len(s) \in 1..Len(s) /\ Len(s) <= Len(t)
    BY <1>1, <1>5
  <2>3. \A i \in 1..Len(s) : f[i] = g[i]
    <3>1. /\ Flattens(f, s) /\ Flattens(g, t) /\ Len(s) \in Nat /\ Len(t) \in Nat
      BY <1>1, <1>2, <2>1, <2>2
    <3>2. Begins(s, t)
      BY <1>1, <2>2 DEF Begins
    <3> QED
      BY <3>1, <3>2, FlattenAgree
  <2>4. g[Len(t)] = g[Len(s)] \o p
    BY <1>1, <1>3, <1>5
  <2> QED
    BY <1>2, <2>1, <2>2, <2>3, <2>4 DEF t
<1> QED
  BY <1>4, <1>5

LEMMA PrefixBegins ==
  ASSUME NEW S, NEW s \in Seq(S), NEW t \in Seq(S)
  PROVE  IsPrefix(s, t) <=> Begins(s, t)
<1> DEFINE a == SubSeq(s, 1, Len(s))
           b == SubSeq(t, 1, Len(s))
<1>1. Len(s) \in Nat /\ Len(t) \in Nat
  OBVIOUS
<1>2. SUFFICES ASSUME Len(s) <= Len(t)
               PROVE  a = b <=> \A i \in 1..Len(s) : s[i] = t[i]
  BY DEF IsPrefix, Begins
<1>3. a = s
  BY SubSeqFull
<1>4. b \in Seq(S) /\ Len(b) = Len(s) /\ \A i \in 1..Len(s) : b[i] = t[i]
  BY <1>1, <1>2
<1> HIDE DEF a, b
<1>5. (\A i \in 1..Len(s) : s[i] = b[i]) => s = b
  BY <1>4, SeqEqual
<1> QED
  BY <1>3, <1>4, <1>5

LEMMA BeginsConcat ==
  ASSUME NEW S, NEW s \in Seq(S), NEW t \in Seq(S), NEW u \in Seq(S), Begins(s, t)
  PROVE  Begins(s, t \o u)
<1> DEFINE v == t \o u
<1>1. /\ Len(s) \in Nat /\ Len(t) \in Nat /\ Len(u) \in Nat /\ Len(v) = Len(t) + Len(u)
      /\ \A i \in 1..Len(t) : v[i] = t[i]
  OBVIOUS
<1> HIDE DEF v
<1>2. Len(s) <= Len(v) /\ \A i \in 1..Len(s) : i \in 1..Len(t)
  BY <1>1 DEF Begins
<1>3. \A i \in 1..Len(s) : s[i] = v[i]
  BY <1>1, <1>2 DEF Begins
<1>4. Begins(s, v)
  BY <1>2, <1>3 DEF Begins
<1> QED
  BY <1>4 DEF v

LEMMA BeginsTransitive ==
  ASSUME NEW S, NEW s \in Seq(S), NEW t \in Seq(S), NEW u \in Seq(S),
         Begins(s, t), Begins(t, u)
  PROVE  Begins(s, u)
<1>1. Len(s) \in Nat /\ Len(t) \in Nat /\ Len(u) \in Nat
  OBVIOUS
<1> QED
  BY <1>1 DEF Begins

\* More of the same bytes begin the longer sequence.
LEMMA BeginsAfter ==
  ASSUME NEW S, NEW r \in Seq(S), NEW s \in Seq(S), NEW t \in Seq(S), Begins(s, t)
  PROVE  Begins(r \o s, r \o t)
<1> DEFINE a == r \o s
           b == r \o t
<1>1. /\ Len(r) \in Nat /\ Len(s) \in Nat /\ Len(t) \in Nat
      /\ Len(a) = Len(r) + Len(s) /\ Len(b) = Len(r) + Len(t)
      /\ \A i \in 1..Len(a) : a[i] = IF i <= Len(r) THEN r[i] ELSE s[i - Len(r)]
      /\ \A i \in 1..Len(b) : b[i] = IF i <= Len(r) THEN r[i] ELSE t[i - Len(r)]
  OBVIOUS
<1> HIDE DEF a, b
<1>2. Len(s) <= Len(t) /\ \A i \in 1..Len(s) : s[i] = t[i]
  BY DEF Begins
<1>3. ASSUME NEW i \in 1..Len(a) PROVE a[i] = b[i]
  <2>1. i \in 1..Len(b) /\ (~(i <= Len(r)) => i - Len(r) \in 1..Len(s))
    BY <1>1, <1>2
  <2> QED
    BY <1>1, <1>2, <2>1
<1>4. Begins(a, b)
  BY <1>1, <1>2, <1>3 DEF Begins
<1> QED
  BY <1>4 DEF a, b

LEMMA Taken ==
  ASSUME NEW S, NEW w \in Seq(S), NEW n \in 0..Len(w)
  PROVE  /\ SubSeq(w, 1, n) \in Seq(S) /\ SubSeq(w, n + 1, Len(w)) \in Seq(S)
         /\ Begins(SubSeq(w, 1, n), w)
         /\ SubSeq(w, 1, n) \o SubSeq(w, n + 1, Len(w)) = w
<1> DEFINE a == SubSeq(w, 1, n)
           b == SubSeq(w, n + 1, Len(w))
<1>1. /\ Len(w) \in Nat /\ n \in Nat /\ n <= Len(w)
      /\ a \in Seq(S) /\ Len(a) = n /\ \A i \in 1..n : a[i] = w[i]
  OBVIOUS
<1>2. b \in Seq(S)
  OBVIOUS
<1>3. Begins(a, w)
  <2> HIDE DEF a
  <2> QED
    BY <1>1 DEF Begins
<1>4. a \o b = SubSeq(w, 1, Len(w))
  <2>1. 1 \in 1..(Len(w) + 1) /\ n \in (1 - 1)..Len(w) /\ Len(w) \in n..Len(w)
    BY <1>1
  <2> QED
    BY <2>1, ConcatAdjacentSubSeq
<1> QED
  BY <1>1, <1>2, <1>3, <1>4, SubSeqFull

LEMMA FlattenBegins ==
  ASSUME NEW S, NEW s \in Seq(Seq(S)), NEW t \in Seq(Seq(S)), Begins(s, t)
  PROVE  Begins(FlattenSeq(s), FlattenSeq(t))
<1>1. Len(s) \in Nat /\ Len(t) \in Nat /\ Len(s) <= Len(t)
  BY DEF Begins
<1>2. FlattenSeq(s) \in Seq(S) /\ FlattenSeq(t) \in Seq(S)
  BY FlattenType
<1>3. CASE Len(s) = 0
  <2>1. Len(FlattenSeq(s)) = 0 /\ Len(FlattenSeq(t)) \in Nat
    BY <1>1, <1>2, <1>3, FlattenIs
  <2> QED
    BY <2>1 DEF Begins
<1>4. CASE Len(s) # 0
  <2>1. PICK f : Flattens(f, s) /\ FlattenSeq(s) = f[Len(s)]
    BY <1>1, <1>4, FlattenIs
  <2>2. PICK g : Flattens(g, t) /\ FlattenSeq(t) = g[Len(t)]
    BY <1>1, <1>4, FlattenIs
  <2>3. f[Len(s)] = g[Len(s)]
    <3>1. Len(s) \in 1..Len(s)
      BY <1>1, <1>4
    <3> QED
      BY <1>1, <2>1, <2>2, <3>1, FlattenAgree
  <2> DEFINE bad == {n \in Len(s)..Len(t) : ~Begins(FlattenSeq(s), g[n])}
  <2>4. bad = {}
    <3>1. SUFFICES ASSUME bad # {} PROVE FALSE
      OBVIOUS
    <3>2. PICK m \in bad : \A n \in bad : m <= n
      <4>1. bad \subseteq Nat
        BY <1>1
      <4> HIDE DEF bad
      <4> QED
        BY <3>1, <4>1, LeastNatural
    <3>3. m \in Len(s)..Len(t) /\ m \in 1..Len(t) /\ m \in Nat /\ ~Begins(FlattenSeq(s), g[m])
      BY <1>1, <1>4, <3>2
    <3>4. m # Len(s)
      <4>1. Len(FlattenSeq(s)) \in Nat
        BY <1>2
      <4>2. Begins(FlattenSeq(s), FlattenSeq(s))
        BY <4>1 DEF Begins
      <4> QED
        BY <2>1, <2>3, <3>3, <4>2
    <3>5. m - 1 \in Len(s)..Len(t) /\ m - 1 \in 1..Len(t) /\ m # 1 /\ ~(m <= m - 1)
      <4> HIDE DEF bad
      <4> QED
        BY <1>1, <1>4, <3>3, <3>4
    <3>6. m - 1 \notin bad
      <4> HIDE DEF bad
      <4> QED
        BY <3>2, <3>5
    <3>7. Begins(FlattenSeq(s), g[m - 1])
      BY <3>5, <3>6
    <3>8. g[m] = g[m - 1] \o t[m]
      BY <1>1, <2>2, <3>3, <3>5, FlattenStep
    <3>9. g[m - 1] \in Seq(S) /\ t[m] \in Seq(S)
      BY <2>2, <3>3, <3>5, FlattenParts
    <3>10. Begins(FlattenSeq(s), g[m - 1] \o t[m])
      BY <1>2, <3>7, <3>9, BeginsConcat
    <3> QED
      BY <3>3, <3>8, <3>10
  <2>5. Len(t) \in Len(s)..Len(t)
    BY <1>1
  <2> QED
    BY <2>2, <2>4, <2>5
<1> QED
  BY <1>3, <1>4
-----------------------------------------------------------------------------
(* Numbers and their two bytes.                                            *)

LEMMA PacketSize ==
  ASSUME NEW p \in Packets
  PROVE  p \in Seq(Bytes) /\ Len(p) \in 1..BufSize /\ Len(p) \in Nat \ {0}
BY PacketAssumption

LEMMA TwoBytes ==
  ASSUME NEW n \in 0..BufSize
  PROVE  /\ Header(n) \in Seq(Bytes) /\ Len(Header(n)) = 2
         /\ Header(n)[1] * Base + Header(n)[2] = n
<1> DEFINE q == n \div Base
           m == n % Base
<1>1. Base \in Nat /\ Base > 0 /\ n \in Nat /\ BufSize < Base * Base
  BY PacketAssumption
<1>2. q \in Nat /\ m \in 0..(Base - 1) /\ n = Base * q + m
  BY <1>1
<1>3. q < Base
  <2>1. SUFFICES ASSUME q >= Base PROVE FALSE
    BY <1>1, <1>2
  <2> HIDE DEF q, m
  <2>2. Base * q >= Base * Base
    <3>1. PICK d \in Nat : q = Base + d
      <4>1. q - Base \in Nat /\ q = Base + (q - Base)
        BY <1>1, <1>2, <2>1
      <4> QED
        BY <4>1
    <3>2. Base * q = Base * Base + Base * d
      BY <1>1, <3>1
    <3>3. Base * d \in Nat /\ Base * Base \in Nat
      BY <1>1
    <3> QED
      BY <3>2, <3>3
  <2>3. n >= Base * q /\ Base * q \in Nat /\ Base * Base \in Nat /\ n < Base * Base
    <3>1. Base * q \in Nat /\ Base * Base \in Nat
      BY <1>1, <1>2
    <3>2. n >= Base * q
      BY <1>1, <1>2, <3>1
    <3>3. BufSize \in Nat /\ n <= BufSize
      BY <1>1, PacketAssumption
    <3>4. n < Base * Base
      <4> DEFINE square == Base * Base
      <4>1. square \in Nat /\ BufSize < square
        BY <1>1, <3>1
      <4> HIDE DEF square
      <4>2. n < square
        BY <1>1, <3>3, <4>1
      <4> QED
        BY <4>2 DEF square
    <3> QED
      BY <3>1, <3>2, <3>4
  <2> QED
    <3> DEFINE square == Base * Base
               product == Base * q
    <3>1. n >= product /\ product >= square /\ n < square
      BY <2>2, <2>3
    <3>2. product \in Nat /\ square \in Nat
      BY <2>3
    <3> HIDE DEF square, product
    <3> QED
      BY <1>1, <3>1, <3>2
<1>4. Header(n) = <<q, m>>
  BY DEF Header
<1> HIDE DEF q, m
<1>5. q \in Bytes /\ m \in Bytes
  BY <1>1, <1>2, <1>3 DEF Bytes
<1>6. q * Base + m = n
  BY <1>1, <1>2
<1> QED
  BY <1>4, <1>5, <1>6
-----------------------------------------------------------------------------
(* What a stream of bytes holds, when it is cut, consumed and added to.    *)

LEMMA CutShort ==
  ASSUME NEW w \in Seq(Bytes), NEW n \in 0..Len(w), NEW o \in Int, NEW p \in Packets,
         Holds(o, w, p)
  PROVE  Holds(o, SubSeq(w, 1, n), p)
<1>1. Len(SubSeq(w, 1, n)) = n /\ \A i \in 1..n : SubSeq(w, 1, n)[i] = w[i]
  OBVIOUS
<1>2. Len(w) \in Nat /\ n \in Nat /\ n <= Len(w) /\ Len(p) \in Nat
  BY PacketSize
<1> DEFINE head == SubSeq(w, 1, n)
<1> HIDE DEF head
<1>3. ASSUME NEW i \in 1..2, o + i \in 1..Len(head)
      PROVE  head[o + i] = Header(Len(p))[i]
  BY <1>1, <1>2, <1>3 DEF Holds, head
<1>4. ASSUME NEW j \in 1..Len(p), o + 2 + j \in 1..Len(head)
      PROVE  head[o + 2 + j] = p[j]
  BY <1>1, <1>2, <1>4 DEF Holds, head
<1> QED
  BY <1>3, <1>4 DEF Holds, head

LEMMA Consumed ==
  ASSUME NEW w \in Seq(Bytes), NEW n \in 0..Len(w), NEW o \in Int, NEW p \in Packets,
         Holds(o, w, p)
  PROVE  Holds(o - n, SubSeq(w, n + 1, Len(w)), p)
<1> DEFINE rest == SubSeq(w, n + 1, Len(w))
<1>1. Len(rest) = Len(w) - n /\ \A i \in 1..(Len(w) - n) : rest[i] = w[i + n]
  OBVIOUS
<1>2. Len(w) \in Nat /\ n \in Nat /\ n <= Len(w) /\ Len(p) \in Nat
  BY PacketSize
<1> HIDE DEF rest
<1>3. ASSUME NEW i \in 1..2, (o - n) + i \in 1..Len(rest)
      PROVE  rest[(o - n) + i] = Header(Len(p))[i]
  <2>1. ((o - n) + i) + n = o + i /\ o + i \in 1..Len(w)
    BY <1>1, <1>2, <1>3
  <2> QED
    BY <1>1, <1>2, <1>3, <2>1 DEF Holds
<1>4. ASSUME NEW j \in 1..Len(p), (o - n) + 2 + j \in 1..Len(rest)
      PROVE  rest[(o - n) + 2 + j] = p[j]
  <2>1. ((o - n) + 2 + j) + n = o + 2 + j /\ o + 2 + j \in 1..Len(w)
    BY <1>1, <1>2, <1>4
  <2> QED
    BY <1>1, <1>2, <1>4, <2>1 DEF Holds
<1> QED
  BY <1>3, <1>4 DEF Holds, rest

LEMMA Rest ==
  ASSUME NEW w \in Seq(Bytes), NEW n \in 0..Len(w)
  PROVE  SubSeq(w, n + 1, Len(w)) \in Seq(Bytes) /\ Len(SubSeq(w, n + 1, Len(w))) = Len(w) - n
OBVIOUS

LEMMA Added ==
  ASSUME NEW w \in Seq(Bytes), NEW x \in Seq(Bytes)
  PROVE  /\ Len(w \o x) = Len(w) + Len(x)
         /\ Len(w) \in Nat /\ Len(x) \in Nat
         /\ \A i \in 1..Len(w) : (w \o x)[i] = w[i]
         /\ \A j \in 1..Len(x) : (w \o x)[Len(w) + j] = x[j]
OBVIOUS

\* A frame that ends where w does keeps its bytes when more are added.
LEMMA AddedBehind ==
  ASSUME NEW w \in Seq(Bytes), NEW x \in Seq(Bytes), NEW o \in Int, NEW p \in Packets,
         Holds(o, w, p), o + 2 + Len(p) <= Len(w)
  PROVE  Holds(o, w \o x, p)
<1>1. Len(p) \in Nat
  BY PacketSize
<1> QED
  BY <1>1, Added DEF Holds

LEMMA AddedHeader ==
  ASSUME NEW w \in Seq(Bytes), NEW p \in Packets
  PROVE  Holds(Len(w), w \o Header(Len(p)), p)
<1>1. Header(Len(p)) \in Seq(Bytes) /\ Len(Header(Len(p))) = 2
  BY TwoBytes, PacketSize, PacketAssumption
<1> DEFINE h == Header(Len(p))
<1> HIDE DEF h
<1>2. /\ Len(w \o h) = Len(w) + 2
      /\ \A i \in 1..2 : (w \o h)[Len(w) + i] = h[i]
  <2>1. h \in Seq(Bytes) /\ Len(h) = 2
    BY <1>1 DEF h
  <2> QED
    BY <2>1, Added
<1> QED
  BY <1>2, PacketSize DEF Holds, h

LEMMA AddedPayload ==
  ASSUME NEW w \in Seq(Bytes), NEW p \in Packets, NEW o \in Int,
         Holds(o, w, p), o + 2 = Len(w)
  PROVE  Holds(o, w \o p, p)
<1>1. p \in Seq(Bytes) /\ Len(p) \in Nat /\ Len(w) \in Nat
  BY PacketSize
<1>2. /\ Len(w \o p) = Len(w) + Len(p)
      /\ \A i \in 1..Len(w) : (w \o p)[i] = w[i]
      /\ \A j \in 1..Len(p) : (w \o p)[Len(w) + j] = p[j]
  BY <1>1, Added
<1>3. \A i \in 1..2 : o + i \in 1..Len(w \o p) => (w \o p)[o + i] = Header(Len(p))[i]
  BY <1>1, <1>2 DEF Holds
<1>4. \A j \in 1..Len(p) : (w \o p)[o + 2 + j] = p[j]
  BY <1>1, <1>2
<1> QED
  BY <1>3, <1>4 DEF Holds
-----------------------------------------------------------------------------
(* The frames, when a packet is added, bytes are consumed, a frame is done. *)

LEMMA Extended ==
  ASSUME NEW off \in Offsets, NEW s \in Seq(Packets), NEW p \in Packets, NEW w \in Seq(Bytes),
         NEW r \in 0..Len(s),
         Consecutive(off, s, r), Laid(off, w, s, r), Len(w) <= off[Len(s) + 1]
  PROVE  \E new \in Offsets :
           /\ Consecutive(new, Append(s, p), r)
           /\ Laid(new, w, Append(s, p), r)
           /\ new[r + 1] = off[r + 1]
           /\ new[Len(s) + 2] = off[Len(s) + 1] + 2 + Len(p)
<1> DEFINE m == Len(s)
           t == Append(s, p)
           new == [off EXCEPT ![m + 2] = off[m + 1] + 2 + Len(p)]
<1>1. m \in Nat /\ r \in Nat /\ r <= m /\ Len(p) \in Nat \ {0} /\ Len(w) \in Nat
  BY PacketSize
<1>2. Len(t) = m + 1 /\ t[m + 1] = p /\ \A k \in 1..m : t[k] = s[k] /\ t[k] \in Packets
  OBVIOUS
<1>3. new \in Offsets /\ \A k \in 1..(m + 1) : new[k] = off[k] /\ off[k] \in Int
  <2>1. off[m + 1] + 2 + Len(p) \in Int
    BY <1>1 DEF Offsets
  <2>2. \A k \in 1..(m + 1) : k \in Nat /\ k # m + 2
    BY <1>1
  <2> QED
    BY <2>1, <2>2 DEF Offsets
<1>4. new[m + 2] = off[m + 1] + 2 + Len(p)
  BY <1>1 DEF Offsets
<1> HIDE DEF m, t, new
<1>5. Consecutive(new, t, r)
  <2>1. ASSUME NEW k \in (r + 1)..(m + 1)
        PROVE  /\ new[k + 1] = new[k] + 2 + Len(t[k])
               /\ \A l \in (k + 1)..(m + 2) : new[k + 1] <= new[l]
    <3>1. CASE k = m + 1
      BY <1>1, <1>2, <1>3, <1>4, <3>1
    <3>2. CASE k <= m
      <4>1. k \in (r + 1)..m /\ k \in 1..m /\ k + 1 \in 1..(m + 1)
        BY <1>1, <3>2
      <4>2. /\ off[k + 1] = off[k] + 2 + Len(s[k])
            /\ \A l \in (k + 1)..(m + 1) : off[k + 1] <= off[l]
        BY <4>1 DEF Consecutive, m
      <4>3. new[k + 1] = new[k] + 2 + Len(t[k])
        BY <1>1, <1>2, <1>3, <4>1, <4>2
      <4>4. ASSUME NEW l \in (k + 1)..(m + 2) PROVE new[k + 1] <= new[l]
        <5>1. new[k + 1] = off[k + 1] /\ off[k + 1] \in Int
          BY <1>3, <4>1
        <5>2. CASE l = m + 2
          <6>1. m + 1 \in (k + 1)..(m + 1) /\ m + 1 \in 1..(m + 1)
            BY <1>1, <4>1
          <6>2. off[k + 1] <= off[m + 1] /\ off[m + 1] \in Int
            BY <1>3, <4>2, <6>1
          <6>3. new[l] = off[m + 1] + 2 + Len(p)
            BY <1>4, <5>2
          <6> QED
            BY <1>1, <5>1, <6>2, <6>3
        <5>3. CASE l <= m + 1
          <6>1. l \in (k + 1)..(m + 1) /\ l \in 1..(m + 1)
            BY <1>1, <4>1, <5>3
          <6> QED
            BY <1>3, <4>2, <5>1, <6>1
        <5> QED
          BY <1>1, <5>2, <5>3
      <4> QED
        BY <4>3, <4>4
    <3> QED
      BY <1>1, <3>1, <3>2
  <2> QED
    <3>1. (m + 1) + 1 = m + 2
      BY <1>1
    <3> QED
      BY <1>2, <2>1, <3>1 DEF Consecutive
<1>6. Laid(new, w, t, r)
  <2>1. ASSUME NEW k \in (r + 1)..(m + 1) PROVE Holds(new[k], w, t[k])
    <3>1. CASE k = m + 1
      <4>1. new[k] = off[m + 1] /\ off[m + 1] \in Int /\ t[k] = p /\ Len(w) <= off[m + 1]
        BY <1>1, <1>2, <1>3, <3>1 DEF m
      <4> QED
        BY <1>1, <4>1 DEF Holds
    <3>2. CASE k <= m
      <4>1. k \in (r + 1)..m /\ k \in 1..m /\ k \in 1..(m + 1)
        BY <1>1, <3>2
      <4>2. new[k] = off[k] /\ t[k] = s[k]
        BY <1>2, <1>3, <4>1
      <4> QED
        BY <4>1, <4>2 DEF Laid, m
    <3> QED
      BY <1>1, <3>1, <3>2
  <2> QED
    BY <1>2, <2>1 DEF Laid
<1>7. new[r + 1] = off[r + 1]
  BY <1>1, <1>3
<1> QED
  BY <1>3, <1>4, <1>5, <1>6, <1>7 DEF m, t

LEMMA Shifted ==
  ASSUME NEW off \in Offsets, NEW s \in Seq(Packets), NEW w \in Seq(Bytes),
         NEW r \in 0..Len(s), NEW n \in 0..Len(w),
         Consecutive(off, s, r), Laid(off, w, s, r)
  PROVE  \E new \in Offsets :
           /\ Consecutive(new, s, r)
           /\ Laid(new, SubSeq(w, n + 1, Len(w)), s, r)
           /\ \A k \in Nat : new[k] = off[k] - n
<1> DEFINE new == [k \in Nat |-> off[k] - n]
<1>1. n \in Nat /\ r \in Nat /\ Len(s) \in Nat
  OBVIOUS
<1>2. new \in Offsets /\ \A k \in Nat : new[k] = off[k] - n /\ off[k] \in Int
  BY <1>1 DEF Offsets
<1> HIDE DEF new
<1>3. Consecutive(new, s, r)
  <2>1. ASSUME NEW k \in (r + 1)..Len(s)
        PROVE  /\ new[k + 1] = new[k] + 2 + Len(s[k])
               /\ \A l \in (k + 1)..(Len(s) + 1) : new[k + 1] <= new[l]
    <3>1. k \in Nat /\ k + 1 \in Nat /\ s[k] \in Packets
      BY <1>1
    <3>2. Len(s[k]) \in Nat
      BY <3>1, PacketSize
    <3>3. /\ off[k + 1] = off[k] + 2 + Len(s[k])
          /\ \A l \in (k + 1)..(Len(s) + 1) : off[k + 1] <= off[l]
      BY DEF Consecutive
    <3>4. /\ new[k] = off[k] - n /\ off[k] \in Int
          /\ new[k + 1] = off[k + 1] - n /\ off[k + 1] \in Int
      BY <1>2, <3>1
    <3>5. new[k + 1] = new[k] + 2 + Len(s[k])
      <4> DEFINE a == off[k]
                 b == off[k + 1]
                 d == Len(s[k])
      <4>1. a \in Int /\ d \in Nat /\ b = a + 2 + d
        BY <3>2, <3>3, <3>4
      <4> HIDE DEF a, b, d
      <4>2. b - n = (a - n) + 2 + d
        BY <1>1, <4>1
      <4> QED
        BY <3>4, <4>2 DEF a, b, d
    <3>6. ASSUME NEW l \in (k + 1)..(Len(s) + 1) PROVE new[k + 1] <= new[l]
      <4>1. l \in Nat
        BY <1>1, <3>1
      <4>2. new[l] = off[l] - n /\ off[l] \in Int /\ off[k + 1] <= off[l]
        BY <1>2, <3>3, <4>1
      <4> QED
        BY <1>1, <3>4, <4>2
    <3> QED
      BY <3>5, <3>6
  <2> QED
    BY <2>1 DEF Consecutive
<1>4. Laid(new, SubSeq(w, n + 1, Len(w)), s, r)
  <2>1. ASSUME NEW k \in (r + 1)..Len(s)
        PROVE  Holds(new[k], SubSeq(w, n + 1, Len(w)), s[k])
    <3>1. k \in Nat /\ s[k] \in Packets
      BY <1>1
    <3>2. off[k] \in Int /\ new[k] = off[k] - n /\ Holds(off[k], w, s[k])
      BY <1>2, <3>1 DEF Laid
    <3>3. Holds(off[k] - n, SubSeq(w, n + 1, Len(w)), s[k])
      BY <3>1, <3>2, Consumed
    <3> QED
      BY <3>2, <3>3
  <2> QED
    BY <2>1 DEF Laid
<1> QED
  BY <1>2, <1>3, <1>4

LEMMA FrameDone ==
  ASSUME NEW off \in Offsets, NEW s \in Seq(Packets), NEW w \in Seq(Bytes),
         NEW r \in 0..Len(s), Consecutive(off, s, r), Laid(off, w, s, r)
  PROVE  Consecutive(off, s, r + 1) /\ Laid(off, w, s, r + 1)
<1>1. \A k \in ((r + 1) + 1)..Len(s) : k \in (r + 1)..Len(s)
  OBVIOUS
<1> QED
  BY <1>1 DEF Consecutive, Laid

LEMMA Truncated ==
  ASSUME NEW off \in Offsets, NEW s \in Seq(Packets), NEW w \in Seq(Bytes),
         NEW r \in 0..Len(s), NEW n \in 0..Len(w), Laid(off, w, s, r)
  PROVE  Laid(off, SubSeq(w, 1, n), s, r)
<1>1. ASSUME NEW k \in (r + 1)..Len(s) PROVE Holds(off[k], SubSeq(w, 1, n), s[k])
  <2>1. k \in Nat /\ s[k] \in Packets /\ off[k] \in Int
    BY DEF Offsets
  <2> QED
    BY <2>1, CutShort DEF Laid
<1> QED
  BY <1>1 DEF Laid
-----------------------------------------------------------------------------
(* The steps.                                                              *)

\* The bytes of a Write go where the frame of the last packet has them, and
\* after a header there is the packet to come.
LEMMA Written ==
  ASSUME TypeOK, Modes, NEW off \in Offsets, Framing(off), inn # "failed", ~cut,
         Len(received) <= Len(sent), out \in {"header", "payload"}
  PROVE  /\ Writing \in Seq(Bytes)
         /\ Laid(off, wire \o Writing, sent, Len(received))
         /\ Len(wire \o Writing)
              = off[Len(sent) + 1] - (IF out = "header" THEN Len(Last(sent)) ELSE 0)
<1> DEFINE m == Len(sent)
           r == Len(received)
           p == sent[m]
<1>1. m \in Nat \ {0} /\ r \in 0..m /\ p \in Packets /\ Last(sent) = p
  BY DEF TypeOK, Modes, Last
<1>2. p \in Seq(Bytes) /\ Len(p) \in Nat \ {0} /\ Len(wire) \in Nat /\ wire \in Seq(Bytes)
  BY <1>1, PacketSize DEF TypeOK
<1>3. /\ Header(Len(p)) \in Seq(Bytes) /\ Len(Header(Len(p))) = 2
  BY <1>1, PacketSize, PacketAssumption, TwoBytes
<1>4. off[m] \in Int /\ off[m + 1] \in Int
  BY <1>1 DEF Offsets
<1>5. Len(wire) = off[m + 1] - Pending /\ Consecutive(off, sent, r) /\ Laid(off, wire, sent, r)
  BY DEF Framing
<1>6. Pending \in Nat \ {0}
  BY <1>1, <1>2 DEF Pending
<1>7. r < m
  <2>1. SUFFICES ASSUME r = m PROVE FALSE
    BY <1>1
  <2>2. off[m + 1] <= 0
    BY <2>1 DEF Framing
  <2> QED
    BY <1>2, <1>4, <1>5, <1>6, <2>2
<1>8. off[m + 1] = off[m] + 2 + Len(p)
  BY <1>1, <1>5, <1>7 DEF Consecutive
<1>9. off[m] <= Len(wire)
  BY <1>1, <1>2, <1>4, <1>5, <1>8 DEF Pending
<1>10. Writing \in Seq(Bytes)
  BY <1>1, <1>2, <1>3 DEF Writing
<1>11. ASSUME NEW k \in (r + 1)..m, k # m PROVE Holds(off[k], wire \o Writing, sent[k])
  <2>1. k \in Nat /\ k \in (r + 1)..m /\ m \in (k + 1)..(m + 1) /\ sent[k] \in Packets
    BY <1>1, <1>11 DEF TypeOK
  <2>2. Len(sent[k]) \in Nat /\ off[k] \in Int /\ off[k + 1] \in Int
    BY <2>1, PacketSize DEF Offsets
  <2>3. off[k + 1] = off[k] + 2 + Len(sent[k]) /\ off[k + 1] <= off[m]
    BY <1>5, <2>1 DEF Consecutive
  <2>4. off[k] + 2 + Len(sent[k]) <= Len(wire)
    BY <1>2, <1>4, <1>9, <2>2, <2>3
  <2>5. Holds(off[k], wire, sent[k])
    BY <1>5 DEF Laid
  <2> QED
    BY <1>2, <1>10, <2>1, <2>2, <2>4, <2>5, AddedBehind
<1>12. CASE out = "header"
  <2>1. Writing = Header(Len(p)) /\ Len(wire) = off[m]
    BY <1>1, <1>2, <1>4, <1>5, <1>8, <1>12 DEF Writing, Pending
  <2>2. Holds(off[m], wire \o Writing, sent[m])
    BY <1>1, <1>2, <2>1, AddedHeader
  <2>3. Len(wire \o Writing) = off[m + 1] - Len(p)
    <3>1. Len(wire \o Writing) = Len(wire) + 2
      <4> DEFINE h == Header(Len(p))
      <4>1. h \in Seq(Bytes) /\ Len(h) = 2 /\ Writing = h
        BY <1>3, <2>1
      <4> HIDE DEF h
      <4>2. Len(wire \o h) = Len(wire) + Len(h)
        BY <1>2, <4>1, Added
      <4> QED
        BY <4>1, <4>2
    <3> QED
      BY <1>2, <1>4, <1>8, <2>1, <3>1
  <2> QED
    BY <1>1, <1>10, <1>11, <1>12, <2>2, <2>3 DEF Laid
<1>13. CASE out = "payload"
  <2>1. Writing = p /\ off[m] + 2 = Len(wire)
    BY <1>1, <1>2, <1>4, <1>5, <1>8, <1>13 DEF Writing, Pending
  <2>2. Holds(off[m], wire, p)
    BY <1>1, <1>5, <1>7 DEF Laid
  <2>3. Holds(off[m], wire \o Writing, sent[m])
    BY <1>1, <1>2, <1>4, <2>1, <2>2, AddedPayload
  <2>4. Len(wire \o Writing) = off[m + 1]
    <3> DEFINE x == off[m]
               y == off[m + 1]
    <3>1. x \in Int /\ y = x + 2 + Len(p) /\ x + 2 = Len(wire)
      BY <1>4, <1>8, <2>1
    <3> HIDE DEF m, p, x, y
    <3>2. Len(wire \o p) = Len(wire) + Len(p)
      BY <1>2, Added
    <3>3. Len(wire \o p) = y
      BY <1>2, <3>1, <3>2
    <3> QED
      BY <2>1, <3>3 DEF y
  <2> QED
    BY <1>4, <1>10, <1>11, <1>13, <2>3, <2>4 DEF Laid
<1> QED
  BY <1>12, <1>13

LEMMA TunReadInv == PacketInv /\ TunRead => PacketInv'
<1> SUFFICES ASSUME PacketInv, TunRead PROVE PacketInv'
  OBVIOUS
<1>1. PICK p \in Packets : sent' = Append(sent, p)
  BY DEF TunRead
<1>2. /\ TypeOK /\ Modes /\ FailsOnlyWhenCut /\ Delivered /\ Framed /\ out = "tunRead"
      /\ out' = (IF transport = "tcp" THEN "header" ELSE "payload")
      /\ UNCHANGED <<transport, wire, cut, tunDown, inn, need, received>>
  BY DEF PacketInv, TunRead
<1> DEFINE m == Len(sent)
           r == Len(received)
<1>3. /\ sent' \in Seq(Packets) /\ Len(sent') = m + 1 /\ sent'[m + 1] = p
      /\ \A k \in 1..m : sent'[k] = sent[k]
      /\ m \in Nat /\ r \in Nat
  BY <1>1, <1>2 DEF TypeOK
<1>4. TypeOK'
  BY <1>2, <1>3 DEF TypeOK
<1>5. Modes' /\ FailsOnlyWhenCut'
  <2>1. sent' # <<>>
    BY <1>3
  <2> QED
    BY <1>2, <2>1 DEF Modes, FailsOnlyWhenCut
<1>6. Delivered'
  BY <1>2, <1>3 DEF Delivered
<1>7. ASSUME transport = "tcp", inn # "failed" PROVE \E off \in Offsets : Framing(off)'
  <2>1. PICK off \in Offsets : Framing(off)
    BY <1>2, <1>7 DEF Framed
  <2>2. r \in 0..m /\ wire \in Seq(Bytes) /\ Len(wire) \in Nat /\ Len(p) \in Nat
    BY <1>2, <1>3, <1>7, PacketSize DEF Delivered, TypeOK
  <2>3. PICK new \in Offsets :
          /\ Consecutive(new, Append(sent, p), r)
          /\ Laid(new, wire, Append(sent, p), r)
          /\ new[r + 1] = off[r + 1]
          /\ new[m + 2] = off[m + 1] + 2 + Len(p)
    <3>1. Consecutive(off, sent, r) /\ Laid(off, wire, sent, r) /\ Len(wire) <= off[m + 1]
      BY <2>1 DEF Framing
    <3> QED
      BY <1>2, <2>2, <3>1, Extended DEF TypeOK
  <2>4. off[m + 1] \in Int /\ (m + 1) + 1 = m + 2
    BY <1>3 DEF Offsets
  <2>5. inn' = "body" => r < Len(sent') /\ need' = Len(sent'[r + 1])
    <3>1. inn = "body" => r < m /\ need = Len(sent[r + 1])
      BY <2>1 DEF Framing
    <3>2. r < m => r + 1 \in 1..m
      BY <1>3
    <3> QED
      BY <1>2, <1>3, <3>1, <3>2
  <2>6. Pending = 0 /\ Pending' = 2 + Len(p)
    BY <1>2, <1>3, <1>7 DEF Pending, Last
  <2>7. Len(wire) <= new[m + 2] /\ (~cut => Len(wire) = new[m + 2] - Pending')
    <3>1. Len(wire) <= off[m + 1] /\ (~cut => Len(wire) = off[m + 1] - Pending)
      BY <2>1 DEF Framing
    <3> QED
      BY <2>2, <2>3, <2>4, <2>6, <3>1
  <2>8. new[r + 1] = IF inn = "header" THEN 0 ELSE -2
    BY <2>1, <2>3 DEF Framing
  <2>9. Framing(new)'
    BY <1>1, <1>2, <1>3, <2>3, <2>4, <2>5, <2>7, <2>8 DEF Framing
  <2> QED
    BY <2>9
<1>8. Framed'
  BY <1>2, <1>7 DEF Framed
<1> QED
  BY <1>4, <1>5, <1>6, <1>8 DEF PacketInv

LEMMA WriteReturnsInv == PacketInv /\ WriteReturns => PacketInv'
<1> SUFFICES ASSUME PacketInv, WriteReturns PROVE PacketInv'
  OBVIOUS
<1>1. /\ TypeOK /\ Modes /\ FailsOnlyWhenCut /\ Delivered /\ Framed
      /\ out \in {"header", "payload"} /\ ~cut /\ wire' = wire \o Writing
      /\ out' = (IF out = "header" THEN "payload" ELSE "tunRead")
      /\ UNCHANGED <<transport, sent, cut, tunDown, inn, need, received>>
  BY DEF PacketInv, WriteReturns
<1>2. Writing \in Seq(Bytes)
  <2>1. sent # <<>> /\ Last(sent) \in Packets
    BY <1>1 DEF Modes, TypeOK, Last
  <2>2. Last(sent) \in Seq(Bytes) /\ Len(Last(sent)) \in 0..BufSize
    BY <2>1, PacketSize, PacketAssumption
  <2> QED
    BY <1>1, <2>2, TwoBytes DEF Writing
<1>3. wire' \in Seq(Bytes)
  BY <1>1, <1>2 DEF TypeOK
<1>4. TypeOK' /\ Modes' /\ FailsOnlyWhenCut' /\ Delivered'
  BY <1>1, <1>3 DEF TypeOK, Modes, FailsOnlyWhenCut, Delivered
<1>5. ASSUME transport = "tcp", inn # "failed" PROVE \E off \in Offsets : Framing(off)'
  <2>1. PICK off \in Offsets : Framing(off)
    BY <1>1, <1>5 DEF Framed
  <2> DEFINE m == Len(sent)
             rest == IF out = "header" THEN Len(Last(sent)) ELSE 0
  <2>2. /\ Laid(off, wire', sent, Len(received))
        /\ Len(wire') = off[m + 1] - rest
    BY <1>1, <1>5, <2>1, Written DEF Delivered
  <2>3. rest \in Nat /\ m \in Nat /\ off[m + 1] \in Int
    <3>1. sent # <<>> /\ Last(sent) \in Packets
      BY <1>1 DEF Modes, TypeOK, Last
    <3>2. Len(Last(sent)) \in Nat
      BY <3>1, PacketSize
    <3>3. m \in Nat
      BY <1>1 DEF TypeOK
    <3>4. off[m + 1] \in Int
      BY <3>3 DEF Offsets
    <3> QED
      BY <3>2, <3>3, <3>4
  <2>4. Pending' = rest
    BY <1>1 DEF Pending
  <2>5. Len(wire') <= off[m + 1]
    BY <2>2, <2>3
  <2>6. Framing(off)'
    BY <1>1, <2>1, <2>2, <2>4, <2>5 DEF Framing
  <2> QED
    BY <2>6
<1>6. Framed'
  BY <1>1, <1>5 DEF Framed
<1> QED
  BY <1>4, <1>6 DEF PacketInv

LEMMA WriteFailsInv == PacketInv /\ WriteFails => PacketInv'
<1> SUFFICES ASSUME PacketInv, WriteFails PROVE PacketInv'
  OBVIOUS
<1>1. TypeOK' /\ Modes' /\ FailsOnlyWhenCut' /\ Delivered'
  BY DEF PacketInv, WriteFails, TypeOK, Modes, FailsOnlyWhenCut, Delivered
<1>2. \A off \in Offsets : Framing(off) => Framing(off)'
  BY DEF WriteFails, Framing
<1>3. Framed'
  BY <1>2 DEF PacketInv, WriteFails, Framed
<1> QED
  BY <1>1, <1>3 DEF PacketInv

\* A TUN that goes away disturbs nothing that is under way.
LEMMA TunGoesInv == PacketInv /\ (TunReadFails \/ TunCloses) => PacketInv'
<1> SUFFICES ASSUME PacketInv, TunReadFails \/ TunCloses PROVE PacketInv'
  OBVIOUS
<1>1. /\ UNCHANGED <<transport, sent, wire, cut, inn, need, received>>
      /\ tunDown' \in BOOLEAN /\ (tunDown => tunDown')
      /\ out' = out \/ (out = "tunRead" /\ out' = "failed")
  BY DEF TunReadFails, TunCloses, PacketInv, TypeOK
<1>2. TypeOK' /\ Modes' /\ FailsOnlyWhenCut' /\ Delivered'
  BY <1>1 DEF PacketInv, TypeOK, Modes, FailsOnlyWhenCut, Delivered
<1>3. Pending' = Pending
  BY <1>1 DEF Pending
<1>4. \A off \in Offsets : Framing(off) => Framing(off)'
  BY <1>1, <1>3 DEF Framing
<1>5. Framed'
  BY <1>1, <1>4 DEF PacketInv, Framed
<1> QED
  BY <1>2, <1>5 DEF PacketInv

LEMMA CutInv == PacketInv /\ Cut => PacketInv'
<1> SUFFICES ASSUME PacketInv, Cut PROVE PacketInv'
  OBVIOUS
<1> DEFINE all == wire \o Writing
<1>1. /\ TypeOK /\ Modes /\ FailsOnlyWhenCut /\ Delivered /\ Framed /\ ~cut /\ cut'
      /\ UNCHANGED <<transport, out, sent, tunDown, inn, need, received>>
  BY DEF PacketInv, Cut
<1>2. PICK n \in 0..Len(all) : wire' = SubSeq(all, 1, n)
  BY DEF Cut
<1>3. Writing \in Seq(Bytes)
  <2>1. CASE out \in {"header", "payload"}
    <3>1. sent # <<>> /\ Last(sent) \in Packets
      BY <1>1, <2>1 DEF Modes, TypeOK, Last
    <3>2. Last(sent) \in Seq(Bytes) /\ Len(Last(sent)) \in 0..BufSize
      BY <3>1, PacketSize, PacketAssumption
    <3> QED
      BY <2>1, <3>2, TwoBytes DEF Writing
  <2>2. CASE out \notin {"header", "payload"}
    BY <2>2 DEF Writing
  <2> QED
    BY <2>1, <2>2
<1>4. all \in Seq(Bytes) /\ wire \in Seq(Bytes) /\ Len(all) = Len(wire) + Len(Writing)
  BY <1>1, <1>3 DEF TypeOK
<1> HIDE DEF all
<1>5. wire' \in Seq(Bytes) /\ Len(wire') = n
  BY <1>2, <1>4
<1>6. TypeOK' /\ Modes' /\ FailsOnlyWhenCut' /\ Delivered'
  BY <1>1, <1>5 DEF TypeOK, Modes, FailsOnlyWhenCut, Delivered
<1>7. ASSUME transport = "tcp", inn # "failed" PROVE \E off \in Offsets : Framing(off)'
  <2>1. PICK off \in Offsets : Framing(off)
    BY <1>1, <1>7 DEF Framed
  <2> DEFINE m == Len(sent)
  <2>2. m \in Nat /\ off[m + 1] \in Int
    BY <1>1 DEF TypeOK, Offsets
  <2>3. Laid(off, all, sent, Len(received)) /\ Len(all) <= off[m + 1]
    <3>1. CASE out \in {"header", "payload"}
      <4>1. /\ Laid(off, all, sent, Len(received))
            /\ Len(all) = off[m + 1] - (IF out = "header" THEN Len(Last(sent)) ELSE 0)
        BY <1>1, <1>7, <2>1, <3>1, Written DEF Delivered, all
      <4>2. Len(Last(sent)) \in Nat
        <5>1. Last(sent) \in Packets
          BY <1>1, <3>1 DEF Modes, TypeOK, Last
        <5> QED
          BY <5>1, PacketSize
      <4> QED
        BY <2>2, <4>1, <4>2
    <3>2. CASE out \notin {"header", "payload"}
      <4>1. all = wire
        BY <1>4, <3>2 DEF all, Writing
      <4> QED
        BY <2>1, <4>1 DEF Framing
    <3> QED
      BY <3>1, <3>2
  <2>4. Len(received) \in 0..m
    BY <1>1, <1>7 DEF Delivered, TypeOK
  <2>5. Laid(off, wire', sent, Len(received))
    BY <1>1, <1>2, <1>4, <2>3, <2>4, Truncated DEF TypeOK
  <2>6. Len(wire') <= off[m + 1]
    BY <1>4, <1>5, <2>2, <2>3
  <2>7. Framing(off)'
    BY <1>1, <2>1, <2>5, <2>6 DEF Framing
  <2> QED
    BY <2>7
<1>8. Framed'
  BY <1>1, <1>7 DEF Framed
<1> QED
  BY <1>6, <1>8 DEF PacketInv

\* The header that is read is that of the next packet, and so it is accepted.
LEMMA ReadHeaderInv == PacketInv /\ ReadHeader => PacketInv'
<1> SUFFICES ASSUME PacketInv, ReadHeader PROVE PacketInv'
  OBVIOUS
<1> DEFINE m == Len(sent)
           r == Len(received)
           p == sent[r + 1]
<1>1. /\ TypeOK /\ Modes /\ FailsOnlyWhenCut /\ Delivered /\ Framed
      /\ inn = "header" /\ Len(wire) >= 2 /\ need' = wire[1] * Base + wire[2]
      /\ inn' = (IF need' > BufSize THEN "failed" ELSE "body")
      /\ wire' = SubSeq(wire, 2 + 1, Len(wire))
      /\ UNCHANGED <<transport, out, sent, cut, tunDown, received>>
  BY DEF PacketInv, ReadHeader, DropFirst
<1>2. transport = "tcp"
  BY <1>1 DEF TypeOK, Modes
<1>3. PICK off \in Offsets : Framing(off)
  BY <1>1, <1>2 DEF Framed
<1>4. /\ m \in Nat /\ r \in 0..m /\ Len(wire) \in Nat /\ wire \in Seq(Bytes)
      /\ off[r + 1] = 0 /\ off[m + 1] \in Int
      /\ Consecutive(off, sent, r) /\ Laid(off, wire, sent, r) /\ Len(wire) <= off[m + 1]
      /\ (~cut => Len(wire) = off[m + 1] - Pending)
  <2>1. /\ m \in Nat /\ r \in Nat /\ r <= m /\ Len(wire) \in Nat /\ wire \in Seq(Bytes)
    BY <1>1, <1>2 DEF TypeOK, Delivered
  <2>2. off[m + 1] \in Int
    BY <2>1 DEF Offsets
  <2> QED
    BY <1>1, <1>3, <2>1, <2>2 DEF Framing
<1>5. r < m
  BY <1>1, <1>4
<1>6. p \in Packets /\ r + 1 \in (r + 1)..m
  BY <1>1, <1>4, <1>5 DEF TypeOK
<1>7. need' = Len(p) /\ Len(p) \in 0..BufSize
  <2>1. Len(p) \in 0..BufSize /\ Header(Len(p))[1] * Base + Header(Len(p))[2] = Len(p)
    BY <1>6, PacketSize, PacketAssumption, TwoBytes
  <2>2. Holds(0, wire, p)
    BY <1>4, <1>6 DEF Laid
  <2>3. wire[1] = Header(Len(p))[1] /\ wire[2] = Header(Len(p))[2]
    BY <1>1, <1>4, <2>2 DEF Holds
  <2> QED
    BY <1>1, <2>1, <2>3
<1>8. inn' = "body"
  <2>1. BufSize \in Nat /\ need' <= BufSize /\ need' \in Nat
    <3>1. Base * Base - 1 \in Int
      BY PacketAssumption
    <3>2. BufSize \in Nat
      BY <3>1, PacketAssumption
    <3> QED
      BY <1>7, <3>2
  <2>2. ~(need' > BufSize)
    BY <2>1
  <2> QED
    BY <1>1, <2>2
<1>9. wire' \in Seq(Bytes) /\ Len(wire') = Len(wire) - 2
  <2>1. 2 \in 0..Len(wire) /\ wire \in Seq(Bytes)
    BY <1>1, <1>4
  <2> QED
    BY <1>1, <2>1, Rest
<1>10. TypeOK' /\ Modes' /\ FailsOnlyWhenCut' /\ Delivered'
  BY <1>1, <1>2, <1>7, <1>8, <1>9 DEF TypeOK, Modes, FailsOnlyWhenCut, Delivered
<1>11. PICK new \in Offsets :
         /\ Consecutive(new, sent, r)
         /\ Laid(new, wire', sent, r)
         /\ \A k \in Nat : new[k] = off[k] - 2
  <2>1. 2 \in 0..Len(wire) /\ sent \in Seq(Packets)
    BY <1>1, <1>4 DEF TypeOK
  <2> QED
    BY <1>1, <1>4, <2>1, Shifted
<1>12. new[r + 1] = -2 /\ new[m + 1] = off[m + 1] - 2
  BY <1>4, <1>11
<1>13. Len(wire') <= new[m + 1] /\ (~cut => Len(wire') = new[m + 1] - Pending)
  <2>1. Pending \in Nat
    BY <1>1, PacketSize DEF Pending, TypeOK, Modes, Last
  <2> DEFINE end == off[m + 1]
             newEnd == new[m + 1]
  <2>2. /\ end \in Int /\ Len(wire) \in Nat /\ Len(wire) <= end
        /\ (~cut => Len(wire) = end - Pending)
    BY <1>4
  <2>3. Len(wire') = Len(wire) - 2 /\ newEnd = end - 2
    BY <1>9, <1>12
  <2> HIDE DEF end, newEnd
  <2>4. Len(wire') <= newEnd /\ (~cut => Len(wire') = newEnd - Pending)
    BY <2>1, <2>2, <2>3
  <2> QED
    BY <2>4 DEF newEnd
<1>14. Framing(new)'
  <2>1. Pending' = Pending
    BY <1>1 DEF Pending
  <2> QED
    BY <1>1, <1>5, <1>7, <1>8, <1>11, <1>12, <1>13, <2>1 DEF Framing
<1>15. Framed'
  BY <1>14 DEF Framed
<1> QED
  BY <1>10, <1>15 DEF PacketInv

\* What is read as the body of a frame is the next packet, whole.
LEMMA BodyIsPacket ==
  ASSUME PacketInv, ReadBody
  PROVE  /\ transport = "tcp" /\ Len(received) < Len(sent)
         /\ SubSeq(wire, 1, need) = sent[Len(received) + 1]
         /\ sent[Len(received) + 1] \in Packets
<1> DEFINE m == Len(sent)
           r == Len(received)
           p == sent[r + 1]
<1>1. TypeOK /\ Modes /\ Delivered /\ Framed /\ inn = "body" /\ Len(wire) >= need
  BY DEF PacketInv, ReadBody
<1>2. transport = "tcp"
  BY <1>1 DEF TypeOK, Modes
<1>3. PICK off \in Offsets : Framing(off)
  BY <1>1, <1>2 DEF Framed
<1>4. /\ m \in Nat /\ r \in 0..m /\ Len(wire) \in Nat /\ wire \in Seq(Bytes)
      /\ off[r + 1] = -2 /\ Laid(off, wire, sent, r) /\ r < m /\ need = Len(p)
  BY <1>1, <1>2, <1>3 DEF TypeOK, Delivered, Framing
<1>5. p \in Packets /\ r + 1 \in (r + 1)..m
  BY <1>1, <1>4 DEF TypeOK
<1>6. p \in Seq(Bytes) /\ Len(p) \in Nat
  BY <1>5, PacketSize
<1>7. \A j \in 1..Len(p) : wire[j] = p[j]
  <2>1. Holds(-2, wire, p)
    BY <1>4, <1>5 DEF Laid
  <2>2. ASSUME NEW j \in 1..Len(p) PROVE wire[j] = p[j]
    <3>1. -2 + 2 + j = j /\ j \in 1..Len(wire)
      BY <1>1, <1>4, <1>6
    <3> QED
      BY <2>1, <3>1 DEF Holds
  <2> QED
    BY <2>2
<1>8. SubSeq(wire, 1, need) = p
  <2> DEFINE body == SubSeq(wire, 1, need)
  <2>1. body \in Seq(Bytes) /\ Len(body) = Len(p) /\ \A j \in 1..Len(p) : body[j] = wire[j]
    BY <1>1, <1>4, <1>6
  <2> HIDE DEF body
  <2>2. \A j \in 1..Len(p) : body[j] = p[j]
    BY <1>7, <2>1
  <2>3. body = p
    BY <1>6, <2>1, <2>2
  <2> QED
    BY <2>3 DEF body
<1> QED
  BY <1>1, <1>2, <1>4, <1>5, <1>8

\* A packet is refused only by a TUN that is gone.
LEMMA BodyRefusedInv ==
  ASSUME PacketInv, ReadBody, inn' = "failed"
  PROVE  PacketInv' /\ UNCHANGED received
<1> DEFINE p == SubSeq(wire, 1, need)
<1>1. /\ TypeOK /\ Modes /\ Delivered /\ inn = "body" /\ Len(wire) >= need
      /\ wire' = SubSeq(wire, need + 1, Len(wire))
      /\ UNCHANGED <<transport, out, sent, cut, tunDown, need>>
  BY DEF PacketInv, ReadBody, DropFirst
<1>2. p \in Packets /\ transport = "tcp"
  BY BodyIsPacket
<1>3. tunDown /\ UNCHANGED received
  BY <1>2 DEF ReadBody, TunWrite
<1>4. wire' \in Seq(Bytes)
  <2>1. wire \in Seq(Bytes) /\ need \in 0..Len(wire)
    BY <1>1, PacketAssumption DEF TypeOK
  <2> QED
    BY <1>1, <2>1, Rest
<1> QED
  BY <1>1, <1>2, <1>3, <1>4 DEF PacketInv, TypeOK, Modes, FailsOnlyWhenCut, Delivered, Framed

LEMMA ReadBodyInv == PacketInv /\ ReadBody => PacketInv'
<1> SUFFICES ASSUME PacketInv, ReadBody, inn' # "failed" PROVE PacketInv'
  BY BodyRefusedInv
<1> DEFINE m == Len(sent)
           r == Len(received)
           p == sent[r + 1]
<1>1. /\ TypeOK /\ Modes /\ FailsOnlyWhenCut /\ Delivered /\ Framed
      /\ inn = "body" /\ Len(wire) >= need
      /\ wire' = SubSeq(wire, need + 1, Len(wire))
      /\ UNCHANGED <<transport, out, sent, cut, tunDown, need>>
  BY DEF PacketInv, ReadBody, DropFirst
<1>2. transport = "tcp" /\ r < m /\ received' = Append(received, p) /\ inn' = "header"
  BY BodyIsPacket DEF ReadBody, TunWrite
<1>3. PICK off \in Offsets : Framing(off)
  BY <1>1, <1>2 DEF Framed
<1>4. /\ m \in Nat /\ r \in Nat /\ r \in 0..m /\ r + 1 \in 0..m
      /\ Len(wire) \in Nat /\ wire \in Seq(Bytes) /\ sent \in Seq(Packets)
      /\ off[r + 1] = -2 /\ off[m + 1] \in Int /\ need = Len(p)
      /\ Consecutive(off, sent, r) /\ Laid(off, wire, sent, r) /\ Len(wire) <= off[m + 1]
      /\ (~cut => Len(wire) = off[m + 1] - Pending)
  <2>1. /\ m \in Nat /\ r \in Nat /\ r \in 0..m /\ r + 1 \in 0..m
        /\ Len(wire) \in Nat /\ wire \in Seq(Bytes) /\ sent \in Seq(Packets)
    BY <1>1, <1>2 DEF TypeOK
  <2>2. off[m + 1] \in Int
    BY <2>1 DEF Offsets
  <2>3. inn # "header"
    BY <1>1
  <2> QED
    BY <1>1, <1>3, <2>1, <2>2, <2>3 DEF Framing
<1>5. p \in Packets /\ p \in Seq(Bytes) /\ Len(p) \in Nat /\ need \in 0..Len(wire)
  <2>1. r + 1 \in 1..m
    BY <1>2, <1>4
  <2>2. p \in Packets
    BY <1>4, <2>1
  <2>3. p \in Seq(Bytes) /\ Len(p) \in Nat
    BY <2>2, PacketSize
  <2> QED
    BY <1>1, <1>4, <2>2, <2>3
<1>6. /\ received' \in Seq(Seq(Bytes)) /\ Len(received') = r + 1
      /\ received'[r + 1] = p /\ \A k \in 1..r : received'[k] = received[k]
  BY <1>1, <1>2, <1>5 DEF TypeOK
<1>7. wire' \in Seq(Bytes) /\ Len(wire') = Len(wire) - need
  <2>1. need \in 0..Len(wire) /\ wire \in Seq(Bytes)
    BY <1>4, <1>5
  <2> QED
    BY <1>1, <2>1, Rest
<1>8. TypeOK' /\ Modes' /\ FailsOnlyWhenCut'
  BY <1>1, <1>2, <1>6, <1>7 DEF TypeOK, Modes, FailsOnlyWhenCut
<1>9. Delivered'
  <2>1. ASSUME NEW k \in 1..(r + 1) PROVE received'[k] = sent[k]
    <3>1. CASE k = r + 1
      BY <1>6, <3>1
    <3>2. CASE k # r + 1
      BY <1>1, <1>2, <1>4, <1>6, <3>2 DEF Delivered
    <3> QED
      BY <3>1, <3>2
  <2> QED
    BY <1>1, <1>4, <1>6, <2>1 DEF Delivered
<1>10. PICK new \in Offsets :
         /\ Consecutive(new, sent, r)
         /\ Laid(new, wire', sent, r)
         /\ \A k \in Nat : new[k] = off[k] - need
  BY <1>1, <1>2, <1>4, <1>5, Shifted
<1>11. /\ new[r + 1] = -2 - need /\ new[m + 1] = off[m + 1] - need
  BY <1>4, <1>10
<1>12. new[(r + 1) + 1] = 0
  <2>1. r + 1 \in (r + 1)..m
    BY <1>2, <1>4
  <2>2. new[(r + 1) + 1] = new[r + 1] + 2 + Len(p)
    BY <1>10, <2>1 DEF Consecutive
  <2>3. new[r + 1] = -2 - need /\ need = Len(p) /\ Len(p) \in Nat
    BY <1>4, <1>5, <1>11
  <2> HIDE DEF r, p
  <2> QED
    BY <2>2, <2>3
<1>13. Consecutive(new, sent, r + 1) /\ Laid(new, wire', sent, r + 1)
  BY <1>4, <1>7, <1>10, FrameDone
<1>14. Len(wire') <= new[m + 1] /\ (~cut => Len(wire') = new[m + 1] - Pending)
  <2>1. Pending \in Nat
    BY <1>1, PacketSize DEF Pending, TypeOK, Modes, Last
  <2> DEFINE end == off[m + 1]
             newEnd == new[m + 1]
  <2>2. /\ end \in Int /\ Len(wire) \in Nat /\ Len(wire) <= end
        /\ (~cut => Len(wire) = end - Pending)
    BY <1>4
  <2>3. Len(wire') = Len(wire) - need /\ need \in Nat /\ newEnd = end - need
    BY <1>4, <1>5, <1>7, <1>11
  <2> HIDE DEF end, newEnd
  <2>4. Len(wire') <= newEnd /\ (~cut => Len(wire') = newEnd - Pending)
    BY <2>1, <2>2, <2>3
  <2> QED
    BY <2>4 DEF newEnd
<1>15. Framing(new)'
  <2>1. Pending' = Pending
    BY <1>1 DEF Pending
  <2> QED
    BY <1>1, <1>2, <1>6, <1>12, <1>13, <1>14, <2>1 DEF Framing
<1>16. Framed'
  BY <1>15 DEF Framed
<1> QED
  BY <1>8, <1>9, <1>16 DEF PacketInv

LEMMA ReadStreamInv == PacketInv /\ ReadStream => PacketInv'
<1> SUFFICES ASSUME PacketInv, ReadStream PROVE PacketInv'
  OBVIOUS
<1>1. /\ TypeOK /\ Modes /\ FailsOnlyWhenCut /\ inn = "stream" /\ transport = "quic"
      /\ UNCHANGED <<transport, out, sent, cut, tunDown, need>>
  BY DEF PacketInv, ReadStream, TypeOK, Modes
<1>2. PICK n \in 1..BufSize :
        /\ n <= Len(wire)
        /\ received' \in {received, Append(received, SubSeq(wire, 1, n))}
        /\ inn' \in {"stream", "failed"}
        /\ wire' = SubSeq(wire, n + 1, Len(wire))
  BY <1>1 DEF ReadStream, DropFirst, TunWrite
<1>3. wire \in Seq(Bytes) /\ n \in Nat /\ Len(wire) \in Nat
  BY <1>1, PacketAssumption DEF TypeOK
<1>4. SubSeq(wire, 1, n) \in Seq(Bytes) /\ wire' \in Seq(Bytes)
  BY <1>2, <1>3
<1>5. received' \in Seq(Seq(Bytes))
  <2> DEFINE a == SubSeq(wire, 1, n)
  <2>1. received \in Seq(Seq(Bytes)) /\ a \in Seq(Bytes)
    BY <1>1, <1>4 DEF TypeOK
  <2>2. received' = received \/ received' = Append(received, a)
    BY <1>2
  <2> HIDE DEF a
  <2>3. Append(received, a) \in Seq(Seq(Bytes))
    BY <2>1, AppendProperties
  <2> QED
    BY <2>1, <2>2, <2>3
<1> QED
  BY <1>1, <1>2, <1>4, <1>5
     DEF PacketInv, TypeOK, Modes, FailsOnlyWhenCut, Delivered, Framed

LEMMA ReadFailsInv == PacketInv /\ ReadFails => PacketInv'
<1> SUFFICES ASSUME PacketInv, ReadFails PROVE PacketInv'
  OBVIOUS
<1>1. /\ TypeOK /\ Modes /\ Delivered /\ cut /\ inn' = "failed"
      /\ UNCHANGED <<transport, out, sent, wire, cut, tunDown, need, received>>
  BY DEF PacketInv, ReadFails
<1> QED
  BY <1>1 DEF PacketInv, TypeOK, Modes, FailsOnlyWhenCut, Delivered, Framed

LEMMA InitInv == Init => PacketInv
<1> SUFFICES ASSUME Init PROVE PacketInv
  OBVIOUS
<1>1. TypeOK
  <2>1. 0 \in 0..BufSize
    <3>1. Base * Base - 1 \in Int
      BY PacketAssumption
    <3> QED
      BY <3>1, PacketAssumption
  <2>2. \A S : <<>> \in Seq(S)
    OBVIOUS
  <2> QED
    BY <2>1, <2>2 DEF Init, TypeOK
<1>2. Modes /\ FailsOnlyWhenCut /\ Delivered
  BY DEF Init, Modes, FailsOnlyWhenCut, Delivered
<1>3. Framed
  <2> DEFINE off == [k \in Nat |-> 0]
  <2>1. off \in Offsets /\ off[1] = 0
    BY DEF Offsets
  <2> HIDE DEF off
  <2>2. ASSUME transport = "tcp" PROVE Framing(off)
    <3>1. /\ sent = <<>> /\ received = <<>> /\ wire = <<>> /\ inn = "header" /\ out = "tunRead"
          /\ Len(sent) = 0 /\ Len(received) = 0 /\ Len(wire) = 0
      BY <2>2 DEF Init
    <3>2. Pending = 0
      BY <3>1 DEF Pending
    <3>3. Consecutive(off, sent, Len(received)) /\ Laid(off, wire, sent, Len(received))
      BY <3>1 DEF Consecutive, Laid
    <3> QED
      BY <2>1, <3>1, <3>2, <3>3 DEF Framing
  <2> QED
    BY <2>1, <2>2 DEF Framed
<1> QED
  BY <1>1, <1>2, <1>3 DEF PacketInv

LEMMA StepInv == PacketInv /\ [Next]_vars => PacketInv'
<1> SUFFICES ASSUME PacketInv, [Next]_vars PROVE PacketInv'
  OBVIOUS
<1>1. CASE UNCHANGED vars
  <2>1. Pending' = Pending
    BY <1>1 DEF vars, Pending
  <2>2. \A off \in Offsets : Framing(off) => Framing(off)'
    BY <1>1, <2>1 DEF vars, Framing
  <2>3. Framed'
    BY <1>1, <2>2 DEF PacketInv, Framed, vars
  <2> QED
    BY <1>1, <2>3 DEF PacketInv, vars, TypeOK, Modes, FailsOnlyWhenCut, Delivered
<1>2. CASE TunRead
  BY <1>2, TunReadInv
<1>3. CASE Write
  BY <1>3, WriteReturnsInv, WriteFailsInv DEF Write
<1>4. CASE Cut
  BY <1>4, CutInv
<1>5. CASE Read
  BY <1>5, ReadHeaderInv, ReadBodyInv, ReadStreamInv, ReadFailsInv DEF Read
<1> QED
  BY <1>1, <1>2, <1>3, <1>4, <1>5, TunGoesInv DEF Next

\* What is in flight over the TCP fallback is what is left of the frames that
\* the writer began, from the first that the reader has not finished.
THEOREM FramesInFlight == Spec => []PacketInv
BY InitInv, StepInv, PTL DEF Spec

\* Both pumps stay within the buffers and the bytes of their packets
\* (relay.go:8, fallback.go:16-44).
THEOREM PacketTypeCorrect == Spec => []TypeOK
BY FramesInFlight, PTL DEF PacketInv

\* Over the TCP fallback no frame is refused, by wsFrameConn as too long for the
\* buffer or by the TUN as no packet: the receiving pump ends only with the
\* transport or with the TUN (fallback.go:28, relay.go:45-56).
THEOREM RefusesNothing == Spec => []FailsOnlyWhenCut
BY FramesInFlight, PTL DEF PacketInv

\* Over the TCP fallback the packets that come out are the first of those that
\* went in, each of them whole (relay.go:11).
THEOREM FramesCopy == Spec => [](transport = "tcp" => CopiesPackets)
<1>1. TypeOK /\ Delivered => (transport = "tcp" => CopiesPackets)
  <2> SUFFICES ASSUME TypeOK, Delivered, transport = "tcp" PROVE CopiesPackets
    OBVIOUS
  <2> DEFINE r == Len(received)
             a == SubSeq(received, 1, r)
             b == SubSeq(sent, 1, r)
  <2>1. /\ r \in Nat /\ Len(sent) \in Nat /\ r <= Len(sent)
        /\ \A k \in 1..r : received[k] = sent[k]
    BY DEF TypeOK, Delivered
  <2>2. sent \in Seq(Seq(Bytes))
    <3>1. Packets \subseteq Seq(Bytes)
      BY PacketSize
    <3> QED
      BY <3>1 DEF TypeOK
  <2>3. /\ a \in Seq(Seq(Bytes)) /\ Len(a) = r /\ \A k \in 1..r : a[k] = received[k]
        /\ b \in Seq(Seq(Bytes)) /\ Len(b) = r /\ \A k \in 1..r : b[k] = sent[k]
    BY <2>1, <2>2 DEF TypeOK
  <2> HIDE DEF a, b
  <2>4. \A k \in 1..r : a[k] = b[k]
    BY <2>1, <2>3
  <2>5. a = b
    BY <2>1, <2>3, <2>4
  <2> QED
    BY <2>1, <2>5 DEF CopiesPackets, IsPrefix, a, b
<1> QED
  BY <1>1, FramesInFlight, PTL DEF PacketInv

LEMMA PipeStep == PacketInv /\ [Next]_vars
  => [Pipe!Next]_(<<IF transport = "tcp" THEN sent ELSE <<>>,
                    IF transport = "tcp" THEN received ELSE <<>>>>)
<1> SUFFICES ASSUME PacketInv, [Next]_vars
             PROVE  [Pipe!Next]_(<<IF transport = "tcp" THEN sent ELSE <<>>,
                                   IF transport = "tcp" THEN received ELSE <<>>>>)
  OBVIOUS
<1>1. transport' = transport
  BY DEF Next, Write, Read, TunRead, TunReadFails, TunCloses, WriteReturns, WriteFails, Cut,
     ReadHeader, ReadBody, ReadStream, ReadFails, vars
<1>2. CASE transport # "tcp"
  BY <1>1, <1>2
<1>3. CASE transport = "tcp" /\ TunRead
  <2>1. PICK p \in Packets : sent' = Append(sent, p) /\ received' = received
    BY <1>3 DEF TunRead
  <2> QED
    BY <1>1, <1>3, <2>1 DEF Pipe!Next, Pipe!Send
<1>4. CASE transport = "tcp" /\ ReadBody
  <2>1. /\ Len(received) < Len(sent)
        /\ received' \in {received, Append(received, sent[Len(received) + 1])}
    BY <1>4, BodyIsPacket DEF ReadBody, TunWrite
  <2>2. sent' = sent
    BY <1>4 DEF ReadBody
  <2> QED
    BY <1>1, <1>4, <2>1, <2>2 DEF Pipe!Next, Pipe!Receive
<1>5. CASE transport = "tcp" /\ ~TunRead /\ ~ReadBody
  <2>1. ~ReadStream
    BY <1>5 DEF PacketInv, Modes, ReadStream
  <2>2. UNCHANGED <<sent, received>>
    BY <1>5, <2>1 DEF Next, Write, Read, TunReadFails, TunCloses, WriteReturns, WriteFails, Cut,
       ReadHeader, ReadFails, vars
  <2> QED
    BY <1>1, <1>5, <2>2
<1> QED
  BY <1>2, <1>3, <1>4, <1>5

\* Wherever the two Writes of a frame are cut off, a direction over the TCP
\* fallback is a pipe of packets: whole, in order and once (fallback.go:16-44).
THEOREM FramesImplementPipe == Spec => FramedIsPipe
<1>1. Init => Pipe!Init
  BY DEF Init, Pipe!Init
<1> QED
  BY <1>1, PipeStep, FramesInFlight, PTL DEF Spec, FramedIsPipe, Pipe!Spec
-----------------------------------------------------------------------------
(* The bytes of the QUIC stream, which has no frames.                      *)

\* What has been written to the TUN, then what is on the wire, then what the
\* pump is writing, is what was read from the other TUN; a cut drops the end.
\* What the TUN has refused is lost, and nothing is written after it.
Streamed ==
  transport = "quic" =>
    IF inn = "failed" THEN BytesInOrder
    ELSE IF cut THEN IsPrefix(FlattenSeq(received) \o wire, FlattenSeq(sent))
    ELSE FlattenSeq(received) \o (wire \o Writing) = FlattenSeq(sent)

LEMMA ByteTypes ==
  ASSUME TypeOK, Modes, transport = "quic"
  PROVE  /\ received \in Seq(Seq(Bytes)) /\ sent \in Seq(Seq(Bytes))
         /\ FlattenSeq(received) \in Seq(Bytes) /\ FlattenSeq(sent) \in Seq(Bytes)
         /\ wire \in Seq(Bytes) /\ Writing \in Seq(Bytes)
         /\ FlattenSeq(received) \o wire \in Seq(Bytes)
         /\ wire \o Writing \in Seq(Bytes)
<1>1. received \in Seq(Seq(Bytes)) /\ wire \in Seq(Bytes)
  BY DEF TypeOK
<1>2. sent \in Seq(Seq(Bytes))
  <2>1. Packets \subseteq Seq(Bytes)
    BY PacketSize
  <2> QED
    BY <2>1 DEF TypeOK
<1>3. FlattenSeq(received) \in Seq(Bytes) /\ FlattenSeq(sent) \in Seq(Bytes)
  BY <1>1, <1>2, FlattenType
<1>4. Writing \in Seq(Bytes)
  <2>1. CASE out = "payload"
    <3>1. sent # <<>> /\ Writing = sent[Len(sent)]
      BY <2>1 DEF Modes, Writing, Last
    <3> QED
      BY <1>2, <3>1
  <2>2. CASE out # "payload"
    <3>1. Writing = <<>>
      BY <2>2 DEF Modes, Writing
    <3>2. <<>> \in Seq(Bytes)
      OBVIOUS
    <3> QED
      BY <3>1, <3>2
  <2> QED
    BY <2>1, <2>2
<1> QED
  BY <1>1, <1>2, <1>3, <1>4, ConcatProperties

LEMMA StreamInOrder == PacketInv /\ Streamed /\ transport = "quic" => BytesInOrder
<1> SUFFICES ASSUME PacketInv, Streamed, transport = "quic", inn # "failed" PROVE BytesInOrder
  BY DEF Streamed
<1> DEFINE r == FlattenSeq(received)
           s == FlattenSeq(sent)
<1>1. /\ r \in Seq(Bytes) /\ s \in Seq(Bytes) /\ wire \in Seq(Bytes) /\ Writing \in Seq(Bytes)
      /\ r \o wire \in Seq(Bytes) /\ wire \o Writing \in Seq(Bytes)
  BY ByteTypes DEF PacketInv
<1>2. IF cut THEN IsPrefix(r \o wire, s) ELSE r \o (wire \o Writing) = s
  BY DEF Streamed
<1> HIDE DEF r, s
<1>3. Begins(r, r)
  <2>1. Len(r) \in Nat
    BY <1>1
  <2> QED
    BY <2>1 DEF Begins
<1>4. Begins(r, r \o wire) /\ Begins(r, r \o (wire \o Writing))
  BY <1>1, <1>3, BeginsConcat
<1>5. Begins(r, s)
  <2>1. CASE cut
    <3>1. Begins(r \o wire, s)
      BY <1>1, <1>2, <2>1, PrefixBegins
    <3> QED
      BY <1>1, <1>4, <3>1, BeginsTransitive
  <2>2. CASE ~cut
    BY <1>2, <1>4, <2>2
  <2> QED
    BY <2>1, <2>2
<1>6. IsPrefix(r, s)
  BY <1>1, <1>5, PrefixBegins
<1> QED
  BY <1>6 DEF BytesInOrder, r, s

\* What was written before the pump failed is still the beginning of what has
\* been read since.
LEMMA FailedStreamed ==
  ASSUME PacketInv, Streamed, transport = "quic", inn' = "failed", UNCHANGED received,
         UNCHANGED sent \/ TunRead
  PROVE  Streamed'
<1> DEFINE r == FlattenSeq(received)
           s == FlattenSeq(sent)
<1>1. BytesInOrder
  BY StreamInOrder
<1>2. CASE UNCHANGED sent
  BY <1>1, <1>2 DEF Streamed, BytesInOrder
<1>3. CASE TunRead
  <2>1. PICK p \in Packets : sent' = Append(sent, p)
    BY <1>3 DEF TunRead
  <2>2. r \in Seq(Bytes) /\ s \in Seq(Bytes) /\ sent \in Seq(Seq(Bytes)) /\ p \in Seq(Bytes)
    BY ByteTypes, PacketSize DEF PacketInv
  <2>3. FlattenSeq(sent') = s \o p /\ s \o p \in Seq(Bytes)
    BY <2>1, <2>2, FlattenAppend, ConcatProperties
  <2>4. IsPrefix(r, s)
    BY <1>1 DEF BytesInOrder
  <2> HIDE DEF r, s
  <2>5. Begins(r, s \o p)
    BY <2>2, <2>4, PrefixBegins, BeginsConcat
  <2>6. IsPrefix(r, s \o p)
    BY <2>2, <2>3, <2>5, PrefixBegins
  <2> QED
    BY <2>3, <2>6 DEF Streamed, BytesInOrder, r
<1> QED
  BY <1>2, <1>3

LEMMA TunReadStreamed == PacketInv /\ Streamed /\ TunRead => Streamed'
<1> SUFFICES ASSUME PacketInv, Streamed, TunRead, transport = "quic", inn # "failed"
             PROVE  Streamed'
  BY FailedStreamed DEF Streamed, TunRead
<1>1. PICK p \in Packets : sent' = Append(sent, p)
  BY DEF TunRead
<1>2. /\ TypeOK /\ Modes /\ out = "tunRead" /\ out' = "payload"
      /\ UNCHANGED <<transport, wire, cut, inn, received>>
  BY DEF PacketInv, TunRead
<1> DEFINE r == FlattenSeq(received)
           s == FlattenSeq(sent)
<1>3. /\ r \in Seq(Bytes) /\ s \in Seq(Bytes) /\ wire \in Seq(Bytes)
      /\ r \o wire \in Seq(Bytes) /\ sent \in Seq(Seq(Bytes))
  BY <1>2, ByteTypes
<1>4. p \in Seq(Bytes)
  BY PacketSize
<1>5. FlattenSeq(sent') = s \o p
  BY <1>1, <1>3, <1>4, FlattenAppend
<1>6. Writing = <<>>
  BY <1>2 DEF Writing
<1>7. Writing' = p
  <2>1. Writing' = Append(sent, p)[Len(Append(sent, p))]
    BY <1>1, <1>2 DEF Writing, Last
  <2> QED
    BY <1>3, <1>4, <2>1, AppendProperties
<1>8. CASE cut
  <2>1. IsPrefix(r \o wire, s)
    BY <1>8 DEF Streamed
  <2> HIDE DEF r, s
  <2>2. Begins(r \o wire, s)
    BY <1>3, <2>1, PrefixBegins
  <2>3. Begins(r \o wire, s \o p) /\ s \o p \in Seq(Bytes)
    BY <1>3, <1>4, <2>2, BeginsConcat, ConcatProperties
  <2>4. IsPrefix(r \o wire, s \o p)
    BY <1>3, <2>3, PrefixBegins
  <2> QED
    BY <1>2, <1>5, <1>8, <2>4 DEF Streamed, r, s
<1>9. CASE ~cut
  <2>1. r \o (wire \o <<>>) = s
    BY <1>6, <1>9 DEF Streamed
  <2> HIDE DEF r, s
  <2>2. r \o wire = s
    BY <1>3, <2>1, ConcatEmptySeq
  <2>3. (r \o wire) \o p = r \o (wire \o p)
    <3>1. r \in Seq(Bytes) /\ wire \in Seq(Bytes) /\ p \in Seq(Bytes)
      BY <1>3, <1>4
    <3> QED
      BY <3>1, ConcatAssociative
  <2>4. r \o (wire \o p) = s \o p
    BY <2>2, <2>3
  <2> QED
    BY <1>2, <1>5, <1>7, <1>9, <2>4 DEF Streamed, r, s
<1> QED
  BY <1>8, <1>9

LEMMA WriteReturnsStreamed == PacketInv /\ Streamed /\ WriteReturns => Streamed'
<1> SUFFICES ASSUME PacketInv, Streamed, WriteReturns, transport = "quic", inn # "failed"
             PROVE  Streamed'
  BY FailedStreamed DEF Streamed, WriteReturns
<1>1. /\ TypeOK /\ Modes /\ ~cut /\ out = "payload" /\ out' = "tunRead"
      /\ wire' = wire \o Writing /\ UNCHANGED <<transport, sent, cut, inn, received>>
  BY DEF PacketInv, Modes, WriteReturns
<1>2. FlattenSeq(received) \o (wire \o Writing) = FlattenSeq(sent) /\ wire \o Writing \in Seq(Bytes)
  BY <1>1, ByteTypes DEF Streamed
<1>3. Writing' = <<>>
  BY <1>1 DEF Writing
<1>4. wire' \o Writing' = wire \o Writing
  BY <1>1, <1>2, <1>3, ConcatEmptySeq
<1> QED
  BY <1>1, <1>2, <1>4 DEF Streamed

LEMMA CutStreamed == PacketInv /\ Streamed /\ Cut => Streamed'
<1> SUFFICES ASSUME PacketInv, Streamed, Cut, transport = "quic", inn # "failed"
             PROVE  Streamed'
  BY FailedStreamed DEF Streamed, Cut
<1> DEFINE r == FlattenSeq(received)
           all == wire \o Writing
<1>1. PICK n \in 0..Len(all) : wire' = SubSeq(all, 1, n)
  BY DEF Cut
<1>2. TypeOK /\ Modes /\ ~cut /\ cut' /\ UNCHANGED <<transport, sent, inn, received>>
  BY DEF PacketInv, Cut
<1>3. r \in Seq(Bytes) /\ all \in Seq(Bytes) /\ r \o all = FlattenSeq(sent)
      /\ FlattenSeq(sent) \in Seq(Bytes)
  BY <1>2, ByteTypes DEF Streamed
<1> HIDE DEF r, all
<1>4. wire' \in Seq(Bytes) /\ Begins(wire', all)
  BY <1>1, <1>3, Taken
<1>5. r \o wire' \in Seq(Bytes) /\ r \o all \in Seq(Bytes)
  BY <1>3, <1>4, ConcatProperties
<1>6. IsPrefix(r \o wire', r \o all)
  BY <1>3, <1>4, <1>5, BeginsAfter, PrefixBegins
<1> QED
  BY <1>2, <1>3, <1>6 DEF Streamed, r

LEMMA ReadStreamStreamed == PacketInv /\ Streamed /\ ReadStream => Streamed'
<1>0. CASE inn' = "failed"
  BY <1>0, FailedStreamed DEF Streamed, ReadStream, TunWrite
<1> SUFFICES ASSUME PacketInv, Streamed, ReadStream, transport = "quic",
                    inn # "failed", inn' # "failed"
             PROVE  Streamed'
  BY <1>0 DEF Streamed, ReadStream
<1>1. PICK n \in 1..BufSize :
        /\ n <= Len(wire)
        /\ received' = Append(received, SubSeq(wire, 1, n))
        /\ wire' = SubSeq(wire, n + 1, Len(wire))
  BY DEF ReadStream, DropFirst, TunWrite
<1>2. TypeOK /\ Modes /\ UNCHANGED <<transport, out, sent, cut>>
  BY DEF PacketInv, ReadStream
<1> DEFINE r == FlattenSeq(received)
           a == SubSeq(wire, 1, n)
           b == SubSeq(wire, n + 1, Len(wire))
<1>3. /\ r \in Seq(Bytes) /\ wire \in Seq(Bytes) /\ Writing \in Seq(Bytes)
      /\ received \in Seq(Seq(Bytes))
  BY <1>2, ByteTypes
<1>4. n \in 0..Len(wire)
  <2>1. n \in Nat /\ Len(wire) \in Nat
    BY <1>3, PacketAssumption
  <2> QED
    BY <1>1, <2>1
<1>5. a \in Seq(Bytes) /\ b \in Seq(Bytes) /\ a \o b = wire
  BY <1>3, <1>4, Taken
<1>6. received' = Append(received, a) /\ wire' = b
  BY <1>1
<1> HIDE DEF a, b
<1>7. FlattenSeq(received') = r \o a
  BY <1>3, <1>5, <1>6, FlattenAppend
<1>8. Writing' = Writing
  BY <1>2 DEF Writing
<1> DEFINE x == Writing
<1>9. (r \o a) \o b = r \o wire
  <2> HIDE DEF r
  <2>1. (r \o a) \o b = r \o (a \o b)
    <3>1. r \in Seq(Bytes) /\ a \in Seq(Bytes) /\ b \in Seq(Bytes)
      BY <1>3, <1>5
    <3> QED
      BY <3>1, ConcatAssociative
  <2> QED
    BY <1>5, <2>1
<1>10. (r \o a) \o (b \o x) = r \o (wire \o x)
  <2> HIDE DEF r, x
  <2>1. /\ r \in Seq(Bytes) /\ a \in Seq(Bytes) /\ b \in Seq(Bytes) /\ x \in Seq(Bytes)
        /\ b \o x \in Seq(Bytes)
    BY <1>3, <1>5, ConcatProperties DEF x
  <2>2. (r \o a) \o (b \o x) = r \o (a \o (b \o x))
    <3> DEFINE y == b \o x
    <3>1. r \in Seq(Bytes) /\ a \in Seq(Bytes) /\ y \in Seq(Bytes)
      BY <2>1
    <3> HIDE DEF y
    <3>2. (r \o a) \o y = r \o (a \o y)
      BY <3>1, ConcatAssociative
    <3> QED
      BY <3>2 DEF y
  <2>3. (a \o b) \o x = a \o (b \o x)
    BY <2>1, ConcatAssociative
  <2> QED
    BY <1>5, <2>2, <2>3
<1> QED
  BY <1>2, <1>6, <1>7, <1>8, <1>9, <1>10 DEF Streamed

LEMMA InitStreamed == Init => Streamed
<1> SUFFICES ASSUME Init, transport = "quic" PROVE Streamed
  BY DEF Streamed
<1>1. /\ sent = <<>> /\ received = <<>> /\ wire = <<>> /\ Writing = <<>> /\ ~cut
      /\ Len(sent) = 0 /\ inn = "stream"
  BY DEF Init, Writing
<1>2. <<>> \in Seq(Bytes)
  OBVIOUS
<1>3. FlattenSeq(<<>>) = <<>>
  BY <1>1, FlattenIs
<1>4. <<>> \o (<<>> \o <<>>) = <<>>
  BY <1>2, ConcatEmptySeq
<1> QED
  BY <1>1, <1>3, <1>4 DEF Streamed

LEMMA StepStreamed == PacketInv /\ Streamed /\ [Next]_vars => Streamed'
<1> SUFFICES ASSUME PacketInv, Streamed, [Next]_vars PROVE Streamed'
  OBVIOUS
<1>1. CASE UNCHANGED vars
  BY <1>1 DEF vars, Streamed, Writing, BytesInOrder
<1>2. CASE TunRead
  BY <1>2, TunReadStreamed
<1>3. CASE WriteReturns
  BY <1>3, WriteReturnsStreamed
<1>4. CASE WriteFails
  BY <1>4, StreamInOrder DEF WriteFails, Streamed, BytesInOrder
<1>5. CASE Cut
  BY <1>5, CutStreamed
<1>6. CASE ReadStream
  BY <1>6, ReadStreamStreamed
<1>7. CASE ReadFails
  <2>1. CASE transport = "quic"
    <3>1. inn' = "failed" /\ UNCHANGED received /\ UNCHANGED sent
      BY <1>7 DEF ReadFails
    <3> QED
      BY <2>1, <3>1, FailedStreamed
  <2>2. CASE transport # "quic"
    BY <1>7, <2>2 DEF ReadFails, Streamed
  <2> QED
    BY <2>1, <2>2
<1>8. CASE ReadHeader \/ ReadBody
  <2>1. transport # "quic" /\ transport' = transport
    BY <1>8 DEF ReadHeader, ReadBody, PacketInv, Modes
  <2> QED
    BY <2>1 DEF Streamed
<1>9. CASE TunReadFails \/ TunCloses
  <2>1. Writing' = Writing /\ UNCHANGED <<transport, inn, cut, sent, received, wire>>
    BY <1>9 DEF TunReadFails, TunCloses, Writing
  <2> QED
    BY <2>1 DEF Streamed, BytesInOrder
<1> QED
  BY <1>1, <1>2, <1>3, <1>4, <1>5, <1>6, <1>7, <1>8, <1>9 DEF Next, Write, Read

LEMMA FramesInOrder == PacketInv /\ transport = "tcp" => BytesInOrder
<1> SUFFICES ASSUME PacketInv, transport = "tcp" PROVE BytesInOrder
  OBVIOUS
<1>1. received \in Seq(Seq(Bytes)) /\ sent \in Seq(Seq(Bytes))
  <2>1. Packets \subseteq Seq(Bytes)
    BY PacketSize
  <2> QED
    BY <2>1 DEF PacketInv, TypeOK
<1>2. Begins(received, sent)
  BY DEF PacketInv, Delivered, Begins
<1>3. /\ FlattenSeq(received) \in Seq(Bytes) /\ FlattenSeq(sent) \in Seq(Bytes)
      /\ Begins(FlattenSeq(received), FlattenSeq(sent))
  BY <1>1, <1>2, FlattenType, FlattenBegins
<1> QED
  BY <1>3, PrefixBegins DEF BytesInOrder

\* Over either transport the bytes that a relay writes to its TUN are the first
\* of those that the other end's relay read from its own, in order and without
\* the headers, whatever the reads of the stream cut the packets into and
\* wherever the transport breaks (relay.go:22-58, fallback.go:22-44).
THEOREM BytesArriveInOrder == Spec => []BytesInOrder
<1>1. PacketInv /\ Streamed => BytesInOrder
  BY StreamInOrder, FramesInOrder DEF PacketInv, TypeOK
<1>2. Spec => []Streamed
  BY InitStreamed, StepStreamed, FramesInFlight, PTL DEF Spec
<1> QED
  BY <1>1, <1>2, FramesInFlight, PTL
-----------------------------------------------------------------------------
\* Neither pump has a step to take: the sender waits for its TUN, the receiver
\* for bytes that are not on the wire.
Idle ==
  /\ out \notin {"header", "payload"}
  /\ inn = "header" => Len(wire) < 2
  /\ inn = "body" => Len(wire) < need
  /\ inn = "stream" => wire = <<>>

LEMMA IdleFrames ==
  ASSUME PacketInv, transport = "tcp", ~cut, ~tunDown, Idle
  PROVE  received = sent
<1> DEFINE m == Len(sent)
           r == Len(received)
           p == sent[r + 1]
<1>1. /\ TypeOK /\ Modes /\ Delivered /\ Framed /\ inn \in {"header", "body"}
      /\ out \notin {"header", "payload"}
  BY DEF PacketInv, Modes, TypeOK, Idle, FailsOnlyWhenCut
<1>2. PICK off \in Offsets : Framing(off)
  BY <1>1 DEF Framed
<1>3. Pending = 0
  BY <1>1 DEF Pending
<1>4. /\ m \in Nat /\ r \in Nat /\ r <= m /\ Len(wire) \in Nat
      /\ \A k \in 1..r : received[k] = sent[k]
  BY <1>1 DEF TypeOK, Delivered
<1>5. r = m
  <2>1. SUFFICES ASSUME r < m PROVE FALSE
    BY <1>4
  <2>2. r + 1 \in (r + 1)..m /\ m + 1 \in ((r + 1) + 1)..(m + 1) /\ r + 1 \in 1..m
    BY <1>4, <2>1
  <2>3. p \in Packets /\ Len(p) \in Nat \ {0}
    BY <1>1, <2>2, PacketSize DEF TypeOK
  <2> DEFINE here == off[r + 1]
             next == off[(r + 1) + 1]
             end  == off[m + 1]
  <2>4. /\ here \in Int /\ next \in Int /\ end \in Int
    BY <1>4 DEF Offsets
  <2>5. next = here + 2 + Len(p) /\ next <= end
    BY <1>2, <2>2 DEF Framing, Consecutive
  <2>6. Len(wire) = end - Pending /\ here = (IF inn = "header" THEN 0 ELSE -2)
    BY <1>2 DEF Framing
  <2>7. inn = "body" => need = Len(p)
    BY <1>2 DEF Framing
  <2>8. (inn = "header" /\ Len(wire) < 2) \/ (inn = "body" /\ Len(wire) < need)
    BY <1>1 DEF Idle
  <2> HIDE DEF here, next, end, p
  <2> QED
    BY <1>3, <1>4, <2>3, <2>4, <2>5, <2>6, <2>7, <2>8
<1>6. received \in Seq(Seq(Bytes)) /\ sent \in Seq(Seq(Bytes))
  <2>1. Packets \subseteq Seq(Bytes)
    BY PacketSize
  <2> QED
    BY <1>1, <2>1 DEF TypeOK
<1> QED
  BY <1>4, <1>5, <1>6, SeqEqual

LEMMA IdleStream ==
  ASSUME PacketInv, Streamed, transport = "quic", ~cut, inn # "failed", Idle
  PROVE  FlattenSeq(received) = FlattenSeq(sent)
<1>1. Writing = <<>> /\ wire = <<>>
  BY DEF Idle, Writing, PacketInv, TypeOK, Modes, FailsOnlyWhenCut
<1>2. FlattenSeq(received) \o (<<>> \o <<>>) = FlattenSeq(sent)
  BY <1>1 DEF Streamed
<1>3. FlattenSeq(received) \in Seq(Bytes)
  BY ByteTypes DEF PacketInv
<1>4. <<>> \o <<>> = <<>> /\ FlattenSeq(received) \o <<>> = FlattenSeq(received)
  BY <1>3, ConcatEmptySeq
<1> QED
  BY <1>2, <1>4

\* The two pumps never wait for each other with a packet still under way: while
\* the transport and the receiving TUN hold, and the TUN has not refused what
\* was read from a QUIC stream, both wait only when every byte that was read
\* from one TUN has been written to the other (relay.go:22-58,
\* fallback.go:22-44).
THEOREM WaitsOnlyWhenDone ==
  Spec => [](Idle => cut \/ tunDown \/ Refused \/ FlattenSeq(received) = FlattenSeq(sent))
<1>1. PacketInv /\ Streamed =>
        (Idle => cut \/ tunDown \/ Refused \/ FlattenSeq(received) = FlattenSeq(sent))
  BY IdleFrames, IdleStream DEF PacketInv, TypeOK, Refused
<1>2. Spec => []Streamed
  BY InitStreamed, StepStreamed, FramesInFlight, PTL DEF Spec
<1> QED
  BY <1>1, <1>2, FramesInFlight, PTL

\* What the pumps still have to do with the packets they have: a byte that is
\* not on the wire has to be written and then read.
Left == 2 * Pending + Len(wire) + (IF out = "failed" THEN 0 ELSE 1) + (IF inn = "failed" THEN 0 ELSE 1)

LEMMA PendingNat == PacketInv => Pending \in Nat
BY PacketSize DEF Pending, PacketInv, TypeOK, Modes, Last

LEMMA LeftNat == PacketInv => Left \in Nat
<1> SUFFICES ASSUME PacketInv PROVE Left \in Nat
  OBVIOUS
<1>1. Pending \in Nat /\ Len(wire) \in Nat
  BY PendingNat DEF PacketInv, TypeOK
<1> QED
  BY <1>1 DEF Left

LEMMA WriteLessLeft == PacketInv /\ Write => Left' < Left
<1> SUFFICES ASSUME PacketInv, Write PROVE Left' < Left
  OBVIOUS
<1>1. /\ wire \in Seq(Bytes) /\ Len(wire) \in Nat /\ Pending \in Nat
      /\ out \in {"header", "payload"} /\ sent # <<>> /\ inn' = inn
  BY PendingNat DEF PacketInv, TypeOK, Modes, Write, WriteReturns, WriteFails
<1> DEFINE size == Len(Last(sent))
<1>2. Last(sent) \in Packets
  BY <1>1 DEF Last, PacketInv, TypeOK
<1>3. size \in Nat \ {0} /\ size \in 0..BufSize /\ Last(sent) \in Seq(Bytes)
  BY <1>2, PacketSize, PacketAssumption
<1>4. Header(size) \in Seq(Bytes) /\ Len(Header(size)) = 2
  BY <1>3, TwoBytes
<1> HIDE DEF size
<1>5. CASE WriteFails
  <2>1. out' = "failed" /\ wire' = wire /\ out # "failed"
    BY <1>1, <1>5 DEF WriteFails
  <2>2. Pending' = 0
    BY <2>1 DEF Pending
  <2> QED
    BY <1>1, <2>1, <2>2 DEF Left
<1>6. CASE WriteReturns /\ out = "header"
  <2>1. wire' = wire \o Header(size) /\ out' = "payload" /\ sent' = sent
    BY <1>6 DEF WriteReturns, Writing, size
  <2>2. Pending = 2 + size /\ Pending' = size
    BY <1>6, <2>1 DEF Pending, size
  <2>3. Len(wire') = Len(wire) + 2
    <3> DEFINE h == Header(size)
    <3>1. h \in Seq(Bytes) /\ Len(h) = 2 /\ wire' = wire \o h
      BY <1>4, <2>1
    <3> HIDE DEF h
    <3>2. wire \in Seq(Bytes)
      BY <1>1
    <3>3. Len(wire \o h) = Len(wire) + Len(h)
      BY <3>1, <3>2, ConcatProperties
    <3> QED
      BY <3>1, <3>3
  <2> QED
    BY <1>1, <1>3, <1>6, <2>1, <2>2, <2>3 DEF Left
<1>7. CASE WriteReturns /\ out = "payload"
  <2>1. wire' = wire \o Last(sent) /\ out' = "tunRead"
    BY <1>7 DEF WriteReturns, Writing
  <2>2. Pending = size /\ Pending' = 0
    BY <1>7, <2>1 DEF Pending, size
  <2>3. Len(wire') = Len(wire) + size
    BY <1>1, <1>3, <2>1, ConcatProperties DEF size
  <2> QED
    BY <1>1, <1>3, <1>7, <2>1, <2>2, <2>3 DEF Left
<1> QED
  BY <1>1, <1>5, <1>6, <1>7 DEF Write

LEMMA ReadLessLeft == PacketInv /\ Read => Left' < Left
<1> SUFFICES ASSUME PacketInv, Read PROVE Left' < Left
  OBVIOUS
<1>1. wire \in Seq(Bytes) /\ Len(wire) \in Nat /\ Pending \in Nat /\ out' = out /\ sent' = sent
  BY PendingNat DEF PacketInv, TypeOK, Read, ReadHeader, ReadBody, ReadStream, ReadFails
<1>2. Pending' = Pending
  BY <1>1 DEF Pending
<1>3. ASSUME NEW n \in Nat \ {0}, n <= Len(wire), wire' = SubSeq(wire, n + 1, Len(wire)),
             inn # "failed"
      PROVE  Left' < Left
  <2>1. Len(wire') = Len(wire) - n
    <3>1. n \in 0..Len(wire)
      BY <1>1, <1>3
    <3> QED
      BY <1>1, <1>3, <3>1, Rest
  <2> DEFINE done == IF inn' = "failed" THEN 0 ELSE 1
             rest == 2 * Pending + (IF out = "failed" THEN 0 ELSE 1)
             size == Len(wire)
             newSize == Len(wire')
  <2>2. Left = rest + size + 1 /\ Left' = rest + newSize + done
    <3>1. size \in Int /\ newSize \in Int
      BY <1>1, <1>3, <2>1
    <3>2. /\ Pending \in Int /\ Pending' = Pending /\ out' = out /\ inn # "failed"
          /\ Left = 2 * Pending + size + (IF out = "failed" THEN 0 ELSE 1) + 1
          /\ Left' = 2 * Pending' + newSize + (IF out' = "failed" THEN 0 ELSE 1) + done
      BY <1>1, <1>2, <1>3 DEF Left
    <3> HIDE DEF done, size, newSize
    <3>3. done \in Int
      BY DEF done
    <3> QED
      BY <3>1, <3>2, <3>3
  <2>3. newSize = size - n /\ size \in Nat /\ n \in Nat /\ n > 0
    BY <1>1, <1>3, <2>1
  <2>4. rest \in Int /\ done \in {0, 1}
    BY <1>1
  <2> HIDE DEF done, rest, size, newSize
  <2> QED
    BY <2>2, <2>3, <2>4
<1>4. CASE ReadHeader
  <2>1. wire' = SubSeq(wire, 2 + 1, Len(wire)) /\ 2 <= Len(wire) /\ inn # "failed"
    BY <1>1, <1>4 DEF ReadHeader, DropFirst
  <2> QED
    BY <1>3, <2>1
<1>5. CASE ReadBody
  <2>1. wire' = SubSeq(wire, need + 1, Len(wire)) /\ need <= Len(wire) /\ inn # "failed"
    <3>1. need \in Nat
      BY PacketAssumption DEF PacketInv, TypeOK
    <3> QED
      BY <1>1, <1>5, <3>1 DEF ReadBody, DropFirst
  <2>2. need \in Nat \ {0}
    <3>1. transport = "tcp" /\ inn = "body"
      BY <1>5 DEF PacketInv, Modes, TypeOK, ReadBody
    <3>2. PICK off \in Offsets : Framing(off)
      BY <3>1 DEF PacketInv, Framed
    <3>3. Len(received) < Len(sent) /\ need = Len(sent[Len(received) + 1])
      BY <3>1, <3>2 DEF Framing
    <3>4. sent[Len(received) + 1] \in Packets
      <4>1. Len(received) \in Nat /\ sent \in Seq(Packets)
        BY DEF PacketInv, TypeOK
      <4> QED
        BY <3>3, <4>1
    <3> QED
      BY <3>3, <3>4, PacketSize
  <2> QED
    BY <1>3, <2>1, <2>2
<1>6. CASE ReadStream
  <2>1. PICK n \in 1..BufSize : n <= Len(wire) /\ wire' = SubSeq(wire, n + 1, Len(wire))
    BY <1>6 DEF ReadStream, DropFirst
  <2>2. n \in Nat \ {0} /\ inn # "failed"
    BY <1>6, PacketAssumption DEF ReadStream
  <2> QED
    BY <1>3, <2>1, <2>2
<1>7. CASE ReadFails
  <2>1. wire' = wire /\ inn # "failed" /\ inn' = "failed"
    BY <1>7 DEF ReadFails
  <2> QED
    BY <1>1, <1>2, <2>1 DEF Left
<1> QED
  BY <1>4, <1>5, <1>6, <1>7 DEF Read

\* The pumps come to rest: each of their steps leaves less to do, down to
\* nothing, until the TUN delivers another packet (relay.go:22-58).
THEOREM PumpsComeToRest == Spec => [](Left \in Nat) /\ [][Write \/ Read => Left' < Left]_vars
<1>1. PacketInv /\ [Next]_vars => [Write \/ Read => Left' < Left]_vars
  BY WriteLessLeft, ReadLessLeft DEF vars
<1> QED
  BY <1>1, LeftNat, FramesInFlight, PTL DEF Spec
=============================================================================
