----------------------------- MODULE QueueLemmas ----------------------------
(***************************************************************************)
(* What pushing at the back of a queue and taking from its front do to the *)
(* predicates of Queues.  The proofs about handlers, behaviour and         *)
(* backends rest on these.                                                 *)
(***************************************************************************)
EXTENDS Queues, TLAPS

(* Queues: what pushing at the back and taking from the front do to the    *)
(* elements and to their multiplicity.                                     *)
LEMMA InAppend ==
  ASSUME NEW S, NEW s \in Seq(S), NEW e, NEW x
  PROVE  /\ In(x, Append(s, e)) <=> In(x, s) \/ x = e
         /\ Once(x, s) /\ ~(x = e /\ In(x, s)) => Once(x, Append(s, e))
  <1>0. PICK n \in Nat : n = Len(s)
    OBVIOUS
  <1>1. /\ DOMAIN s = 1 .. n /\ DOMAIN Append(s, e) = 1 .. n + 1
        /\ \A k \in 1 .. n : Append(s, e)[k] = s[k]
        /\ Append(s, e)[n + 1] = e
    BY <1>0
  <1>2. PICK t : t = Append(s, e)
    OBVIOUS
  <1>3. /\ DOMAIN t = 1 .. n + 1 /\ t[n + 1] = e /\ n + 1 \in 1 .. n + 1
        /\ \A k \in 1 .. n : k \in 1 .. n + 1 /\ t[k] = s[k]
        /\ \A k \in 1 .. n + 1 : k \in 1 .. n \/ k = n + 1
    BY <1>1, <1>2
  <1>4. In(x, t) <=> In(x, s) \/ x = e
    BY <1>1, <1>3 DEF In
  <1>5. Once(x, s) /\ ~(x = e /\ In(x, s)) => Once(x, t)
    BY <1>1, <1>3 DEF In, Once
  <1> QED BY <1>2, <1>4, <1>5

(* Taking the oldest element.                                              *)
LEMMA InTail ==
  ASSUME NEW S, NEW s \in Seq(S), s # << >>, NEW x
  PROVE  /\ Head(s) \in S /\ Tail(s) \in Seq(S)
         /\ In(x, s) <=> x = Head(s) \/ In(x, Tail(s))
         /\ Once(x, s) => Once(x, Tail(s)) /\ ~(x = Head(s) /\ In(x, Tail(s)))
  <1>0. PICK n \in Nat : n = Len(s)
    OBVIOUS
  <1>1. /\ n > 0 /\ DOMAIN s = 1 .. n /\ Head(s) = s[1] /\ Head(s) \in S
        /\ Tail(s) \in Seq(S) /\ DOMAIN Tail(s) = 1 .. n - 1
        /\ \A k \in 1 .. n - 1 : Tail(s)[k] = s[k + 1]
    BY <1>0
  <1>2. PICK t, e : t = Tail(s) /\ e = Head(s)
    OBVIOUS
  <1>3. /\ 1 \in 1 .. n /\ s[1] = e /\ DOMAIN t = 1 .. n - 1
        /\ \A k \in 1 .. n - 1 : k + 1 \in 1 .. n /\ t[k] = s[k + 1] /\ k + 1 # 1
        /\ \A k \in 1 .. n : k # 1 => k - 1 \in 1 .. n - 1 /\ t[k - 1] = s[k]
        /\ \A k, l \in 1 .. n - 1 : k + 1 = l + 1 => k = l
    BY <1>1, <1>2
  <1>4. In(x, s) <=> x = e \/ In(x, t)
    <2>1. In(x, s) => x = e \/ In(x, t)
      BY <1>1, <1>3 DEF In
    <2>2. ASSUME NEW k \in 1 .. n - 1, t[k] = x PROVE In(x, s)
      <3>1. k + 1 \in DOMAIN s /\ s[k + 1] = x
        BY <1>1, <1>3, <2>2
      <3> QED BY <3>1 DEF In
    <2>3. x = e => In(x, s)
      BY <1>1, <1>3 DEF In
    <2> QED BY <1>3, <2>1, <2>2, <2>3 DEF In
  <1>5. ASSUME Once(x, s) PROVE Once(x, t) /\ ~(x = e /\ In(x, t))
    <2>1. \A k, l \in 1 .. n : s[k] = x /\ s[l] = x => k = l
      BY <1>1, <1>5 DEF Once
    <2>2. \A k, l \in 1 .. n - 1 : t[k] = x /\ t[l] = x => k = l
      <3> TAKE k, l \in 1 .. n - 1
      <3> HAVE t[k] = x /\ t[l] = x
      <3>1. k + 1 \in 1 .. n /\ l + 1 \in 1 .. n /\ s[k + 1] = x /\ s[l + 1] = x
        BY <1>3
      <3> QED BY <1>3, <2>1, <3>1
    <2>3. ASSUME x = e, NEW k \in 1 .. n - 1, t[k] = x PROVE FALSE
      <3>1. k + 1 \in 1 .. n /\ s[k + 1] = x /\ k + 1 # 1
        BY <1>3, <2>3
      <3> QED BY <1>3, <2>1, <2>3, <3>1
    <2> QED BY <1>3, <2>2, <2>3 DEF Once, In
  <1> QED BY <1>1, <1>2, <1>4, <1>5

(* Pushing several elements.                                               *)
LEMMA InConcat ==
  ASSUME NEW S, NEW s \in Seq(S), NEW t \in Seq(S), NEW x
  PROVE  /\ In(x, s \o t) <=> In(x, s) \/ In(x, t)
         /\ Once(x, s) /\ ~In(x, t) => Once(x, s \o t)
  <1>0. PICK n \in Nat, m \in Nat : n = Len(s) /\ m = Len(t)
    OBVIOUS
  <1>1. /\ DOMAIN s = 1 .. n /\ DOMAIN t = 1 .. m /\ DOMAIN (s \o t) = 1 .. n + m
        /\ \A k \in 1 .. n + m : (s \o t)[k] = IF k <= n THEN s[k] ELSE t[k - n]
    BY <1>0
  <1>2. PICK u : u = s \o t
    OBVIOUS
  <1>3. /\ DOMAIN u = 1 .. n + m
        /\ \A k \in 1 .. n : k \in 1 .. n + m /\ u[k] = s[k]
        /\ \A k \in 1 .. m : n + k \in 1 .. n + m /\ u[n + k] = t[k]
        /\ \A k \in 1 .. n + m : k \in 1 .. n \/ (k - n \in 1 .. m /\ u[k] = t[k - n])
    <2>1. \A k \in 1 .. n : k \in 1 .. n + m /\ u[k] = s[k]
      BY <1>1, <1>2
    <2>2. ASSUME NEW k \in 1 .. m PROVE n + k \in 1 .. n + m /\ u[n + k] = t[k]
      <3>1. n + k \in 1 .. n + m /\ ~(n + k <= n) /\ (n + k) - n = k
        OBVIOUS
      <3> QED BY <1>1, <1>2, <3>1
    <2>3. ASSUME NEW k \in 1 .. n + m, k \notin 1 .. n PROVE k - n \in 1 .. m /\ u[k] = t[k - n]
      <3>1. k - n \in 1 .. m /\ ~(k <= n)
        BY <2>3
      <3> QED BY <1>1, <1>2, <3>1
    <2> QED BY <1>1, <1>2, <2>1, <2>2, <2>3
  <1>4. In(x, u) <=> In(x, s) \/ In(x, t)
    <2>1. In(x, u) => In(x, s) \/ In(x, t)
      BY <1>1, <1>3, ZenonT(30) DEF In
    <2>2. In(x, s) => In(x, u)
      BY <1>1, <1>3 DEF In
    <2>3. ASSUME NEW k \in 1 .. m, t[k] = x PROVE In(x, u)
      <3>1. n + k \in DOMAIN u /\ u[n + k] = x
        BY <1>3, <2>3
      <3> QED BY <3>1 DEF In
    <2> QED BY <1>1, <2>1, <2>2, <2>3 DEF In
  <1>5. ASSUME Once(x, s), ~In(x, t) PROVE Once(x, u)
    <2>1. \A k \in 1 .. n + m : u[k] = x => k \in 1 .. n
      BY <1>1, <1>3, <1>5, ZenonT(30) DEF In
    <2>2. \A k, l \in 1 .. n : s[k] = x /\ s[l] = x => k = l
      BY <1>1, <1>5 DEF Once
    <2> QED BY <1>3, <2>1, <2>2 DEF Once
  <1> QED BY <1>2, <1>4, <1>5

(* The empty queue.                                                        *)
LEMMA InEmpty ==
  ASSUME NEW x PROVE ~In(x, << >>) /\ Once(x, << >>)
  <1>1. DOMAIN << >> = {}
    OBVIOUS
  <1> QED BY <1>1, Zenon DEF In, Once

(* A queue without x has it at most once.                                  *)
LEMMA OnceNone ==
  ASSUME NEW x, NEW s, ~In(x, s) PROVE Once(x, s)
  BY DEF In, Once

-----------------------------------------------------------------------------
(* Queues in which every b has an a before it.                             *)
LEMMA LedNone ==
  ASSUME NEW a, NEW b, NEW seq, ~In(b, seq) PROVE Led(b, a, seq)
  BY DEF Led, In

(* Pushing at the back.                                                    *)
LEMMA LedAppend ==
  ASSUME NEW S, NEW seq \in Seq(S), NEW e, NEW a, NEW b,
         Led(b, a, seq), e = b => In(a, seq)
  PROVE  Led(b, a, Append(seq, e))
  <1>0. PICK n \in Nat : n = Len(seq)
    OBVIOUS
  <1>1. PICK t : t = Append(seq, e)
    OBVIOUS
  <1>2. /\ DOMAIN seq = 1 .. n /\ DOMAIN t = 1 .. n + 1 /\ t[n + 1] = e
        /\ \A k \in 1 .. n : t[k] = seq[k]
    BY <1>0, <1>1
  <1>3. ASSUME NEW k \in 1 .. n + 1, t[k] = b PROVE \E j \in 1 .. n + 1 : j < k /\ t[j] = a
    <2>1. CASE k \in 1 .. n
      <3>1. PICK j \in 1 .. n : j < k /\ seq[j] = a
        BY <1>2, <1>3, <2>1 DEF Led
      <3> QED BY <1>2, <3>1
    <2>2. CASE k = n + 1
      <3>1. PICK j \in 1 .. n : seq[j] = a
        BY <1>2, <1>3, <2>2 DEF In
      <3> QED BY <1>2, <2>2, <3>1
    <2> QED BY <2>1, <2>2
  <1>4. Led(b, a, t)
    BY <1>2, <1>3 DEF Led
  <1> QED BY <1>1, <1>4

(* Taking from the front: b is never at the front, and as long as the      *)
(* front is no a the rest is led as before.                                *)
LEMMA LedTail ==
  ASSUME NEW S, NEW seq \in Seq(S), seq # << >>, NEW a, NEW b, Led(b, a, seq)
  PROVE  /\ Head(seq) # b
         /\ Head(seq) # a => Led(b, a, Tail(seq))
  <1>0. PICK n \in Nat : n = Len(seq)
    OBVIOUS
  <1>1. PICK t : t = Tail(seq)
    OBVIOUS
  <1>2. /\ n > 0 /\ DOMAIN seq = 1 .. n /\ Head(seq) = seq[1] /\ DOMAIN t = 1 .. n - 1
        /\ \A k \in 1 .. n - 1 : t[k] = seq[k + 1]
    BY <1>0, <1>1
  <1>3. \A k \in 1 .. n : seq[k] = b => \E j \in 1 .. n : j < k /\ seq[j] = a
    BY <1>2 DEF Led
  <1>4. Head(seq) # b
    <2>1. 1 \in 1 .. n /\ ~\E j \in 1 .. n : j < 1
      BY <1>2
    <2> QED BY <1>2, <1>3, <2>1
  <1>5. ASSUME seq[1] # a, NEW k \in 1 .. n - 1, t[k] = b
        PROVE  \E j \in 1 .. n - 1 : j < k /\ t[j] = a
    <2>1. k + 1 \in 1 .. n /\ seq[k + 1] = b
      BY <1>2, <1>5
    <2>2. PICK j \in 1 .. n : j < k + 1 /\ seq[j] = a
      BY <1>3, <2>1
    <2>3. j - 1 \in 1 .. n - 1 /\ j - 1 < k /\ t[j - 1] = a
      <3>1. j # 1
        BY <1>5, <2>2
      <3>2. j - 1 \in 1 .. n - 1 /\ j - 1 < k /\ (j - 1) + 1 = j
        BY <2>2, <3>1
      <3> QED BY <1>2, <2>2, <3>2
    <2> QED BY <2>3
  <1>6. seq[1] # a => Led(b, a, t)
    BY <1>2, <1>5 DEF Led
  <1> QED BY <1>1, <1>2, <1>4, <1>6

(* Pushing several elements, none of them b.                               *)
LEMMA LedConcat ==
  ASSUME NEW S, NEW u \in Seq(S), NEW v \in Seq(S), NEW a, NEW b,
         Led(b, a, u), ~In(b, v)
  PROVE  Led(b, a, u \o v)
  <1>0. PICK n \in Nat, m \in Nat : n = Len(u) /\ m = Len(v)
    OBVIOUS
  <1>1. PICK t : t = u \o v
    OBVIOUS
  <1>2. /\ DOMAIN u = 1 .. n /\ DOMAIN v = 1 .. m /\ DOMAIN t = 1 .. n + m
        /\ \A k \in 1 .. n + m : t[k] = IF k <= n THEN u[k] ELSE v[k - n]
    BY <1>0, <1>1
  <1>3. ASSUME NEW k \in 1 .. n + m, t[k] = b PROVE \E j \in 1 .. n + m : j < k /\ t[j] = a
    <2>1. k \in 1 .. n
      <3>1. ASSUME ~(k <= n) PROVE FALSE
        <4>1. k - n \in 1 .. m
          BY <3>1
        <4> QED BY <1>2, <1>3, <3>1, <4>1 DEF In
      <3> QED BY <3>1
    <2>2. u[k] = b
      BY <1>2, <1>3, <2>1
    <2>3. PICK j \in 1 .. n : j < k /\ u[j] = a
      BY <1>2, <2>1, <2>2 DEF Led
    <2>4. j \in 1 .. n + m /\ t[j] = u[j]
      BY <1>2, <2>3
    <2> QED BY <2>3, <2>4
  <1>4. Led(b, a, t)
    BY <1>2, <1>3 DEF Led
  <1> QED BY <1>1, <1>4
=============================================================================
