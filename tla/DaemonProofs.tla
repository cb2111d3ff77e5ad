---------------------------- MODULE DaemonProofs ----------------------------
(***************************************************************************)
(* Proofs about Daemon for any number of applications and GUIs, whatever   *)
(* they send in whatever chunks: the GUIs stay in step with the database.  *)
(***************************************************************************)
EXTENDS Daemon, FiniteSetTheorems, SequenceTheorems, TLAPS

-----------------------------------------------------------------------------
(* Sequences of whatever values.                                           *)

IsSeq(s) == \E S : s \in Seq(S)

LEMMA SeqFacts ==
  ASSUME NEW s, IsSeq(s)
  PROVE  Len(s) \in Nat /\ DOMAIN s = 1 .. Len(s) /\ (s = <<>> <=> Len(s) = 0)
<1>1. PICK S : s \in Seq(S)
  BY DEF IsSeq
<1> QED BY <1>1

\* What an application writes is one.
LEMMA StreamIsSeq == \A c \in Clients : IsSeq(Stream[c]) /\ Len(Stream[c]) \in Nat
<1> TAKE c \in Clients
<1> DEFINE s == Stream[c]
           n == Len(s)
           S == {s[i] : i \in 1 .. n}
<1>1. n \in Nat /\ s = [i \in 1 .. n |-> s[i]]
  BY StreamAssumption
<1> HIDE DEF s, n
<1>2. s \in [1 .. n -> S]
  BY <1>1
<1>3. s \in Seq(S)
  BY <1>1, <1>2
<1> QED BY <1>1, <1>3 DEF IsSeq, s, n

LEMMA EmptyIsSeq == IsSeq(<<>>)
<1>1. <<>> \in Seq({})
  OBVIOUS
<1> QED BY <1>1 DEF IsSeq

LEMMA OneIsSeq == \A x : IsSeq(<<x>>)
<1> TAKE x
<1>1. <<x>> \in Seq({x})
  OBVIOUS
<1> QED BY <1>1 DEF IsSeq

LEMMA TwoIsSeq == \A x, y : IsSeq(<<x, y>>)
<1> TAKE x, y
<1>1. <<x, y>> \in Seq({x, y})
  OBVIOUS
<1> QED BY <1>1 DEF IsSeq

LEMMA AppendFacts ==
  ASSUME NEW s, IsSeq(s), NEW x
  PROVE  /\ IsSeq(Append(s, x))
         /\ Len(Append(s, x)) = Len(s) + 1
         /\ \A i \in 1 .. Len(s) : Append(s, x)[i] = s[i]
         /\ Append(s, x)[Len(s) + 1] = x
         /\ Append(s, x) = s \o <<x>>
<1>1. PICK S : s \in Seq(S)
  BY DEF IsSeq
<1> DEFINE T == S \cup {x}
<1>2. s \in Seq(T)
  BY <1>1
<1>3. x \in T
  OBVIOUS
<1> HIDE DEF T
<1>4. Append(s, x) \in Seq(T)
  BY <1>2, <1>3
<1> QED BY <1>2, <1>3, <1>4 DEF IsSeq

LEMMA MoreFacts ==
  ASSUME NEW s, IsSeq(s), NEW x
  PROVE  /\ IsSeq(s \o <<x>>)
         /\ Len(s \o <<x>>) = Len(s) + 1
         /\ \A i \in 1 .. Len(s) : (s \o <<x>>)[i] = s[i]
         /\ (s \o <<x>>)[Len(s) + 1] = x
<1> DEFINE t == Append(s, x)
<1>1. s \o <<x>> = t
  BY AppendFacts
<1>2. /\ IsSeq(t) /\ Len(t) = Len(s) + 1
      /\ \A i \in 1 .. Len(s) : t[i] = s[i]
      /\ t[Len(s) + 1] = x
  BY AppendFacts
<1> HIDE DEF t
<1> QED BY <1>1, <1>2

LEMMA ConcatFacts ==
  ASSUME NEW s, IsSeq(s), NEW t, IsSeq(t)
  PROVE  /\ IsSeq(s \o t)
         /\ Len(s \o t) = Len(s) + Len(t)
         /\ \A i \in 1 .. Len(s) : (s \o t)[i] = s[i]
         /\ \A i \in 1 .. Len(t) : (s \o t)[Len(s) + i] = t[i]
<1>1. PICK S : s \in Seq(S)
  BY DEF IsSeq
<1>2. PICK T : t \in Seq(T)
  BY DEF IsSeq
<1> DEFINE U == S \cup T
<1>3. s \in Seq(U) /\ t \in Seq(U)
  BY <1>1, <1>2
<1> HIDE DEF U
<1>4. s \o t \in Seq(U)
  BY <1>3
<1> QED BY <1>3, <1>4 DEF IsSeq

LEMMA SubSeqFacts ==
  ASSUME NEW s, IsSeq(s), NEW m \in Nat, NEW n \in Nat, 1 <= m, m <= n + 1, n <= Len(s)
  PROVE  /\ IsSeq(SubSeq(s, m, n))
         /\ Len(SubSeq(s, m, n)) = (n + 1) - m
         /\ \A i \in 1 .. (n + 1) - m : SubSeq(s, m, n)[i] = s[(m + i) - 1]
<1>1. PICK S : s \in Seq(S)
  BY DEF IsSeq
<1>2. SubSeq(s, m, n) \in Seq(S)
  BY <1>1
<1> QED BY <1>1, <1>2 DEF IsSeq

\* A set of natural numbers has a least one.
LEMMA LeastOf ==
  ASSUME NEW T, T \subseteq Nat, T # {}
  PROVE  Min(T) \in T /\ \A y \in T : Min(T) <= y
<1> DEFINE R == {p \in Nat \X Nat : p[1] < p[2]}
<1>1. IsWellFoundedOn(R, Nat)
  BY NatLessThanWellFounded DEF OpToRel
<1>2. \A x, y \in T : x < y => <<x, y>> \in R
  OBVIOUS
<1> HIDE DEF R
<1>3. PICK x \in T : \A y \in T : ~ (<<y, x>> \in R)
  BY <1>1, WFMin
<1>4. \A y \in T : ~ (y < x)
  BY <1>2, <1>3, Zenon
<1>5. \A y \in T : x <= y
  BY <1>4
<1> QED BY <1>5 DEF Min

-----------------------------------------------------------------------------
(* One GUI, and the database it is told about.                             *)

\* A GUIConnection.
Connection(c) ==
  /\ c = [open |-> c.open, in |-> c.in, coming |-> c.coming, out |-> c.out,
          since |-> c.since, connects |-> c.connects, asked |-> c.asked]
  /\ c.open \in BOOLEAN
  /\ IsSeq(c.in) /\ IsSeq(c.coming) /\ IsSeq(c.out)
  /\ c.since \in Nat
  /\ \A i \in 1 .. Len(c.out) : c.out[i].type \in DatagramTypes
  /\ ~c.open => c.out = <<>> /\ c.in = <<>>

\* out, sent since the since-th entry, is what was stored since, in order.
Forwarded(out, since, stored) ==
  /\ since + EntriesTold(out, Len(out)) = Len(stored)
  /\ \A i \in 1 .. Len(out) :
       out[i].type = "TraceEntry" => out[i].entry = stored[since + EntriesTold(out, i)]

\* What was sent in out is in D, or was revoked.
Shown(out, D) ==
  \A i \in 1 .. Len(out) :
    out[i].type = "TraceEntry" =>
      \/ out[i].entry \in ToSet(D)
      \/ \E k \in i + 1 .. Len(out) : out[k].type = "DatabaseNukeFinished"

InStep(c, D, R) ==
  /\ c.open => Forwarded(c.out, c.since, R \o D)
  /\ Shown(c.out, D)

LEMMA ToldFacts ==
  ASSUME NEW out, IsSeq(out)
  PROVE  \A n \in 0 .. Len(out) : /\ EntriesTold(out, n) \in Nat
                                  /\ EntriesTold(out, n) <= n
                                  /\ n > 0 /\ out[n].type = "TraceEntry" => EntriesTold(out, n) > 0
<1> SUFFICES ASSUME NEW n \in 0 .. Len(out)
             PROVE  /\ EntriesTold(out, n) \in Nat
                    /\ EntriesTold(out, n) <= n
                    /\ n > 0 /\ out[n].type = "TraceEntry" => EntriesTold(out, n) > 0
  OBVIOUS
<1> DEFINE E == {i \in 1 .. n : out[i].type = "TraceEntry"}
<1>0. n \in Nat
  BY SeqFacts
<1>1. IsFiniteSet(1 .. n) /\ Cardinality(1 .. n) = n
  BY <1>0, FS_Interval
<1>2. E \subseteq 1 .. n
  OBVIOUS
<1>3. n > 0 /\ out[n].type = "TraceEntry" => n \in E
  BY <1>0
<1>4. EntriesTold(out, n) = Cardinality(E)
  BY DEF EntriesTold
<1> HIDE DEF E
<1>5. IsFiniteSet(E) /\ Cardinality(E) <= Cardinality(1 .. n)
  BY <1>1, <1>2, FS_Subset
<1>6. Cardinality(E) \in Nat
  BY <1>5, FS_CardinalityType
<1>7. n \in E => Cardinality(E) # 0
  BY <1>5, FS_EmptySet
<1> QED BY <1>1, <1>3, <1>4, <1>5, <1>6, <1>7

\* One more datagram.
LEMMA ToldMore ==
  ASSUME NEW out, IsSeq(out), NEW d
  PROVE  /\ \A n \in 0 .. Len(out) : EntriesTold(out \o <<d>>, n) = EntriesTold(out, n)
         /\ EntriesTold(out \o <<d>>, Len(out) + 1)
              = EntriesTold(out, Len(out)) + (IF d.type = "TraceEntry" THEN 1 ELSE 0)
<1> DEFINE t == out \o <<d>>
           L == Len(out)
           E(s, n) == {i \in 1 .. n : s[i].type = "TraceEntry"}
<1>1. L \in Nat /\ t[L + 1] = d /\ \A i \in 1 .. L : t[i] = out[i]
  BY SeqFacts, MoreFacts
<1> HIDE DEF t, L
<1>2. \A n \in 0 .. L : E(t, n) = E(out, n)
  <2> TAKE n \in 0 .. L
  <2>1. \A i \in 1 .. n : t[i] = out[i]
    BY <1>1
  <2> QED BY <2>1
<1>3. E(t, L + 1) = E(out, L) \cup {i \in {L + 1} : d.type = "TraceEntry"}
  <2>1. \A i : i \in 1 .. L + 1 <=> i \in 1 .. L \/ i = L + 1
    BY <1>1
  <2> QED BY <1>1, <2>1
<1>4. IsFiniteSet(E(out, L)) /\ L + 1 \notin E(out, L)
  <2>0. L \in Int
    BY <1>1
  <2>1. IsFiniteSet(1 .. L)
    BY <2>0, FS_Interval
  <2>2. E(out, L) \subseteq 1 .. L
    OBVIOUS
  <2>3. IsFiniteSet(E(out, L))
    BY <2>1, <2>2, FS_Subset
  <2> QED BY <1>1, <2>3
<1>5. \A n : EntriesTold(t, n) = Cardinality(E(t, n)) /\ EntriesTold(out, n) = Cardinality(E(out, n))
  BY DEF EntriesTold
<1> HIDE DEF E
<1>6. \A n \in 0 .. L : EntriesTold(t, n) = EntriesTold(out, n)
  BY <1>2, <1>5
<1>7. Cardinality(E(out, L) \cup {L + 1}) = Cardinality(E(out, L)) + 1
  BY <1>4, FS_AddElement
<1>8. CASE d.type = "TraceEntry"
  <2>1. E(t, L + 1) = E(out, L) \cup {L + 1}
    BY <1>3, <1>8
  <2> QED BY <1>5, <1>6, <1>7, <1>8, <2>1 DEF t, L
<1>9. CASE d.type # "TraceEntry"
  <2>1. E(t, L + 1) = E(out, L)
    BY <1>3, <1>9
  <2>2. Cardinality(E(out, L)) \in Nat
    BY <1>4, FS_CardinalityType
  <2> QED BY <1>5, <1>6, <1>9, <2>1, <2>2 DEF t, L
<1> QED BY <1>8, <1>9

LEMMA ToldGrows ==
  ASSUME NEW out, IsSeq(out)
  PROVE  \A n \in 0 .. Len(out) : EntriesTold(out, n) <= EntriesTold(out, Len(out))
<1> TAKE n \in 0 .. Len(out)
<1> DEFINE E(m) == {i \in 1 .. m : out[i].type = "TraceEntry"}
<1>1. Len(out) \in Nat
  BY SeqFacts
<1>2. IsFiniteSet(1 .. Len(out))
  <2>1. Len(out) \in Int
    BY <1>1
  <2> QED BY <2>1, FS_Interval
<1>3. E(n) \subseteq E(Len(out)) /\ E(Len(out)) \subseteq 1 .. Len(out)
  BY <1>1
<1>4. EntriesTold(out, n) = Cardinality(E(n)) /\ EntriesTold(out, Len(out)) = Cardinality(E(Len(out)))
  BY DEF EntriesTold
<1> HIDE DEF E
<1>5. IsFiniteSet(E(Len(out)))
  BY <1>2, <1>3, FS_Subset
<1>6. Cardinality(E(n)) <= Cardinality(E(Len(out)))
  BY <1>3, <1>5, FS_Subset
<1> QED BY <1>4, <1>6

LEMMA AppendInSet ==
  ASSUME NEW s, IsSeq(s), NEW x
  PROVE  ToSet(s) \subseteq ToSet(Append(s, x)) /\ x \in ToSet(Append(s, x))
<1> DEFINE t == Append(s, x)
<1>1. /\ Len(t) = Len(s) + 1 /\ t[Len(s) + 1] = x
      /\ \A i \in 1 .. Len(s) : t[i] = s[i]
  BY AppendFacts
<1>2. DOMAIN t = 1 .. Len(t) /\ DOMAIN s = 1 .. Len(s) /\ Len(s) \in Nat
  BY AppendFacts, SeqFacts
<1> HIDE DEF t
<1>3. DOMAIN s \subseteq DOMAIN t /\ Len(s) + 1 \in DOMAIN t
  BY <1>1, <1>2
<1>4. ToSet(s) \subseteq ToSet(t) /\ x \in ToSet(t)
  BY <1>1, <1>2, <1>3 DEF ToSet
<1> QED BY <1>4 DEF t

\* A datagram that is no trace entry changes nothing a GUI knows.
LEMMA ForwardedStill ==
  ASSUME NEW out, IsSeq(out), NEW since \in Nat, NEW stored, IsSeq(stored), NEW d,
         d.type # "TraceEntry", Forwarded(out, since, stored)
  PROVE  Forwarded(out \o <<d>>, since, stored)
<1> DEFINE t == out \o <<d>>
<1>1. /\ IsSeq(t) /\ Len(t) = Len(out) + 1 /\ t[Len(out) + 1] = d
      /\ \A i \in 1 .. Len(out) : t[i] = out[i]
  BY MoreFacts
<1>2. Len(out) \in Nat
  BY SeqFacts
<1>3. /\ \A n \in 0 .. Len(out) : EntriesTold(t, n) = EntriesTold(out, n)
      /\ EntriesTold(t, Len(out) + 1) = EntriesTold(out, Len(out))
  <2>1. EntriesTold(out, Len(out)) \in Nat
    BY <1>2, ToldFacts
  <2> QED BY <2>1, ToldMore
<1> HIDE DEF t
<1>4. since + EntriesTold(t, Len(t)) = Len(stored)
  BY <1>1, <1>3 DEF Forwarded
<1>5. ASSUME NEW i \in 1 .. Len(t), t[i].type = "TraceEntry"
      PROVE  t[i].entry = stored[since + EntriesTold(t, i)]
  <2>1. i \in 1 .. Len(out)
    BY <1>1, <1>2, <1>5
  <2> QED BY <1>1, <1>2, <1>3, <1>5, <2>1 DEF Forwarded
<1> QED BY <1>4, <1>5 DEF Forwarded, t

\* An entry is stored and told.
LEMMA ForwardedEntry ==
  ASSUME NEW out, IsSeq(out), NEW since \in Nat, NEW stored, IsSeq(stored), NEW e,
         Forwarded(out, since, stored)
  PROVE  Forwarded(out \o <<EntryDatagram(e)>>, since, Append(stored, e))
<1> DEFINE d == EntryDatagram(e)
           t == out \o <<d>>
           s == Append(stored, e)
<1>1. /\ IsSeq(t) /\ Len(t) = Len(out) + 1 /\ t[Len(out) + 1] = d
      /\ \A i \in 1 .. Len(out) : t[i] = out[i]
  BY MoreFacts
<1>2. Len(out) \in Nat /\ Len(stored) \in Nat
  BY SeqFacts
<1>3. /\ Len(s) = Len(stored) + 1 /\ s[Len(stored) + 1] = e
      /\ \A i \in 1 .. Len(stored) : s[i] = stored[i]
  BY AppendFacts
<1>4. d.type = "TraceEntry" /\ d.entry = e
  BY DEF EntryDatagram
<1>5. /\ \A n \in 0 .. Len(out) : EntriesTold(t, n) = EntriesTold(out, n)
      /\ EntriesTold(t, Len(out) + 1) = EntriesTold(out, Len(out)) + 1
  BY <1>4, ToldMore
<1>6. \A n \in 0 .. Len(out) : EntriesTold(out, n) \in Nat
  BY ToldFacts
<1>7. since + EntriesTold(out, Len(out)) = Len(stored)
  BY DEF Forwarded
<1> HIDE DEF d, t, s
<1>8. since + EntriesTold(t, Len(t)) = Len(s)
  <2>1. EntriesTold(out, Len(out)) \in Nat
    BY <1>2, <1>6
  <2> QED BY <1>1, <1>2, <1>3, <1>5, <1>7, <2>1
<1>9. ASSUME NEW i \in 1 .. Len(t), t[i].type = "TraceEntry"
      PROVE  t[i].entry = s[since + EntriesTold(t, i)]
  <2>1. CASE i = Len(out) + 1
    BY <1>1, <1>3, <1>4, <1>8, <2>1
  <2>2. CASE i \in 1 .. Len(out)
    <3>1. /\ t[i] = out[i] /\ EntriesTold(t, i) = EntriesTold(out, i)
          /\ out[i].entry = stored[since + EntriesTold(out, i)]
      BY <1>1, <1>2, <1>5, <1>9, <2>2 DEF Forwarded
    <3>2. since + EntriesTold(out, i) \in 1 .. Len(stored)
      <4>1. out[i].type = "TraceEntry"
        BY <1>9, <3>1
      <4>2. EntriesTold(out, i) \in Nat /\ EntriesTold(out, i) > 0
        BY <2>2, <4>1, <1>2, ToldFacts
      <4>3. EntriesTold(out, i) <= EntriesTold(out, Len(out))
        BY <2>2, <1>2, ToldGrows
      <4> QED BY <1>2, <1>6, <1>7, <4>2, <4>3
    <3> QED BY <1>3, <3>1, <3>2
  <2> QED BY <1>1, <1>2, <2>1, <2>2
<1> QED BY <1>8, <1>9 DEF Forwarded, d, t, s

\* Storing an entry leaves those shown where they are.
LEMMA ShownMore ==
  ASSUME NEW out, IsSeq(out), NEW D, IsSeq(D), NEW e, NEW d,
         d.type = "TraceEntry" => d.entry = e,
         Shown(out, D)
  PROVE  Shown(out \o <<d>>, Append(D, e))
<1> DEFINE t == out \o <<d>>
           s == Append(D, e)
<1>1. /\ IsSeq(t) /\ Len(t) = Len(out) + 1 /\ t[Len(out) + 1] = d
      /\ \A i \in 1 .. Len(out) : t[i] = out[i]
  BY MoreFacts
<1>2. Len(out) \in Nat
  BY SeqFacts
<1>3. ToSet(D) \subseteq ToSet(s) /\ e \in ToSet(s)
  BY AppendInSet
<1> HIDE DEF t, s
<1>4. ASSUME NEW i \in 1 .. Len(t), t[i].type = "TraceEntry"
      PROVE  \/ t[i].entry \in ToSet(s)
             \/ \E k \in i + 1 .. Len(t) : t[k].type = "DatabaseNukeFinished"
  <2>1. CASE i = Len(out) + 1
    BY <1>1, <1>3, <1>4, <2>1
  <2>2. CASE i \in 1 .. Len(out)
    <3>1. t[i] = out[i]
      BY <1>1, <2>2
    <3>2. CASE out[i].entry \in ToSet(D)
      BY <1>3, <3>1, <3>2
    <3>3. ASSUME NEW k \in i + 1 .. Len(out), out[k].type = "DatabaseNukeFinished"
          PROVE  \E j \in i + 1 .. Len(t) : t[j].type = "DatabaseNukeFinished"
      <4>1. k \in i + 1 .. Len(t) /\ t[k] = out[k]
        BY <1>1, <1>2, <2>2, <3>3
      <4> QED BY <3>3, <4>1
    <3> QED BY <1>4, <2>2, <3>1, <3>2, <3>3 DEF Shown
  <2> QED BY <1>1, <1>2, <2>1, <2>2
<1> QED BY <1>4 DEF Shown, t, s

LEMMA ShownStill ==
  ASSUME NEW out, IsSeq(out), NEW D, NEW d, d.type # "TraceEntry", Shown(out, D)
  PROVE  Shown(out \o <<d>>, D)
<1> DEFINE t == out \o <<d>>
<1>1. /\ IsSeq(t) /\ Len(t) = Len(out) + 1 /\ t[Len(out) + 1] = d
      /\ \A i \in 1 .. Len(out) : t[i] = out[i]
  BY MoreFacts
<1>2. Len(out) \in Nat
  BY SeqFacts
<1> HIDE DEF t
<1>4. ASSUME NEW i \in 1 .. Len(t), t[i].type = "TraceEntry"
      PROVE  \/ t[i].entry \in ToSet(D)
             \/ \E k \in i + 1 .. Len(t) : t[k].type = "DatabaseNukeFinished"
  <2>1. i \in 1 .. Len(out) /\ t[i] = out[i]
    BY <1>1, <1>2, <1>4
  <2>2. CASE out[i].entry \in ToSet(D)
    BY <2>1, <2>2
  <2>3. ASSUME NEW k \in i + 1 .. Len(out), out[k].type = "DatabaseNukeFinished"
        PROVE  \E j \in i + 1 .. Len(t) : t[j].type = "DatabaseNukeFinished"
    <3>1. k \in i + 1 .. Len(t) /\ t[k] = out[k]
      BY <1>1, <1>2, <2>1, <2>3
    <3> QED BY <2>3, <3>1
  <2> QED BY <1>4, <2>1, <2>2, <2>3 DEF Shown
<1> QED BY <1>4 DEF Shown, t

\* After DatabaseNukeFinished a GUI shows nothing.
LEMMA ShownAfresh ==
  ASSUME NEW out, IsSeq(out), NEW D
  PROVE  Shown(out \o <<NukeFinishedDatagram>>, D)
<1> DEFINE t == out \o <<NukeFinishedDatagram>>
<1>1. Len(t) = Len(out) + 1 /\ t[Len(out) + 1] = NukeFinishedDatagram
  BY MoreFacts
<1>2. Len(out) \in Nat /\ NukeFinishedDatagram.type = "DatabaseNukeFinished"
  BY SeqFacts DEF NukeFinishedDatagram
<1> HIDE DEF t
<1>3. ASSUME NEW i \in 1 .. Len(t), t[i].type = "TraceEntry"
      PROVE  \E k \in i + 1 .. Len(t) : t[k].type = "DatabaseNukeFinished"
  <2>1. Len(t) \in i + 1 .. Len(t)
    BY <1>1, <1>2, <1>3
  <2> QED BY <1>1, <1>2, <2>1
<1> QED BY <1>3 DEF Shown, t

-----------------------------------------------------------------------------
(* Datagrams to a connection, if it is open.                               *)

Tell(c, ds) == IF c.open THEN [c EXCEPT !.out = @ \o ds] ELSE c

LEMMA TellFields ==
  ASSUME NEW c, Connection(c), NEW ds, c.open
  PROVE  /\ Tell(c, ds) = [open |-> c.open, in |-> c.in, coming |-> c.coming,
                           out |-> c.out \o ds, since |-> c.since,
                           connects |-> c.connects, asked |-> c.asked]
         /\ Tell(c, ds).open /\ Tell(c, ds).out = c.out \o ds
         /\ Tell(c, ds).since = c.since
<1> DEFINE d == [open |-> c.open, in |-> c.in, coming |-> c.coming, out |-> c.out,
                 since |-> c.since, connects |-> c.connects, asked |-> c.asked]
<1>1. c = d
  BY DEF Connection
<1>2. Tell(d, ds) = [open |-> c.open, in |-> c.in, coming |-> c.coming,
                     out |-> c.out \o ds, since |-> c.since,
                     connects |-> c.connects, asked |-> c.asked]
  BY DEF Tell
<1> HIDE DEF d
<1> DEFINE t == Tell(c, ds)
           out == c.out \o ds
<1>3. t = Tell(d, ds)
  BY <1>1
<1> HIDE DEF t, out
<1>4. t = [open |-> c.open, in |-> c.in, coming |-> c.coming, out |-> out,
           since |-> c.since, connects |-> c.connects, asked |-> c.asked]
  BY <1>2, <1>3 DEF out
<1>5. t.open /\ t.out = out /\ t.since = c.since
  BY <1>4
<1> QED BY <1>4, <1>5 DEF t, out

LEMMA TellConnection ==
  ASSUME NEW c, Connection(c), NEW ds, IsSeq(ds),
         \A i \in 1 .. Len(ds) : ds[i].type \in DatagramTypes
  PROVE  Connection(Tell(c, ds))
<1>1. CASE ~c.open
  BY <1>1 DEF Tell
<1>2. CASE c.open
  <2> DEFINE out == c.out \o ds
             t == Tell(c, ds)
  <2>1. /\ IsSeq(out) /\ Len(out) = Len(c.out) + Len(ds)
        /\ \A i \in 1 .. Len(c.out) : out[i] = c.out[i]
        /\ \A i \in 1 .. Len(ds) : out[Len(c.out) + i] = ds[i]
    BY ConcatFacts DEF Connection
  <2>2. t = [open |-> c.open, in |-> c.in, coming |-> c.coming, out |-> out,
             since |-> c.since, connects |-> c.connects, asked |-> c.asked]
    BY <1>2, TellFields
  <2> HIDE DEF out, t
  <2>3. Len(c.out) \in Nat /\ Len(ds) \in Nat
    BY SeqFacts DEF Connection
  <2>4. ASSUME NEW i \in 1 .. Len(out) PROVE out[i].type \in DatagramTypes
    <3>1. CASE i \in 1 .. Len(c.out)
      BY <2>1, <3>1 DEF Connection
    <3>2. CASE i \notin 1 .. Len(c.out)
      <4>1. i - Len(c.out) \in 1 .. Len(ds) /\ Len(c.out) + (i - Len(c.out)) = i
        BY <2>1, <2>3, <3>2
      <4> QED BY <2>1, <4>1
    <3> QED BY <3>1, <3>2
  <2>5. Connection(t)
    BY <1>2, <2>1, <2>2, <2>4 DEF Connection
  <2> QED BY <2>5 DEF t
<1>3. c.open \/ ~c.open
  OBVIOUS
<1> QED BY <1>1, <1>2, <1>3, Zenon

LEMMA ClosedInStep ==
  ASSUME NEW c, c.open = FALSE, c.out = <<>>, NEW D, NEW R
  PROVE  InStep(c, D, R)
BY DEF InStep, Shown

\* The sequence of all entries, after each of the steps.
LEMMA AppendStored ==
  ASSUME NEW R, IsSeq(R), NEW D, IsSeq(D), NEW e
  PROVE  R \o Append(D, e) = Append(R \o D, e)
<1>1. PICK S : R \in Seq(S)
  BY DEF IsSeq
<1>2. PICK T : D \in Seq(T)
  BY DEF IsSeq
<1> DEFINE U == (S \cup T) \cup {e}
<1>3. R \in Seq(U) /\ D \in Seq(U) /\ e \in U
  BY <1>1, <1>2
<1> HIDE DEF U
<1> QED BY <1>3

LEMMA MovedStored ==
  ASSUME NEW R, IsSeq(R), NEW D, IsSeq(D), NEW n \in Nat, n <= Len(D)
  PROVE  (R \o SubSeq(D, 1, n)) \o SubSeq(D, n + 1, Len(D)) = R \o D
<1>1. PICK S : R \in Seq(S)
  BY DEF IsSeq
<1>2. PICK T : D \in Seq(T)
  BY DEF IsSeq
<1> DEFINE U == S \cup T
<1>3. R \in Seq(U) /\ D \in Seq(U)
  BY <1>1, <1>2
<1> HIDE DEF U
<1>4. SubSeq(D, 1, n) \in Seq(U) /\ SubSeq(D, n + 1, Len(D)) \in Seq(U)
  BY <1>3
<1>5. SubSeq(D, 1, n) \o SubSeq(D, n + 1, Len(D)) = D
  <2>1. 1 \in 1 .. Len(D) + 1 /\ n \in 1 - 1 .. Len(D) /\ Len(D) \in n .. Len(D)
    BY <1>3
  <2>2. SubSeq(D, 1, n) \o SubSeq(D, n + 1, Len(D)) = SubSeq(D, 1, Len(D))
    BY <1>3, <2>1, ConcatAdjacentSubSeq
  <2> QED BY <1>3, <2>2, SubSeqFull
<1>6. (R \o SubSeq(D, 1, n)) \o SubSeq(D, n + 1, Len(D))
        = R \o (SubSeq(D, 1, n) \o SubSeq(D, n + 1, Len(D)))
  <2> DEFINE A == SubSeq(D, 1, n)
             B == SubSeq(D, n + 1, Len(D))
  <2>1. A \in Seq(U) /\ B \in Seq(U)
    BY <1>4
  <2> HIDE DEF A, B
  <2>2. (R \o A) \o B = R \o (A \o B)
    BY <1>3, <2>1, ConcatAssociative
  <2> QED BY <2>2 DEF A, B
<1> QED BY <1>5, <1>6

LEMMA ClearedStored ==
  ASSUME NEW R, IsSeq(R), NEW D, IsSeq(D)
  PROVE  (R \o D) \o <<>> = R \o D
<1>1. PICK S : R \o D \in Seq(S)
  BY ConcatFacts DEF IsSeq
<1> QED BY <1>1

\* Server::handleTraceEntry
LEMMA TellEntry ==
  ASSUME NEW c, Connection(c), NEW D, IsSeq(D), NEW R, IsSeq(R), NEW e, InStep(c, D, R)
  PROVE  InStep(Tell(c, <<EntryDatagram(e)>>), Append(D, e), R)
<1>1. CASE ~c.open
  BY <1>1, ClosedInStep DEF Tell, Connection
<1>2. CASE c.open
  <2> DEFINE t == Tell(c, <<EntryDatagram(e)>>)
  <2>1. t.open /\ t.out = c.out \o <<EntryDatagram(e)>> /\ t.since = c.since
    BY <1>2, TellFields
  <2>2. IsSeq(R \o D) /\ IsSeq(c.out) /\ c.since \in Nat
    BY ConcatFacts DEF Connection
  <2>3. Forwarded(c.out \o <<EntryDatagram(e)>>, c.since, Append(R \o D, e))
    BY <1>2, <2>2, ForwardedEntry DEF InStep
  <2>4. Shown(c.out \o <<EntryDatagram(e)>>, Append(D, e))
    <3>1. EntryDatagram(e).entry = e
      BY DEF EntryDatagram
    <3>2. Shown(c.out, D)
      BY DEF InStep
    <3> HIDE DEF t
    <3> DEFINE d == EntryDatagram(e)
    <3>3. d.entry = e
      BY <3>1
    <3> HIDE DEF d
    <3>4. Shown(c.out \o <<d>>, Append(D, e))
      BY <2>2, <3>2, <3>3, ShownMore
    <3> QED BY <3>4 DEF d
  <2>5. R \o Append(D, e) = Append(R \o D, e)
    BY AppendStored
  <2> HIDE DEF t
  <2>6. InStep(t, Append(D, e), R)
    BY <2>1, <2>3, <2>4, <2>5 DEF InStep
  <2> QED BY <2>6 DEF t
<1> QED BY <1>1, <1>2

\* Server::archivedEntries, nukeDatabase
LEMMA TellCleared ==
  ASSUME NEW c, Connection(c), NEW D, IsSeq(D), NEW R, IsSeq(R), InStep(c, D, R),
         NEW D2, NEW R2, R2 \o D2 = R \o D
  PROVE  InStep(Tell(c, <<NukeFinishedDatagram>>), D2, R2)
<1>1. CASE ~c.open
  BY <1>1, ClosedInStep DEF Tell, Connection
<1>2. CASE c.open
  <2> DEFINE t == Tell(c, <<NukeFinishedDatagram>>)
  <2>1. t.open /\ t.out = c.out \o <<NukeFinishedDatagram>> /\ t.since = c.since
    BY <1>2, TellFields
  <2>2. IsSeq(R \o D) /\ IsSeq(c.out) /\ c.since \in Nat
    BY ConcatFacts DEF Connection
  <2>3. NukeFinishedDatagram.type # "TraceEntry"
    BY DEF NukeFinishedDatagram
  <2>4. Forwarded(c.out \o <<NukeFinishedDatagram>>, c.since, R \o D)
    BY <1>2, <2>2, <2>3, ForwardedStill DEF InStep
  <2>5. Shown(c.out \o <<NukeFinishedDatagram>>, D2)
    BY <2>2, ShownAfresh
  <2> HIDE DEF t
  <2>6. InStep(t, D2, R2)
    BY <2>1, <2>4, <2>5 DEF InStep
  <2> QED BY <2>6 DEF t
<1> QED BY <1>1, <1>2

\* Server::handleShutdownEvent
LEMMA TellShutdown ==
  ASSUME NEW c, Connection(c), NEW D, IsSeq(D), NEW R, IsSeq(R), InStep(c, D, R)
  PROVE  InStep(Tell(c, <<ShutdownDatagram>>), D, R)
<1>1. CASE ~c.open
  BY <1>1, ClosedInStep DEF Tell, Connection
<1>2. CASE c.open
  <2> DEFINE t == Tell(c, <<ShutdownDatagram>>)
  <2>1. t.open /\ t.out = c.out \o <<ShutdownDatagram>> /\ t.since = c.since
    BY <1>2, TellFields
  <2>2. IsSeq(R \o D) /\ IsSeq(c.out) /\ c.since \in Nat
    BY ConcatFacts DEF Connection
  <2>3. ShutdownDatagram.type # "TraceEntry"
    BY DEF ShutdownDatagram
  <2>4. Forwarded(c.out \o <<ShutdownDatagram>>, c.since, R \o D)
    BY <1>2, <2>2, <2>3, ForwardedStill DEF InStep
  <2>5. Shown(c.out \o <<ShutdownDatagram>>, D)
    BY <2>2, <2>3, ShownStill DEF InStep
  <2> HIDE DEF t
  <2>6. InStep(t, D, R)
    BY <2>1, <2>4, <2>5 DEF InStep
  <2> QED BY <2>6 DEF t
<1> QED BY <1>1, <1>2

\* The two datagrams of an archived and then stored entry.
LEMMA TellTwo ==
  ASSUME NEW c, Connection(c), NEW a, NEW b
  PROVE  Tell(c, <<a, b>>) = Tell(Tell(c, <<a>>), <<b>>)
<1>1. CASE ~c.open
  BY <1>1 DEF Tell
<1>2. CASE c.open
  <2>1. c.out \o <<a, b>> = (c.out \o <<a>>) \o <<b>>
    <3> DEFINE out == c.out
               A == <<a>>
    <3>1. IsSeq(out) /\ IsSeq(A) /\ <<a, b>> = Append(A, b)
      BY OneIsSeq DEF Connection
    <3> HIDE DEF out, A
    <3>2. out \o Append(A, b) = Append(out \o A, b)
      BY <3>1, AppendStored
    <3>3. IsSeq(out \o A)
      BY <3>1, ConcatFacts
    <3>4. Append(out \o A, b) = (out \o A) \o <<b>>
      BY <3>3, AppendFacts
    <3> QED BY <3>1, <3>2, <3>4 DEF out, A
  <2> DEFINE r(out) == [open |-> c.open, in |-> c.in, coming |-> c.coming, out |-> out,
                        since |-> c.since, connects |-> c.connects, asked |-> c.asked]
  <2>2. Tell(c, <<a, b>>) = r(c.out \o <<a, b>>) /\ Tell(c, <<a>>) = r(c.out \o <<a>>)
    BY <1>2, TellFields
  <2>3. Tell(r(c.out \o <<a>>), <<b>>) = r((c.out \o <<a>>) \o <<b>>)
    BY <1>2 DEF Tell
  <2> HIDE DEF r
  <2> QED BY <2>1, <2>2, <2>3
<1> QED BY <1>1, <1>2

-----------------------------------------------------------------------------
(* The invariant.                                                          *)

\* The main thread and the data.
FlowInv ==
  /\ position \in [Clients -> Nat]
  /\ \A c \in Clients : position[c] <= Len(Stream[c])
  /\ connected \subseteq Clients
  /\ running \in {"none", "xml"} \cup GUIs
  /\ IsSeq(unread) /\ (running = "xml" => unread # <<>>)
  /\ IsSeq(db) /\ IsSeq(removed) /\ Len(db) <= MaxStored
  /\ nextPayloadSize \in {0, 9}

\* The GUIs.
GUIInv ==
  /\ gui = [g \in GUIs |-> gui[g]]
  /\ \A g \in GUIs : Connection(gui[g]) /\ InStep(gui[g], db, removed)

LEMMA InvIsInStep == FlowInv /\ GUIInv => GUIsInStep
<1> SUFFICES ASSUME FlowInv, GUIInv PROVE GUIsInStep
  OBVIOUS
<1>1. \A g \in GUIs : DOMAIN gui[g].out = 1 .. Len(gui[g].out)
  BY SeqFacts DEF GUIInv, Connection
<1>2. \A c \in Clients : position[c] \in 0 .. Len(Stream[c])
  <2> TAKE c \in Clients
  <2>1. Len(Stream[c]) \in Nat
    BY StreamIsSeq
  <2> QED BY <2>1 DEF FlowInv
<1>3. DaemonTypeOK
  BY <1>1, <1>2 DEF FlowInv, GUIInv, Connection, DaemonTypeOK
<1>4. ForwardedAsStored
  BY <1>1 DEF GUIInv, InStep, Forwarded, ForwardedAsStored, StoredEver
<1>5. ShownIsStored
  BY <1>1 DEF GUIInv, InStep, Shown, ShownIsStored
<1> QED BY <1>3, <1>4, <1>5 DEF GUIsInStep

LEMMA NoConnectionIs ==
  ASSUME NEW D, NEW R
  PROVE  /\ NoConnection = [open |-> FALSE, in |-> <<>>, coming |-> <<>>, out |-> <<>>,
                            since |-> 0, connects |-> 0, asked |-> 0]
         /\ Connection(NoConnection) /\ InStep(NoConnection, D, R)
<1>1. NoConnection = [open |-> FALSE, in |-> <<>>, coming |-> <<>>, out |-> <<>>,
                      since |-> 0, connects |-> 0, asked |-> 0]
  BY DEF NoConnection
<1>2. Connection(NoConnection)
  BY <1>1, EmptyIsSeq DEF Connection
<1>3. InStep(NoConnection, D, R)
  BY <1>1, ClosedInStep
<1> QED BY <1>1, <1>2, <1>3

LEMMA InvInit == Init => FlowInv /\ GUIInv
<1> SUFFICES ASSUME Init PROVE FlowInv /\ GUIInv
  OBVIOUS
<1>1. \A c \in Clients : 0 <= Len(Stream[c])
  <2> TAKE c \in Clients
  <2>1. Len(Stream[c]) \in Nat
    BY StreamIsSeq
  <2> QED BY <2>1
<1>2. FlowInv
  <2>1. Len(<<>>) <= MaxStored
    BY DaemonBoundsAssumption
  <2> QED BY <1>1, <2>1, EmptyIsSeq DEF Init, FlowInv
<1>3. GUIInv
  BY NoConnectionIs DEF Init, GUIInv
<1> QED BY <1>2, <1>3

-----------------------------------------------------------------------------
(* What the steps have in common.                                          *)

\* Nothing a GUI is told, nor what it is told about, changes.
LEMMA SameGUIs ==
  ASSUME GUIInv, UNCHANGED <<gui, db, removed>>
  PROVE  GUIInv'
BY DEF GUIInv

\* One connection changes, but not what went out, or is closed.
LEMMA OneGUI ==
  ASSUME GUIInv, UNCHANGED <<db, removed>>, NEW g \in GUIs, NEW c,
         gui' = [gui EXCEPT ![g] = c], Connection(c), InStep(c, db, removed)
  PROVE  GUIInv'
<1>1. gui' = [h \in GUIs |-> IF h = g THEN c ELSE gui[h]]
  BY DEF GUIInv
<1> QED BY <1>1 DEF GUIInv

\* Every GUI is told the same.
LEMMA AllGUIs ==
  ASSUME GUIInv, NEW ds, gui' = [g \in GUIs |-> Tell(gui[g], ds)],
         \A g \in GUIs : Connection(Tell(gui[g], ds)) /\ InStep(Tell(gui[g], ds), db', removed')
  PROVE  GUIInv'
BY DEF GUIInv

LEMMA BroadcastTells ==
  ASSUME NEW ds, Broadcast(ds)
  PROVE  gui' = [g \in GUIs |-> Tell(gui[g], ds)]
BY DEF Broadcast, Tell

LEMMA NextCallIs ==
  ASSUME IsSeq(unread), unread # <<>>
  PROVE  NextCall \in 1 .. Len(unread)
<1> DEFINE T == {i \in DOMAIN unread : IsCall(unread[i])} \cup {Len(unread)}
<1>1. Len(unread) \in Nat /\ Len(unread) # 0 /\ DOMAIN unread = 1 .. Len(unread)
  BY SeqFacts
<1>2. T \subseteq 1 .. Len(unread) /\ T # {}
  BY <1>1
<1>3. T \subseteq Nat
  BY <1>2
<1>4. NextCall = Min(T)
  BY DEF NextCall
<1> HIDE DEF T
<1>5. Min(T) \in T
  BY <1>2, <1>3, LeastOf
<1> QED BY <1>2, <1>4, <1>5

\* The reader takes what it reads; the slot goes on only while there are data.
LEMMA ReadOnFacts ==
  ASSUME FlowInv, ReadOn
  PROVE  /\ IsSeq(unread')
         /\ ContinueParsing => running' \in {"none", "xml"}
                               /\ (running' = "xml" => unread' # <<>>)
<1>1. IsSeq(unread) /\ unread # <<>>
  BY DEF FlowInv, ReadOn
<1>2. NextCall \in 1 .. Len(unread) /\ Len(unread) \in Nat
  BY <1>1, NextCallIs, SeqFacts
<1> DEFINE n == NextCall
<1> HIDE DEF n
<1>3. n \in 1 .. Len(unread)
  BY <1>2 DEF n
<1>4. unread' = SubSeq(unread, n + 1, Len(unread))
  BY DEF ReadOn, n
<1>5. IsSeq(SubSeq(unread, n + 1, Len(unread)))
      /\ Len(SubSeq(unread, n + 1, Len(unread))) = (Len(unread) + 1) - (n + 1)
  BY <1>1, <1>2, <1>3, SubSeqFacts
<1>6. IsSeq(unread') /\ Len(unread') = Len(unread) - n
  BY <1>2, <1>3, <1>4, <1>5
<1>7. Len(unread) > n => unread' # <<>>
  <2> HAVE Len(unread) > n
  <2>1. Len(unread') # 0
    BY <1>2, <1>3, <1>6
  <2> QED BY <2>1
<1>8. ContinueParsing => running' = IF Len(unread) > n THEN "xml" ELSE "none"
  BY DEF ContinueParsing, n
<1> QED BY <1>6, <1>7, <1>8

LEMMA FlowKept ==
  ASSUME FlowInv, UNCHANGED <<position, connected, nextPayloadSize>>,
         IsSeq(unread'), running' \in {"none", "xml"}, running' = "xml" => unread' # <<>>,
         IsSeq(db'), IsSeq(removed'), Len(db') <= MaxStored
  PROVE  FlowInv'
BY DEF FlowInv

-----------------------------------------------------------------------------
(* Data from the traced applications.                                      *)

LEMMA DataArrive ==
  ASSUME FlowInv, GUIInv, NEW c \in Clients, NEW n, handleIncomingData(c, n)
  PROVE  FlowInv' /\ GUIInv'
<1>1. IsSeq(Stream[c]) /\ Len(Stream[c]) \in Nat /\ position[c] \in Nat
      /\ position[c] <= Len(Stream[c])
  BY StreamIsSeq DEF FlowInv
<1> DEFINE left == Len(Stream[c]) - position[c]
<1>2. left \in Nat
  BY <1>1
<1>3. n \in Nat /\ n # 0 /\ n <= left
  <2>1. PICK size \in ChunkSizes : n = Min({size, left}) /\ n # 0
    BY DEF handleIncomingData, Chunks
  <2> HIDE DEF left
  <2>2. size \in Nat
    BY ChunksAssumption
  <2> DEFINE T == {size, left}
  <2>3. T \subseteq Nat /\ T # {} /\ left \in T
    BY <1>2, <2>2
  <2> HIDE DEF T
  <2>4. Min(T) \in T /\ Min(T) <= left
    BY <2>3, LeastOf
  <2> QED BY <2>1, <2>3, <2>4 DEF T
<1> DEFINE p == position[c]
           t == SubSeq(Stream[c], p + 1, p + n)
<1>4. IsSeq(t) /\ Len(t) = n
  <2> DEFINE s == Stream[c]
  <2>1. IsSeq(s) /\ p + 1 \in Nat /\ p + n \in Nat /\ 1 <= p + 1 /\ p + 1 <= (p + n) + 1
        /\ p + n <= Len(s)
    BY <1>1, <1>3
  <2>2. ((p + n) + 1) - (p + 1) = n
    BY <1>1, <1>3
  <2> HIDE DEF p, s
  <2>3. IsSeq(SubSeq(s, p + 1, p + n)) /\ Len(SubSeq(s, p + 1, p + n)) = ((p + n) + 1) - (p + 1)
    BY <2>1, SubSeqFacts
  <2> QED BY <2>2, <2>3 DEF s
<1>5. IsSeq(unread') /\ unread' # <<>>
  <2>1. unread' = unread \o t
    BY DEF handleIncomingData
  <2>2. IsSeq(unread) /\ Len(unread) \in Nat
    BY SeqFacts DEF FlowInv
  <2> HIDE DEF t
  <2>3. IsSeq(unread \o t) /\ Len(unread \o t) = Len(unread) + n
    BY <1>4, <2>2, ConcatFacts
  <2>4. Len(unread') # 0
    BY <1>3, <2>1, <2>2, <2>3
  <2> QED BY <2>1, <2>3, <2>4
<1>6. position' = [position EXCEPT ![c] = p + n] /\ p + n \in Nat /\ p + n <= Len(Stream[c])
  BY <1>1, <1>3 DEF handleIncomingData
<1>7. position' \in [Clients -> Nat] /\ \A d \in Clients : position'[d] <= Len(Stream[d])
  <2> HIDE DEF p
  <2> QED BY <1>6 DEF FlowInv
<1>8. running' \in {"none", "xml"}
  BY DEF handleIncomingData
<1>9. FlowInv'
  BY <1>5, <1>7, <1>8 DEF FlowInv, handleIncomingData, dbVars
<1>10. GUIInv'
  BY SameGUIs DEF handleIncomingData, dbVars
<1> QED BY <1>9, <1>10

LEMMA ClientDies ==
  ASSUME FlowInv, GUIInv, NEW c \in Clients, Disconnect(c)
  PROVE  FlowInv' /\ GUIInv'
<1>1. FlowInv'
  BY DEF FlowInv, Disconnect, dbVars
<1>2. GUIInv'
  BY SameGUIs DEF Disconnect, dbVars
<1> QED BY <1>1, <1>2

\* The steps of the reader that store nothing and tell nobody.
LEMMA ReadsOnly ==
  ASSUME FlowInv, GUIInv, ReadOn, UNCHANGED <<db, removed, gui>>,
         running' = "none" \/ ContinueParsing
  PROVE  FlowInv' /\ GUIInv'
<1>1. /\ IsSeq(unread') /\ running' \in {"none", "xml"}
      /\ running' = "xml" => unread' # <<>>
  BY ReadOnFacts
<1>2. UNCHANGED <<position, connected, nextPayloadSize>>
  BY DEF ReadOn
<1>3. IsSeq(db') /\ IsSeq(removed') /\ Len(db') <= MaxStored
  BY DEF FlowInv
<1> QED BY <1>1, <1>2, <1>3, FlowKept, SameGUIs

LEMMA EntryStored ==
  ASSUME FlowInv, GUIInv, HandleEntry
  PROVE  FlowInv' /\ GUIInv'
<1> DEFINE e == reader'.handler.entry
           ds == <<EntryDatagram(e)>>
<1>1. /\ IsSeq(unread') /\ running' \in {"none", "xml"}
      /\ running' = "xml" => unread' # <<>>
  BY ReadOnFacts DEF HandleEntry, EndOf
<1>2. UNCHANGED <<position, connected, nextPayloadSize>>
  BY DEF HandleEntry, EndOf, ReadOn
<1>3. db' = Append(db, e) /\ removed' = removed /\ Len(db) < MaxStored
  BY DEF HandleEntry
<1>4. IsSeq(db) /\ IsSeq(removed) /\ Len(db) \in Nat
  BY SeqFacts DEF FlowInv
<1>5. Broadcast(ds)
  BY DEF HandleEntry
<1> HIDE DEF e
<1>6. IsSeq(db') /\ Len(db') = Len(db) + 1
  BY <1>3, <1>4, AppendFacts
<1>7. IsSeq(removed') /\ Len(db') <= MaxStored
  BY <1>3, <1>4, <1>6, DaemonBoundsAssumption
<1>8. FlowInv'
  BY <1>1, <1>2, <1>6, <1>7, FlowKept
<1>9. IsSeq(ds) /\ \A i \in 1 .. Len(ds) : ds[i].type \in DatagramTypes
  <2>1. EntryDatagram(e).type \in DatagramTypes
    BY DEF EntryDatagram, DatagramTypes
  <2>2. IsSeq(ds) /\ Len(ds) = 1 /\ ds[1] = EntryDatagram(e)
    BY OneIsSeq
  <2> QED BY <2>1, <2>2
<1>10. ASSUME NEW g \in GUIs
       PROVE  Connection(Tell(gui[g], ds)) /\ InStep(Tell(gui[g], ds), db', removed')
  <2> DEFINE c == gui[g]
  <2>1. Connection(c) /\ InStep(c, db, removed)
    BY DEF GUIInv
  <2> HIDE DEF c
  <2>2. InStep(Tell(c, <<EntryDatagram(e)>>), Append(db, e), removed)
    BY <1>4, <2>1, TellEntry
  <2> HIDE DEF ds
  <2>3. Connection(Tell(c, ds))
    BY <1>9, <2>1, TellConnection
  <2> QED BY <1>3, <2>2, <2>3 DEF c, ds
<1> HIDE DEF ds
<1>11. GUIInv'
  BY <1>5, <1>10, BroadcastTells, AllGUIs
<1> QED BY <1>8, <1>11

LEMMA EntryArchives ==
  ASSUME FlowInv, GUIInv, NEW n \in 1 .. MaxStored, HandleEntryArchives(n)
  PROVE  FlowInv' /\ GUIInv'
<1> DEFINE e == reader'.handler.entry
           ds == <<NukeFinishedDatagram, EntryDatagram(e)>>
           D == SubSeq(db, n + 1, Len(db))
           R == removed \o SubSeq(db, 1, n)
<1>1. /\ IsSeq(unread') /\ running' \in {"none", "xml"}
      /\ running' = "xml" => unread' # <<>>
  BY ReadOnFacts DEF HandleEntryArchives, EndOf
<1>2. UNCHANGED <<position, connected, nextPayloadSize>>
  BY DEF HandleEntryArchives, EndOf, ReadOn
<1>3. db' = Append(D, e) /\ removed' = R /\ Len(db) >= MaxStored
  BY DEF HandleEntryArchives
<1>4. IsSeq(db) /\ IsSeq(removed) /\ Len(db) \in Nat
      /\ MaxStored \in Nat /\ n \in Nat /\ 1 <= n /\ n <= Len(db) /\ Len(db) = MaxStored
  <2>1. IsSeq(db) /\ IsSeq(removed) /\ Len(db) <= MaxStored
    BY DEF FlowInv
  <2>2. Len(db) \in Nat
    BY <2>1, SeqFacts
  <2> QED BY <1>3, <2>1, <2>2, DaemonBoundsAssumption
<1>5. Broadcast(ds)
  BY DEF HandleEntryArchives
<1>6. IsSeq(D) /\ Len(D) = Len(db) - n
  <2>1. IsSeq(D) /\ Len(D) = (Len(db) + 1) - (n + 1)
    BY <1>4, SubSeqFacts
  <2> QED BY <1>4, <2>1
<1>7. IsSeq(R)
  <2>1. IsSeq(SubSeq(db, 1, n))
    BY <1>4, SubSeqFacts
  <2> QED BY <1>4, <2>1, ConcatFacts
<1>8. R \o D = removed \o db
  BY <1>4, MovedStored
<1> HIDE DEF e, D, R
<1>9. IsSeq(db') /\ Len(db') = Len(D) + 1
  BY <1>3, <1>6, AppendFacts
<1>10. IsSeq(removed') /\ Len(db') <= MaxStored
  BY <1>3, <1>4, <1>6, <1>7, <1>9
<1>11. FlowInv'
  BY <1>1, <1>2, <1>9, <1>10, FlowKept
<1>12. IsSeq(ds) /\ \A i \in 1 .. Len(ds) : ds[i].type \in DatagramTypes
  <2>1. EntryDatagram(e).type \in DatagramTypes /\ NukeFinishedDatagram.type \in DatagramTypes
    BY DEF EntryDatagram, NukeFinishedDatagram, DatagramTypes
  <2>2. IsSeq(ds) /\ Len(ds) = 2 /\ ds[1] = NukeFinishedDatagram /\ ds[2] = EntryDatagram(e)
    BY TwoIsSeq
  <2> QED BY <2>1, <2>2
<1>13. ASSUME NEW g \in GUIs
       PROVE  Connection(Tell(gui[g], ds)) /\ InStep(Tell(gui[g], ds), db', removed')
  <2> DEFINE c == gui[g]
             t == Tell(c, <<NukeFinishedDatagram>>)
  <2>1. Connection(c) /\ InStep(c, db, removed)
    BY DEF GUIInv
  <2> HIDE DEF c
  <2>2. InStep(t, D, R)
    BY <1>4, <1>8, <2>1, TellCleared
  <2>3. Connection(t)
    <3> DEFINE one == <<NukeFinishedDatagram>>
    <3>1. IsSeq(one) /\ Len(one) = 1 /\ one[1] = NukeFinishedDatagram
      BY OneIsSeq
    <3>2. \A i \in 1 .. Len(one) : one[i].type \in DatagramTypes
      BY <3>1 DEF NukeFinishedDatagram, DatagramTypes
    <3> HIDE DEF one
    <3>3. Connection(Tell(c, one))
      BY <2>1, <3>1, <3>2, TellConnection
    <3> QED BY <3>3 DEF one
  <2>4. Tell(c, ds) = Tell(t, <<EntryDatagram(e)>>)
    BY <2>1, TellTwo
  <2> HIDE DEF t
  <2>5. InStep(Tell(t, <<EntryDatagram(e)>>), Append(D, e), R)
    BY <1>6, <1>7, <2>2, <2>3, TellEntry
  <2> HIDE DEF ds
  <2>6. Connection(Tell(c, ds))
    BY <1>12, <2>1, TellConnection
  <2> QED BY <1>3, <2>4, <2>5, <2>6 DEF c
<1> HIDE DEF ds
<1>14. GUIInv'
  BY <1>5, <1>13, BroadcastTells, AllGUIs
<1> QED BY <1>11, <1>14

LEMMA ShutdownTold ==
  ASSUME FlowInv, GUIInv, HandleShutdownEvent
  PROVE  FlowInv' /\ GUIInv'
<1> DEFINE ds == <<ShutdownDatagram>>
<1>1. /\ IsSeq(unread') /\ running' \in {"none", "xml"}
      /\ running' = "xml" => unread' # <<>>
  BY ReadOnFacts DEF HandleShutdownEvent, EndOf
<1>2. UNCHANGED <<position, connected, nextPayloadSize, db, removed>>
  BY DEF HandleShutdownEvent, EndOf, ReadOn, dbVars
<1>3. IsSeq(db) /\ IsSeq(removed) /\ Len(db) <= MaxStored
  BY DEF FlowInv
<1>4. FlowInv'
  BY <1>1, <1>2, <1>3, FlowKept
<1>5. Broadcast(ds)
  BY DEF HandleShutdownEvent
<1>6. IsSeq(ds) /\ \A i \in 1 .. Len(ds) : ds[i].type \in DatagramTypes
  <2>1. IsSeq(ds) /\ Len(ds) = 1 /\ ds[1] = ShutdownDatagram
    BY OneIsSeq
  <2> QED BY <2>1 DEF ShutdownDatagram, DatagramTypes
<1>7. ASSUME NEW g \in GUIs
      PROVE  Connection(Tell(gui[g], ds)) /\ InStep(Tell(gui[g], ds), db', removed')
  <2> DEFINE c == gui[g]
  <2>1. Connection(c) /\ InStep(c, db, removed)
    BY DEF GUIInv
  <2> HIDE DEF c
  <2>2. InStep(Tell(c, <<ShutdownDatagram>>), db, removed)
    BY <1>3, <2>1, TellShutdown
  <2> HIDE DEF ds
  <2>3. Connection(Tell(c, ds))
    BY <1>6, <2>1, TellConnection
  <2> QED BY <1>2, <2>2, <2>3 DEF c, ds
<1> HIDE DEF ds
<1>8. GUIInv'
  BY <1>5, <1>7, BroadcastTells, AllGUIs
<1> QED BY <1>4, <1>8

LEMMA ParseStep ==
  ASSUME FlowInv, GUIInv, Parse
  PROVE  FlowInv' /\ GUIInv'
<1>1. CASE ParseError
  BY <1>1, ReadsOnly DEF ParseError, dbVars
<1>2. CASE ParseRest
  BY <1>2, ReadsOnly DEF ParseRest, dbVars
<1>3. CASE HandleEntryFails
  BY <1>3, ReadsOnly DEF HandleEntryFails, EndOf
<1>4. CASE ApplyStorage
  BY <1>4, ReadsOnly DEF ApplyStorage, EndOf
<1> QED
  BY <1>1, <1>2, <1>3, <1>4, EntryStored, EntryArchives, ShutdownTold DEF Parse

-----------------------------------------------------------------------------
(* The GUIs.                                                               *)

LEMMA FlowKeptByGUI ==
  ASSUME FlowInv, UNCHANGED <<position, connected, unread, db, removed>>,
         nextPayloadSize' \in {0, 9},
         running' = running \/ running' \in GUIs \/ running' = "none"
  PROVE  FlowInv'
BY GUIsAssumption DEF FlowInv

\* A connection of which only what comes in changes.
LEMMA OnlyInput ==
  ASSUME NEW c, Connection(c), c.open, NEW in, NEW coming, NEW asked, IsSeq(in), IsSeq(coming),
         NEW D, NEW R, InStep(c, D, R)
  PROVE  LET d == [open |-> c.open, in |-> in, coming |-> coming, out |-> c.out,
                   since |-> c.since, connects |-> c.connects, asked |-> asked]
         IN  Connection(d) /\ InStep(d, D, R)
BY DEF Connection, InStep

LEMMA NewConnection ==
  ASSUME NEW D, IsSeq(D), NEW R, IsSeq(R), NEW k, NEW a
  PROVE  LET c == [open |-> TRUE, in |-> <<>>, coming |-> <<>>, out |-> <<FileNameDatagram>>,
                   since |-> Len(R \o D), connects |-> k, asked |-> a]
         IN  Connection(c) /\ InStep(c, D, R)
<1> DEFINE out == <<FileNameDatagram>>
           n == Len(R \o D)
           c == [open |-> TRUE, in |-> <<>>, coming |-> <<>>, out |-> out,
                 since |-> n, connects |-> k, asked |-> a]
<1>1. IsSeq(out) /\ Len(out) = 1 /\ out[1] = FileNameDatagram
  BY OneIsSeq
<1>2. FileNameDatagram.type = "TraceFileName"
  BY DEF FileNameDatagram
<1>3. n \in Nat
  BY ConcatFacts, SeqFacts
<1> HIDE DEF out, n
<1>4. \A i \in 1 .. Len(out) : out[i].type = "TraceFileName"
  BY <1>1, <1>2
<1>5. Connection(c)
  BY <1>1, <1>3, <1>4, EmptyIsSeq DEF Connection, DatagramTypes
<1>6. EntriesTold(out, Len(out)) = 0
  <2>1. {i \in 1 .. Len(out) : out[i].type = "TraceEntry"} = {}
    BY <1>4
  <2> QED BY <2>1, FS_EmptySet DEF EntriesTold
<1>7. Forwarded(out, n, R \o D)
  BY <1>3, <1>4, <1>6 DEF Forwarded, n
<1>8. Shown(out, D)
  BY <1>4 DEF Shown
<1>9. InStep(c, D, R)
  BY <1>7, <1>8 DEF InStep
<1> QED BY <1>5, <1>9 DEF out, n

\* Assignments to several members of a connection.
Object(open, in, coming, out, since, connects, asked) ==
  [open |-> open, in |-> in, coming |-> coming, out |-> out, since |-> since,
   connects |-> connects, asked |-> asked]

LEMMA AssignedTwo ==
  ASSUME NEW r, NEW x, NEW y
  PROVE  /\ [r EXCEPT !.connects = x, !.asked = y] = [[r EXCEPT !.connects = x] EXCEPT !.asked = y]
         /\ [r EXCEPT !.coming = x, !.asked = y] = [[r EXCEPT !.coming = x] EXCEPT !.asked = y]
         /\ [r EXCEPT !.in = x, !.coming = y] = [[r EXCEPT !.in = x] EXCEPT !.coming = y]
OBVIOUS

LEMMA AssignedFive ==
  ASSUME NEW r, NEW v, NEW w, NEW x, NEW y, NEW z
  PROVE  [r EXCEPT !.open = v, !.out = w, !.since = x, !.connects = y, !.asked = z]
           = [[[[[r EXCEPT !.open = v] EXCEPT !.out = w] EXCEPT !.since = x]
                EXCEPT !.connects = y] EXCEPT !.asked = z]
OBVIOUS

\* What ConnectGUI makes of a connection.
NewGUI(v, w, x, y, z) ==
  [NoConnection EXCEPT !.open = v, !.out = w, !.since = x, !.connects = y, !.asked = z]

LEMMA ConnectedIs ==
  ASSUME NEW v, NEW w, NEW x, NEW y, NEW z
  PROVE  NewGUI(v, w, x, y, z) = Object(v, <<>>, <<>>, w, x, y, z)
<1> DEFINE e == <<>>
           r == NoConnection
           r1 == [r EXCEPT !.open = v]
           r2 == [r1 EXCEPT !.out = w]
           r3 == [r2 EXCEPT !.since = x]
           r4 == [r3 EXCEPT !.connects = y]
           r5 == [r4 EXCEPT !.asked = z]
<1>1. r = Object(FALSE, e, e, e, 0, 0, 0)
  BY DEF NoConnection, Object
<1>2. NewGUI(v, w, x, y, z) = r5
  BY AssignedFive DEF NewGUI
<1> HIDE DEF e, r
<1>3. r1 = Object(v, e, e, e, 0, 0, 0)
  BY <1>1 DEF Object
<1> HIDE DEF r1
<1>4. r2 = Object(v, e, e, w, 0, 0, 0)
  BY <1>3 DEF Object
<1> HIDE DEF r2
<1>5. r3 = Object(v, e, e, w, x, 0, 0)
  BY <1>4 DEF Object
<1> HIDE DEF r3
<1>6. r4 = Object(v, e, e, w, x, y, 0)
  BY <1>5 DEF Object
<1> HIDE DEF r4
<1>7. r5 = Object(v, e, e, w, x, y, z)
  BY <1>6 DEF Object
<1> QED BY <1>2, <1>7 DEF e, r

LEMMA ClosedAs ==
  ASSUME NEW y, NEW z
  PROVE  [NoConnection EXCEPT !.connects = y, !.asked = z]
           = Object(FALSE, <<>>, <<>>, <<>>, 0, y, z)
<1> DEFINE e == <<>>
           o == 0
           f == FALSE
           r == NoConnection
           r1 == [r EXCEPT !.connects = y]
           r2 == [r1 EXCEPT !.asked = z]
<1>1. r = Object(f, e, e, e, o, o, o)
  BY DEF NoConnection, Object
<1>2. [r EXCEPT !.connects = y, !.asked = z] = r2
  BY AssignedTwo
<1> HIDE DEF e, o, f, r
<1>3. r1 = Object(f, e, e, e, o, y, o)
  BY <1>1 DEF Object
<1> HIDE DEF r1
<1>4. r2 = Object(f, e, e, e, o, y, z)
  BY <1>3 DEF Object
<1> QED BY <1>2, <1>4 DEF e, o, f, r

LEMMA ClosedIs ==
  ASSUME NEW g \in GUIs, NEW D, NEW R
  PROVE  Connection(Closed(g)) /\ InStep(Closed(g), D, R)
<1>1. Closed(g) = [open |-> FALSE, in |-> <<>>, coming |-> <<>>, out |-> <<>>, since |-> 0,
                   connects |-> gui[g].connects, asked |-> gui[g].asked]
  BY ClosedAs DEF Closed, Object
<1> DEFINE c == Closed(g)
<1> HIDE DEF c
<1>2. c = [open |-> FALSE, in |-> <<>>, coming |-> <<>>, out |-> <<>>, since |-> 0,
           connects |-> gui[g].connects, asked |-> gui[g].asked]
  BY <1>1 DEF c
<1>3. Connection(c)
  BY <1>2, EmptyIsSeq DEF Connection
<1>4. InStep(c, D, R)
  <2>1. c.open = FALSE /\ c.out = <<>>
    BY <1>2
  <2> QED BY <2>1, ClosedInStep
<1> QED BY <1>3, <1>4 DEF c

LEMMA GUIConnects ==
  ASSUME FlowInv, GUIInv, NEW g \in GUIs, ConnectGUI(g)
  PROVE  FlowInv' /\ GUIInv'
<1>1. FlowInv'
  BY FlowKeptByGUI DEF ConnectGUI, xmlVars, dbVars, FlowInv
<1> DEFINE c == [open |-> TRUE, in |-> <<>>, coming |-> <<>>, out |-> <<FileNameDatagram>>,
                 since |-> Len(removed \o db), connects |-> gui[g].connects + 1,
                 asked |-> gui[g].asked]
<1>2. gui' = [gui EXCEPT ![g] = c]
  <2> DEFINE v == TRUE
             w == <<FileNameDatagram>>
             x == Len(StoredEver)
             y == gui[g].connects + 1
             z == gui[g].asked
             d == NewGUI(v, w, x, y, z)
  <2>1. gui' = [gui EXCEPT ![g] = d]
    BY DEF ConnectGUI, NewGUI
  <2>2. c = Object(v, <<>>, <<>>, w, x, y, z)
    BY DEF Object, StoredEver
  <2> HIDE DEF v, w, x, y, z, c
  <2>3. d = Object(v, <<>>, <<>>, w, x, y, z)
    BY ConnectedIs
  <2> HIDE DEF d
  <2> QED BY <2>1, <2>2, <2>3
<1>3. Connection(c) /\ InStep(c, db, removed)
  BY NewConnection DEF FlowInv
<1>4. UNCHANGED <<db, removed>>
  BY DEF ConnectGUI, dbVars
<1> HIDE DEF c
<1>5. GUIInv'
  BY <1>2, <1>3, <1>4, OneGUI
<1> QED BY <1>1, <1>5

LEMMA GUIDisconnects ==
  ASSUME FlowInv, GUIInv, NEW g \in GUIs, DisconnectGUI(g) \/ WrongCookie(g)
  PROVE  FlowInv' /\ GUIInv'
<1>1. FlowInv'
  BY FlowKeptByGUI DEF DisconnectGUI, WrongCookie, xmlVars, dbVars, FlowInv
<1>2. gui' = [gui EXCEPT ![g] = Closed(g)] /\ UNCHANGED <<db, removed>>
  BY DEF DisconnectGUI, WrongCookie, dbVars
<1> DEFINE c == Closed(g)
<1>3. Connection(c) /\ InStep(c, db, removed)
  BY ClosedIs
<1>4. gui' = [gui EXCEPT ![g] = c]
  BY <1>2
<1> HIDE DEF c
<1>5. GUIInv'
  BY <1>2, <1>3, <1>4, OneGUI
<1> QED BY <1>1, <1>5

\* The connection with other input.
Input(c, in, coming, asked) ==
  Object(c.open, in, coming, c.out, c.since, c.connects, asked)

Took(c, x) == [c EXCEPT !.in = x]
Arrived(c, x, y) == [c EXCEPT !.in = x, !.coming = y]
AskedFor(c, x, y) == [c EXCEPT !.coming = x, !.asked = y]

LEMMA InputAssigned ==
  ASSUME NEW c, Connection(c), NEW x, NEW y
  PROVE  /\ Arrived(c, x, y) = Input(c, x, y, c.asked)
         /\ AskedFor(c, x, y) = Input(c, c.in, x, y)
         /\ Took(c, x) = Input(c, x, c.coming, c.asked)
<1> DEFINE op == c.open
           i == c.in
           m == c.coming
           o == c.out
           s == c.since
           n == c.connects
           a == c.asked
           r1 == [c EXCEPT !.in = x]
           r2 == [c EXCEPT !.coming = x]
<1>1. c = Object(op, i, m, o, s, n, a)
  BY DEF Connection, Object
<1>2. /\ Input(c, x, y, c.asked) = Object(op, x, y, o, s, n, a)
      /\ Input(c, c.in, x, y) = Object(op, i, x, o, s, n, y)
      /\ Input(c, x, c.coming, c.asked) = Object(op, x, m, o, s, n, a)
  BY DEF Input
<1> HIDE DEF op, i, m, o, s, n, a
<1>3. r1 = Object(op, x, m, o, s, n, a) /\ r2 = Object(op, i, x, o, s, n, a)
  BY <1>1 DEF Object, r1, r2
<1>4. /\ Arrived(c, x, y) = [r1 EXCEPT !.coming = y]
      /\ AskedFor(c, x, y) = [r2 EXCEPT !.asked = y]
  BY AssignedTwo DEF Arrived, AskedFor
<1> HIDE DEF r1, r2
<1>5. /\ [r1 EXCEPT !.coming = y] = Object(op, x, y, o, s, n, a)
      /\ [r2 EXCEPT !.asked = y] = Object(op, i, x, o, s, n, y)
  BY <1>3 DEF Object
<1> QED BY <1>2, <1>3, <1>4, <1>5 DEF Took, r1

LEMMA InputChanges ==
  ASSUME GUIInv, UNCHANGED <<db, removed>>, NEW g \in GUIs, gui[g].open,
         NEW in, NEW coming, NEW asked, IsSeq(in), IsSeq(coming),
         gui' = [gui EXCEPT ![g] = Input(gui[g], in, coming, asked)]
  PROVE  GUIInv'
<1> DEFINE c == Input(gui[g], in, coming, asked)
<1>1. Connection(gui[g]) /\ InStep(gui[g], db, removed)
  BY DEF GUIInv
<1>2. Connection(c) /\ InStep(c, db, removed)
  BY <1>1, OnlyInput DEF Input, Object
<1>3. gui' = [gui EXCEPT ![g] = c]
  OBVIOUS
<1> HIDE DEF c
<1> QED BY <1>2, <1>3, OneGUI

LEMMA ConnectionFields ==
  ASSUME GUIInv, NEW g \in GUIs
  PROVE  /\ gui[g] = [open |-> gui[g].open, in |-> gui[g].in, coming |-> gui[g].coming,
                      out |-> gui[g].out, since |-> gui[g].since,
                      connects |-> gui[g].connects, asked |-> gui[g].asked]
         /\ IsSeq(gui[g].in) /\ IsSeq(gui[g].coming)
BY DEF GUIInv, Connection

LEMMA GUIAsks ==
  ASSUME FlowInv, GUIInv, NEW g \in GUIs, RequestNuke(g)
  PROVE  FlowInv' /\ GUIInv'
<1>1. FlowInv'
  BY FlowKeptByGUI DEF RequestNuke, xmlVars, dbVars, FlowInv
<1> DEFINE c == gui[g]
           more == c.coming \o <<"size", "payload">>
<1>2. gui' = [gui EXCEPT ![g].coming = more, ![g].asked = c.asked + 1]
  BY DEF RequestNuke
<1>3. gui' = [gui EXCEPT ![g] = Input(c, c.in, more, c.asked + 1)]
  <2> DEFINE asked == c.asked + 1
  <2> HIDE DEF more, asked
  <2>1. gui' = [gui EXCEPT ![g] = AskedFor(c, more, asked)]
    BY <1>2 DEF GUIInv, AskedFor, asked
  <2>2. Connection(c)
    BY DEF GUIInv
  <2> HIDE DEF c
  <2>3. AskedFor(c, more, asked) = Input(c, c.in, more, asked)
    BY <2>2, InputAssigned, ZenonT(60)
  <2> QED BY <2>1, <2>3 DEF asked
<1>4. IsSeq(more) /\ IsSeq(c.in)
  BY ConnectionFields, TwoIsSeq, ConcatFacts
<1>5. UNCHANGED <<db, removed>> /\ c.open
  BY DEF RequestNuke, dbVars
<1> HIDE DEF more
<1>6. GUIInv'
  BY <1>3, <1>4, <1>5, InputChanges
<1> QED BY <1>1, <1>6

LEMMA RequestArrives ==
  ASSUME FlowInv, GUIInv, NEW g \in GUIs, NEW n \in 1 .. 2 * MaxNukes, ReadyRead(g, n)
  PROVE  FlowInv' /\ GUIInv'
<1>1. FlowInv'
  BY FlowKeptByGUI DEF ReadyRead, xmlVars, dbVars, FlowInv
<1> DEFINE c == gui[g]
           in == c.in \o SubSeq(c.coming, 1, n)
           coming == SubSeq(c.coming, n + 1, Len(c.coming))
<1>2. gui' = [gui EXCEPT ![g].in = in, ![g].coming = coming]
  BY DEF ReadyRead
<1>3. gui' = [gui EXCEPT ![g] = Input(c, in, coming, c.asked)]
  <2> DEFINE d == Arrived(c, in, coming)
  <2> HIDE DEF in, coming
  <2>1. gui' = [gui EXCEPT ![g] = d]
    BY <1>2 DEF GUIInv, Arrived
  <2>2. Connection(c)
    BY DEF GUIInv
  <2> HIDE DEF c
  <2>3. d = Input(c, in, coming, c.asked)
    BY <2>2, InputAssigned
  <2> HIDE DEF d
  <2> QED BY <2>1, <2>3
<1>4. IsSeq(c.in) /\ IsSeq(c.coming) /\ Len(c.coming) \in Nat
  BY ConnectionFields, SeqFacts
<1>5. n \in Nat /\ 1 <= n /\ n <= Len(c.coming)
  BY <1>4 DEF ReadyRead
<1>6. IsSeq(SubSeq(c.coming, 1, n)) /\ IsSeq(coming)
  BY <1>4, <1>5, SubSeqFacts
<1>7. IsSeq(in)
  BY <1>4, <1>6, ConcatFacts
<1>8. UNCHANGED <<db, removed>> /\ c.open
  BY DEF ReadyRead, dbVars
<1> HIDE DEF in, coming
<1>9. GUIInv'
  BY <1>3, <1>6, <1>7, <1>8, InputChanges
<1> QED BY <1>1, <1>9

\* Something is read of a connection only while it is open.
LEMMA NotEmptyIsOpen ==
  ASSUME GUIInv, NEW g \in GUIs, gui[g].in # <<>>
  PROVE  gui[g].open
BY DEF GUIInv, Connection

LEMMA TailIsSeq ==
  ASSUME NEW s, IsSeq(s), s # <<>>
  PROVE  IsSeq(Tail(s))
<1>1. PICK S : s \in Seq(S)
  BY DEF IsSeq
<1> QED BY <1>1 DEF IsSeq

LEMMA NoBytes == BytesAvailable(<<>>) = 0
<1>1. DOMAIN <<>> = {}
  OBVIOUS
<1> QED BY <1>1 DEF BytesAvailable, FoldLeft, MapThenFoldSet

LEMMA GUIReadsSize ==
  ASSUME FlowInv, GUIInv, NEW g \in GUIs, ReadSize(g)
  PROVE  FlowInv' /\ GUIInv'
<1>1. FlowInv'
  BY FlowKeptByGUI DEF ReadSize, xmlVars, dbVars, FlowInv
<1> DEFINE c == gui[g]
           in == Tail(c.in)
<1>2. c.in # <<>>
  <2>1. BytesAvailable(c.in) >= 2
    BY DEF ReadSize, Available
  <2> QED BY <2>1, NoBytes
<1>3. IsSeq(in) /\ IsSeq(c.coming) /\ c.open
  BY <1>2, TailIsSeq, NotEmptyIsOpen, ConnectionFields
<1>4. gui' = [gui EXCEPT ![g] = Input(c, in, c.coming, c.asked)]
  <2> DEFINE d == Took(c, in)
  <2> HIDE DEF in
  <2>1. gui' = [gui EXCEPT ![g] = d]
    BY DEF ReadSize, GUIInv, Took, in
  <2>2. Connection(c)
    BY DEF GUIInv
  <2> HIDE DEF c
  <2>3. d = Input(c, in, c.coming, c.asked)
    BY <2>2, InputAssigned
  <2> HIDE DEF d
  <2> QED BY <2>1, <2>3
<1>5. UNCHANGED <<db, removed>>
  BY DEF ReadSize, dbVars
<1> HIDE DEF in
<1>6. GUIInv'
  BY <1>3, <1>4, <1>5, InputChanges
<1> QED BY <1>1, <1>6

LEMMA GUIWaits ==
  ASSUME FlowInv, GUIInv, NEW g \in GUIs, WaitForMore(g)
  PROVE  FlowInv' /\ GUIInv'
<1>1. FlowInv'
  BY FlowKeptByGUI DEF WaitForMore, xmlVars, dbVars, FlowInv
<1>2. GUIInv'
  BY SameGUIs DEF WaitForMore, dbVars
<1> QED BY <1>1, <1>2

\* Server::nukeDatabase: all that is stored goes, and every GUI is told.
LEMMA GUINukes ==
  ASSUME FlowInv, GUIInv, NEW g \in GUIs, Nuke(g)
  PROVE  FlowInv' /\ GUIInv'
<1> DEFINE ds == <<NukeFinishedDatagram>>
           K(h) == IF h = g THEN Took(gui[h], Tail(gui[h].in)) ELSE gui[h]
<1>1. IsSeq(db) /\ IsSeq(removed) /\ running = g
  BY DEF FlowInv, Nuke
<1>2. db' = <<>> /\ removed' = removed \o db /\ removed' \o db' = removed \o db
  BY <1>1, ClearedStored DEF Nuke
<1>3. FlowInv'
  <2>1. IsSeq(db') /\ IsSeq(removed') /\ Len(db') <= MaxStored
    BY <1>1, <1>2, EmptyIsSeq, ConcatFacts, DaemonBoundsAssumption
  <2> QED BY <2>1 DEF FlowInv, Nuke, xmlVars
<1>4. gui[g].in # <<>>
  <2>1. BytesAvailable(gui[g].in) >= 9
    BY DEF Nuke, Available, FlowInv
  <2> QED BY <2>1, NoBytes
<1>5. ASSUME NEW h \in GUIs
      PROVE  Connection(K(h)) /\ InStep(K(h), db, removed)
  <2>1. Connection(gui[h]) /\ InStep(gui[h], db, removed)
    BY DEF GUIInv
  <2>2. CASE h = g
    <3> DEFINE c == gui[g]
               in == Tail(c.in)
    <3>1. IsSeq(in) /\ IsSeq(c.coming) /\ c.open
      BY <1>4, TailIsSeq, NotEmptyIsOpen, ConnectionFields
    <3>2. K(h) = Took(c, in)
      BY <2>2
    <3> HIDE DEF K, in, c
    <3>3. Connection(c) /\ InStep(c, db, removed)
      BY <2>1, <2>2 DEF c
    <3>4. K(h) = Input(c, in, c.coming, c.asked)
      BY <3>2, <3>3, InputAssigned
    <3> DEFINE k == Input(c, in, c.coming, c.asked)
    <3>5. Connection(k) /\ InStep(k, db, removed)
      BY <3>1, <3>3, OnlyInput DEF Input, Object
    <3> HIDE DEF k
    <3> QED BY <3>4, <3>5 DEF k
  <2>3. CASE h # g
    BY <2>1, <2>3
  <2> QED BY <2>2, <2>3
<1>6. ASSUME NEW k, Connection(k)
      PROVE  (IF k.open THEN [k EXCEPT !.out = Append(@, NukeFinishedDatagram)] ELSE k) = Tell(k, ds)
  <2> DEFINE out == k.out
             d == NukeFinishedDatagram
  <2>1. IsSeq(out)
    BY <1>6 DEF Connection
  <2> HIDE DEF out, d
  <2>2. Append(out, d) = out \o <<d>>
    BY <2>1, AppendFacts
  <2> QED BY <2>2 DEF Tell, out, d
<1>7. gui' = [h \in GUIs |-> Tell(K(h), ds)]
  <2>1. gui' = [h \in GUIs |-> IF K(h).open
                                 THEN [K(h) EXCEPT !.out = Append(@, NukeFinishedDatagram)]
                                 ELSE K(h)]
    BY DEF Nuke, Took
  <2> HIDE DEF ds, K
  <2>2. \A h \in GUIs :
          (IF K(h).open THEN [K(h) EXCEPT !.out = Append(@, NukeFinishedDatagram)] ELSE K(h))
            = Tell(K(h), ds)
    BY <1>5, <1>6
  <2> QED BY <2>1, <2>2
<1>8. ASSUME NEW h \in GUIs
      PROVE  Connection(Tell(K(h), ds)) /\ InStep(Tell(K(h), ds), db', removed')
  <2> DEFINE k == K(h)
  <2>1. Connection(k) /\ InStep(k, db, removed)
    BY <1>5
  <2> HIDE DEF k
  <2>2. InStep(Tell(k, ds), db', removed')
    BY <1>1, <1>2, <2>1, TellCleared
  <2>3. IsSeq(ds) /\ Len(ds) = 1 /\ ds[1] = NukeFinishedDatagram
    BY OneIsSeq
  <2>4. \A i \in 1 .. Len(ds) : ds[i].type \in DatagramTypes
    BY <2>3 DEF NukeFinishedDatagram, DatagramTypes
  <2> HIDE DEF ds
  <2>5. Connection(Tell(k, ds))
    BY <2>1, <2>3, <2>4, TellConnection
  <2> QED BY <2>2, <2>5 DEF k
<1> HIDE DEF K, ds
<1>9. GUIInv'
  BY <1>7, <1>8 DEF GUIInv
<1> QED BY <1>3, <1>9

-----------------------------------------------------------------------------

LEMMA InvStep == FlowInv /\ GUIInv /\ [Next]_vars => (FlowInv /\ GUIInv)'
<1> SUFFICES ASSUME FlowInv, GUIInv, [Next]_vars PROVE FlowInv' /\ GUIInv'
  OBVIOUS
<1>1. ASSUME NEW c \in Clients, NEW n \in Chunks(c), handleIncomingData(c, n)
      PROVE  FlowInv' /\ GUIInv'
  BY <1>1, DataArrive
<1>2. ASSUME NEW c \in Clients, Disconnect(c)
      PROVE  FlowInv' /\ GUIInv'
  BY <1>2, ClientDies
<1>3. CASE Parse
  BY <1>3, ParseStep
<1>4. ASSUME NEW g \in GUIs, HandleRequests(g)
      PROVE  FlowInv' /\ GUIInv'
  BY <1>4, GUIReadsSize, GUIWaits, GUIDisconnects, GUINukes DEF HandleRequests
<1>5. ASSUME NEW g \in GUIs, ConnectGUI(g) \/ DisconnectGUI(g) \/ RequestNuke(g)
      PROVE  FlowInv' /\ GUIInv'
  BY <1>5, GUIConnects, GUIDisconnects, GUIAsks
<1>6. ASSUME NEW g \in GUIs, NEW n \in 1 .. 2 * MaxNukes, ReadyRead(g, n)
      PROVE  FlowInv' /\ GUIInv'
  BY <1>6, RequestArrives
<1>7. CASE UNCHANGED vars
  <2>1. UNCHANGED <<position, connected, unread, db, removed, running, nextPayloadSize, gui>>
    BY <1>7 DEF vars, xmlVars, dbVars
  <2> QED BY <2>1, SameGUIs DEF FlowInv
<1> QED BY <1>1, <1>2, <1>3, <1>4, <1>5, <1>6, <1>7 DEF Next

\* Whatever arrives, dies, is archived, cleared or fails, and whenever GUIs
\* come and go: a GUI has been told every entry stored since it connected, in
\* the order of the database, and all that it shows is still stored
\* (server.cpp:221, :259, :284).
THEOREM DaemonInStep == Spec => []GUIsInStep
<1> QED BY InvInit, InvStep, InvIsInStep, PTL DEF Spec
==============================================================================
