--------------------------- MODULE CodexBufferProofs ---------------------------
(***************************************************************************)
(* Theorems about the messages of a Codex turn, for any number of events,  *)
(* requests, edits and faults: what the buffers hold is well typed, no     *)
(* event is lost, repeated or reordered on its way to the driver, a turn   *)
(* is only reported as done when the app server completed it, the turn as  *)
(* a whole is a thread of module Worker, and what the driver waits for is  *)
(* on its way.                                                             *)
(*                                                                         *)
(* They rest on what Filtered does to a sequence, which takes inductions.  *)
(* An induction is carried out with a set in place of a predicate: if a    *)
(* number, or a sequence, were missing from the set, there would be a      *)
(* smallest one that is.                                                   *)
(***************************************************************************)
EXTENDS CodexTurnProofs, NaturalsInduction, WellFoundedInduction, SequenceTheorems

-----------------------------------------------------------------------------
(* Induction.                                                              *)

Below == {p \in Nat \X Nat : p[1] < p[2]}

\* A set of natural numbers has a least element.
LEMMA LeastNumber ==
  ASSUME NEW T \in SUBSET Nat, T # {}
  PROVE  \E n \in T : \A m \in T : ~(m < n)
<1>1. IsWellFoundedOn(Below, Nat)
  <2>1. OpToRel(<, Nat) = Below
    BY Zenon DEF OpToRel, Below
  <2>. QED
    BY <2>1, NatLessThanWellFounded, Zenon
<1>2. PICK n \in T : \A m \in T : <<m, n>> \notin Below
  BY <1>1, WFMin, Zenon
<1>3. \A m \in Nat : m < n => <<m, n>> \in Below
  BY DEF Below
<1>. QED
  BY <1>2, <1>3

\* A set of sequences that has the empty one, and every one that is longer by
\* one element than one it has, has all of them.
LEMMA SequenceInduction ==
  ASSUME NEW M, NEW G \in SUBSET Seq(M),
         <<>> \in G, \A s \in G, e \in M : Append(s, e) \in G
  PROVE  \A s \in Seq(M) : s \in G
<1>. DEFINE T == {Len(s) : s \in Seq(M) \ G}
<1>1. SUFFICES ASSUME T # {} PROVE FALSE
  OBVIOUS
<1>2. T \in SUBSET Nat
  OBVIOUS
<1>3. PICK n \in T : \A m \in T : ~(m < n)
  <2>. HIDE DEF T
  <2>. QED
    BY <1>1, <1>2, LeastNumber
<1>4. PICK s \in Seq(M) \ G : Len(s) = n
  OBVIOUS
<1>5. PICK front \in Seq(M), last \in M : s = Append(front, last)
  BY <1>4, SequenceEmptyOrAppend
<1>6. front \notin G
  BY <1>4, <1>5
<1>7. Len(front) \in T /\ Len(front) < n
  <2>1. Len(front) \in T
    BY <1>6
  <2>2. Len(front) \in Nat /\ n = Len(front) + 1
    BY <1>4, <1>5
  <2>. QED
    BY <2>1, <2>2
<1>. QED
  BY <1>3, <1>7

-----------------------------------------------------------------------------
(* The messages of a sequence that are in a set.                           *)

\* Filtered is the last value of a function that is given by its own values at
\* smaller arguments ...
Kept(s, S, n, f) ==
  f = [i \in 0 .. n |->
         IF i = 0 THEN <<>> ELSE IF s[i] \in S THEN Append(f[i - 1], s[i]) ELSE f[i - 1]]

\* ... which exists.
LEMMA KeptExists ==
  ASSUME NEW M, NEW s \in Seq(M), NEW S
  PROVE  \E f : Kept(s, S, Len(s), f)
<1>. DEFINE T == {n \in 0 .. Len(s) : \A f : ~Kept(s, S, n, f)}
<1>1. SUFFICES ASSUME T # {} PROVE FALSE
  <2>1. Len(s) \in 0 .. Len(s)
    OBVIOUS
  <2>. QED
    BY <2>1
<1>2. PICK n \in T : \A m \in T : ~(m < n)
  <2>1. T \in SUBSET Nat
    OBVIOUS
  <2>. HIDE DEF T
  <2>. QED
    BY <1>1, <2>1, LeastNumber
<1>3. n # 0
  <2>1. Kept(s, S, 0, [i \in 0 .. 0 |-> <<>>])
    BY DEF Kept
  <2>. QED
    BY <2>1
<1>4. n \in Nat /\ n - 1 \in 0 .. Len(s)
  BY <1>3
<1>5. PICK f : Kept(s, S, n - 1, f)
  BY <1>2, <1>4
<1>. DEFINE Step(g, i) ==
       IF i = 0 THEN <<>> ELSE IF s[i] \in S THEN Append(g[i - 1], s[i]) ELSE g[i - 1]
            h == [i \in 0 .. n |-> IF i = n THEN Step(f, n) ELSE f[i]]
            g == [i \in 0 .. n |-> Step(h, i)]
<1>6. \A i \in 0 .. n - 1 : f[i] = Step(f, i) /\ h[i] = f[i]
  <2>1. \A i \in 0 .. n - 1 : f[i] = Step(f, i)
    BY <1>5 DEF Kept
  <2>2. \A i \in 0 .. n - 1 : h[i] = f[i]
    BY <1>4
  <2>. HIDE DEF h, Step
  <2>. QED
    BY <2>1, <2>2
<1>7. \A i \in 0 .. n : h[i] = g[i]
  <2>. TAKE i \in 0 .. n
  <2>1. CASE i = n
    <3>1. h[n - 1] = f[n - 1] /\ h[n] = Step(f, n)
      BY <1>3, <1>4, <1>6
    <3>. QED
      BY <1>3, <2>1, <3>1
  <2>2. CASE i # n
    <3>1. i \in 0 .. n - 1 /\ (i # 0 => i - 1 \in 0 .. n - 1)
      BY <1>4, <2>2
    <3>2. h[i] = Step(f, i) /\ (i # 0 => h[i - 1] = f[i - 1])
      BY <1>6, <3>1
    <3>. HIDE DEF h
    <3>. QED
      BY <3>2
  <2>. QED
    BY <2>1, <2>2
<1>8. h = g
  BY <1>7
<1>9. Kept(s, S, n, h)
  BY <1>8 DEF Kept
<1>. QED
  BY <1>9

\* What Filtered is.
LEMMA FilteredIsKept ==
  ASSUME NEW M, NEW s \in Seq(M), NEW S
  PROVE  \E f : Kept(s, S, Len(s), f) /\ Filtered(s, S) = f[Len(s)]
<1>. DEFINE c == CHOOSE f : f = [i \in 0 .. Len(s) |->
       IF i = 0 THEN <<>> ELSE IF s[i] \in S THEN Append(f[i - 1], s[i]) ELSE f[i - 1]]
<1>1. Filtered(s, S) = c[Len(s)]
  BY DEF Filtered
<1>2. \E f : Kept(s, S, Len(s), f)
  BY KeptExists
<1>3. Kept(s, S, Len(s), c)
  BY <1>2, Zenon DEF Kept
<1>. QED
  BY <1>1, <1>3

\* Nothing is kept of nothing.
LEMMA FilteredEmpty == \A S : Filtered(<<>>, S) = <<>>
<1>. SUFFICES ASSUME NEW S PROVE Filtered(<<>>, S) = <<>>
  OBVIOUS
<1>1. PICK f : Kept(<<>>, S, 0, f) /\ Filtered(<<>>, S) = f[0]
  <2>1. <<>> \in Seq({}) /\ Len(<<>>) = 0
    OBVIOUS
  <2>. QED
    BY <2>1, FilteredIsKept, Zenon
<1>. QED
  BY <1>1 DEF Kept

\* The last element is kept, or not.
LEMMA FilteredAppend ==
  ASSUME NEW M, NEW s \in Seq(M), NEW e \in M, NEW S
  PROVE  Filtered(Append(s, e), S) =
           IF e \in S THEN Append(Filtered(s, S), e) ELSE Filtered(s, S)
<1>. DEFINE n == Len(s)
            t == Append(s, e)
            Step(r, g, i) ==
              IF i = 0 THEN <<>> ELSE IF r[i] \in S THEN Append(g[i - 1], r[i]) ELSE g[i - 1]
<1>0. n \in Nat /\ t \in Seq(M) /\ Len(t) = n + 1 /\ t[n + 1] = e /\ \A i \in 1 .. n : t[i] = s[i]
  OBVIOUS
<1>1. PICK f : Kept(s, S, n, f) /\ Filtered(s, S) = f[n]
  BY FilteredIsKept
<1>2. PICK g : Kept(t, S, n + 1, g) /\ Filtered(t, S) = g[n + 1]
  BY <1>0, FilteredIsKept
<1>3. /\ \A i \in 0 .. n : f[i] = Step(s, f, i)
      /\ \A i \in 0 .. n + 1 : g[i] = Step(t, g, i)
  BY <1>1, <1>2 DEF Kept
<1>4. \A i \in 0 .. n : f[i] = g[i]
  <2>. DEFINE T == {i \in 0 .. n : f[i] # g[i]}
  <2>1. SUFFICES ASSUME T # {} PROVE FALSE
    OBVIOUS
  <2>2. PICK i \in T : \A m \in T : ~(m < i)
    <3>1. T \in SUBSET Nat
      BY <1>0
    <3>. HIDE DEF T
    <3>. QED
      BY <2>1, <3>1, LeastNumber
  <2>3. i \in 0 .. n /\ i \in 0 .. n + 1
    BY <1>0
  <2>4. i # 0
    BY <1>3, <2>3
  <2>5. i - 1 \in 0 .. n /\ t[i] = s[i]
    BY <1>0, <2>3, <2>4
  <2>6. f[i - 1] = g[i - 1]
    BY <2>2, <2>5, <2>3
  <2>. HIDE DEF t, n
  <2>7. f[i] = Step(s, f, i) /\ g[i] = Step(t, g, i)
    BY <1>3, <2>3
  <2>. QED
    BY <2>4, <2>5, <2>6, <2>7
<1>. HIDE DEF t, n
<1>5. g[n + 1] = IF e \in S THEN Append(g[n], e) ELSE g[n]
  BY <1>0, <1>3
<1>6. f[n] = g[n]
  BY <1>0, <1>4
<1>. QED
  BY <1>1, <1>2, <1>5, <1>6 DEF t

\* What is kept of a sequence of messages is one.
LEMMA FilteredType ==
  ASSUME NEW M, NEW S
  PROVE  \A s \in Seq(M) : Filtered(s, S) \in Seq(M)
<1>. DEFINE G == {s \in Seq(M) : Filtered(s, S) \in Seq(M)}
<1>1. <<>> \in G
  <2>1. Filtered(<<>>, S) = <<>> /\ <<>> \in Seq(M)
    BY FilteredEmpty
  <2>2. Filtered(<<>>, S) \in Seq(M)
    BY <2>1
  <2>. QED
    BY <2>1, <2>2, Zenon
<1>2. ASSUME NEW s \in G, NEW e \in M PROVE Append(s, e) \in G
  <2>1. s \in Seq(M) /\ Append(s, e) \in Seq(M) /\ Filtered(s, S) \in Seq(M)
    OBVIOUS
  <2>2. Filtered(Append(s, e), S) \in Seq(M)
    <3>1. Filtered(Append(s, e), S) = IF e \in S THEN Append(Filtered(s, S), e) ELSE Filtered(s, S)
      BY <2>1, FilteredAppend
    <3>. QED
      BY <2>1, <3>1
  <2>. QED
    BY <2>1, <2>2
<1>3. \A s \in Seq(M) : s \in G
  <2>. HIDE DEF G
  <2>1. G \in SUBSET Seq(M)
    BY DEF G
  <2>. QED
    BY <1>1, <1>2, <2>1, SequenceInduction
<1>. QED
  BY <1>3

\* Every element that is kept was there, and is in the set.
LEMMA FilteredElements ==
  ASSUME NEW M, NEW S
  PROVE  \A s \in Seq(M) : \A i \in 1 .. Len(Filtered(s, S)) :
           /\ Filtered(s, S)[i] \in S
           /\ \E j \in 1 .. Len(s) : Filtered(s, S)[i] = s[j]
<1>. DEFINE P(s) == \A i \in 1 .. Len(Filtered(s, S)) :
                      /\ Filtered(s, S)[i] \in S
                      /\ \E j \in 1 .. Len(s) : Filtered(s, S)[i] = s[j]
            G == {s \in Seq(M) : P(s)}
<1>1. <<>> \in G
  BY FilteredEmpty
<1>2. ASSUME NEW s \in G, NEW e \in M PROVE Append(s, e) \in G
  <2>1. s \in Seq(M) /\ Append(s, e) \in Seq(M) /\ P(s)
    OBVIOUS
  <2>2. Filtered(s, S) \in Seq(M)
    BY <2>1, FilteredType
  <2>3. SUFFICES ASSUME NEW i \in 1 .. Len(Filtered(Append(s, e), S))
                 PROVE  /\ Filtered(Append(s, e), S)[i] \in S
                        /\ \E j \in 1 .. Len(Append(s, e)) :
                             Filtered(Append(s, e), S)[i] = Append(s, e)[j]
    BY <2>1
  <2>4. /\ Len(Append(s, e)) = Len(s) + 1 /\ Len(s) \in Nat
        /\ \A j \in 1 .. Len(s) : Append(s, e)[j] = s[j]
        /\ Append(s, e)[Len(s) + 1] = e
    BY <2>1
  <2>5. CASE i \in 1 .. Len(Filtered(s, S))
    <3>1. Filtered(Append(s, e), S)[i] = Filtered(s, S)[i]
      BY <2>1, <2>2, <2>5, FilteredAppend
    <3>2. PICK j \in 1 .. Len(s) : Filtered(s, S)[i] = s[j]
      BY <2>1, <2>5
    <3>3. j \in 1 .. Len(Append(s, e)) /\ Append(s, e)[j] = s[j]
      BY <2>4
    <3>. QED
      BY <2>1, <2>5, <3>1, <3>2, <3>3
  <2>6. CASE i \notin 1 .. Len(Filtered(s, S))
    <3>1. e \in S /\ Filtered(Append(s, e), S) = Append(Filtered(s, S), e)
      BY <2>1, <2>6, FilteredAppend
    <3>2. Filtered(Append(s, e), S)[i] = e
      BY <2>2, <2>6, <3>1
    <3>3. Len(s) + 1 \in 1 .. Len(Append(s, e))
      BY <2>4
    <3>. QED
      BY <2>4, <3>1, <3>2, <3>3
  <2>. QED
    BY <2>5, <2>6
<1>3. \A s \in Seq(M) : s \in G
  <2>. HIDE DEF G
  <2>1. G \in SUBSET Seq(M)
    BY DEF G
  <2>. QED
    BY <1>1, <1>2, <2>1, SequenceInduction
<1>. QED
  BY <1>3

\* What is kept of two sequences, one after the other.
LEMMA FilteredConcat ==
  ASSUME NEW M, NEW S, NEW r \in Seq(M)
  PROVE  \A s \in Seq(M) : Filtered(r \o s, S) = Filtered(r, S) \o Filtered(s, S)
<1>. DEFINE G == {s \in Seq(M) : Filtered(r \o s, S) = Filtered(r, S) \o Filtered(s, S)}
<1>0. Filtered(r, S) \in Seq(M)
  BY FilteredType
<1>1. <<>> \in G
  BY <1>0, FilteredEmpty, ConcatEmptySeq
<1>2. ASSUME NEW s \in G, NEW e \in M PROVE Append(s, e) \in G
  <2>1. s \in Seq(M) /\ Append(s, e) \in Seq(M) /\ Filtered(s, S) \in Seq(M)
    BY FilteredType
  <2>2. r \o s \in Seq(M) /\ r \o Append(s, e) = Append(r \o s, e)
    BY <2>1
  <2>3. Filtered(r \o s, S) = Filtered(r, S) \o Filtered(s, S)
    OBVIOUS
  <2>4. Filtered(Append(r \o s, e), S) =
          IF e \in S THEN Append(Filtered(r \o s, S), e) ELSE Filtered(r \o s, S)
    <3>1. PICK q \in Seq(M) : q = r \o s
      BY <2>2
    <3>2. Filtered(Append(q, e), S) = IF e \in S THEN Append(Filtered(q, S), e) ELSE Filtered(q, S)
      BY FilteredAppend
    <3>. QED
      BY <3>1, <3>2, Zenon
  <2>5. Filtered(Append(s, e), S) = IF e \in S THEN Append(Filtered(s, S), e) ELSE Filtered(s, S)
    BY <2>1, FilteredAppend
  <2>6. Append(Filtered(r, S) \o Filtered(s, S), e) = Filtered(r, S) \o Append(Filtered(s, S), e)
    <3>1. PICK a \in Seq(M), b \in Seq(M) : a = Filtered(r, S) /\ b = Filtered(s, S)
      BY <1>0, <2>1
    <3>2. a \o Append(b, e) = Append(a \o b, e)
      OBVIOUS
    <3>. QED
      BY <3>1, <3>2, Zenon
  <2>7. Filtered(r \o Append(s, e), S) = Filtered(r, S) \o Filtered(Append(s, e), S)
    <3>. HIDE DEF G
    <3>. QED
      BY <2>2, <2>3, <2>4, <2>5, <2>6
  <2>. QED
    BY <2>1, <2>7
<1>3. \A s \in Seq(M) : s \in G
  <2>. HIDE DEF G
  <2>1. G \in SUBSET Seq(M)
    BY DEF G
  <2>. QED
    BY <1>1, <1>2, <2>1, SequenceInduction
<1>. QED
  BY <1>3

\* Two sets that agree on the messages of a sequence keep the same of it, even
\* when one of them only sees what the larger one has kept.
LEMMA FilteredTwice ==
  ASSUME NEW M, NEW A, NEW B
  PROVE  \A s \in Seq(M) :
           (\A i \in 1 .. Len(s) : s[i] \in B => s[i] \in A)
             => Filtered(Filtered(s, A), B) = Filtered(s, B)
<1>. DEFINE Sub(s) == \A i \in 1 .. Len(s) : s[i] \in B => s[i] \in A
            P(s) == Sub(s) => Filtered(Filtered(s, A), B) = Filtered(s, B)
            G == {s \in Seq(M) : P(s)}
<1>1. <<>> \in G
  BY FilteredEmpty
<1>2. ASSUME NEW s \in G, NEW e \in M PROVE Append(s, e) \in G
  <2>1. s \in Seq(M) /\ Append(s, e) \in Seq(M) /\ P(s)
    OBVIOUS
  <2>2. Filtered(s, A) \in Seq(M)
    BY <2>1, FilteredType
  <2>3. SUFFICES ASSUME Sub(Append(s, e))
                 PROVE  Filtered(Filtered(Append(s, e), A), B) = Filtered(Append(s, e), B)
    BY <2>1
  <2>4. Sub(s) /\ (e \in B => e \in A)
    <3>1. /\ Len(Append(s, e)) = Len(s) + 1 /\ Len(s) \in Nat
          /\ \A j \in 1 .. Len(s) : Append(s, e)[j] = s[j]
          /\ Append(s, e)[Len(s) + 1] = e
      BY <2>1
    <3>2. Len(s) + 1 \in 1 .. Len(Append(s, e))
          /\ \A j \in 1 .. Len(s) : j \in 1 .. Len(Append(s, e))
      BY <3>1
    <3>. QED
      BY <2>3, <3>1, <3>2
  <2>5. Filtered(Filtered(s, A), B) = Filtered(s, B)
    BY <2>1, <2>4
  <2>6. /\ Filtered(Append(s, e), A) = IF e \in A THEN Append(Filtered(s, A), e) ELSE Filtered(s, A)
        /\ Filtered(Append(s, e), B) = IF e \in B THEN Append(Filtered(s, B), e) ELSE Filtered(s, B)
        /\ Filtered(Append(Filtered(s, A), e), B) =
             IF e \in B THEN Append(Filtered(Filtered(s, A), B), e)
             ELSE Filtered(Filtered(s, A), B)
    BY <2>1, <2>2, FilteredAppend
  <2>. QED
    BY <2>4, <2>5, <2>6
<1>3. \A s \in Seq(M) : s \in G
  <2>. HIDE DEF G
  <2>1. G \in SUBSET Seq(M)
    BY DEF G
  <2>. QED
    BY <1>1, <1>2, <2>1, SequenceInduction
<1>. QED
  BY <1>3

\* Nothing is kept of messages that are not in the set.
LEMMA FilteredNone ==
  ASSUME NEW M, NEW S, NEW s \in Seq(M), \A i \in 1 .. Len(s) : s[i] \notin S
  PROVE  Filtered(s, S) = <<>>
<1>1. Filtered(s, S) \in Seq(M)
  BY FilteredType
<1>2. \A i \in 1 .. Len(Filtered(s, S)) :
        Filtered(s, S)[i] \in S /\ \E j \in 1 .. Len(s) : Filtered(s, S)[i] = s[j]
  BY FilteredElements
<1>3. ~(1 \in 1 .. Len(Filtered(s, S)))
  BY <1>2
<1>. QED
  BY <1>1, <1>3, EmptySeq

\* Whether the first element is kept.
LEMMA FilteredHead ==
  ASSUME NEW M, NEW s \in Seq(M), s # <<>>, NEW S
  PROVE  Filtered(s, S) =
           IF Head(s) \in S THEN <<Head(s)>> \o Filtered(Tail(s), S) ELSE Filtered(Tail(s), S)
<1>1. Head(s) \in M /\ Tail(s) \in Seq(M) /\ <<Head(s)>> \in Seq(M)
  OBVIOUS
<1>2. s = <<Head(s)>> \o Tail(s)
  OBVIOUS
<1>3. Filtered(<<Head(s)>>, S) = IF Head(s) \in S THEN <<Head(s)>> ELSE <<>>
  <2>1. PICK h \in M : h = Head(s)
    BY <1>1
  <2>2. <<>> \in Seq(M) /\ Append(<<>>, h) = <<h>>
    OBVIOUS
  <2>3. Filtered(Append(<<>>, h), S) =
          IF h \in S THEN Append(Filtered(<<>>, S), h) ELSE Filtered(<<>>, S)
    BY <2>2, FilteredAppend
  <2>. QED
    BY <2>1, <2>2, <2>3, FilteredEmpty
<1>4. PICK r \in Seq(M), t \in Seq(M) : r = <<Head(s)>> /\ t = Tail(s)
  BY <1>1
<1>5. Filtered(r \o t, S) = Filtered(r, S) \o Filtered(t, S)
  BY FilteredConcat
<1>6. Filtered(t, S) \in Seq(M)
  BY FilteredType
<1>7. Filtered(s, S) = Filtered(r, S) \o Filtered(t, S)
  BY <1>2, <1>4, <1>5, Zenon
<1>8. <<>> \o Filtered(t, S) = Filtered(t, S)
  BY <1>6
<1>. QED
  BY <1>3, <1>4, <1>7, <1>8, Zenon

-----------------------------------------------------------------------------
(* Type correctness.                                                       *)

\* What the app server writes is a message.
LEMMA MessageTypes ==
  /\ \A kind \in EVENTS, n \in Nat : Event(kind, n) \in Message
  /\ \A kind \in {"ok", "refused"}, req \in REQUESTS :
       [kind |-> kind, req |-> req, n |-> 0] \in Message
BY DEF Event, Message

\* Every step keeps messages in the buffers and on the wire.
LEMMA BufferTypeStep ==
  ASSUME TypeOK, Next
  PROVE  BufferTypeOK'
<1>. USE DEF TypeOK, BufferTypeOK
<1>1. CASE UNCHANGED <<clientVars, wire>>
  BY <1>1 DEF clientVars
<1>2. CASE WaitAnswered
  BY <1>2 DEF WaitAnswered
<1>3. CASE Poll
  <2>1. \A S : Filtered(events, S) \in Seq(Message)
    BY FilteredType
  <2>. QED
    BY <1>3, <2>1 DEF Poll
<1>4. CASE HandleNoted \/ HandleFinal
  <2>1. batch # <<>> /\ batch' = Tail(batch) /\ UNCHANGED <<events, responses, wire>>
    BY <1>4 DEF HandleNoted, HandleFinal
  <2>2. batch # <<>> => Tail(batch) \in Seq(Message)
    BY DEF TypeOK, BufferTypeOK
  <2>. QED
    BY <2>1, <2>2
<1>5. CASE PumpReads
  <2>1. wire # <<>> => Head(wire) \in Message /\ Tail(wire) \in Seq(Message)
    OBVIOUS
  <2>2. PICK m \in Message :
          /\ \/ responses' = responses \cup {m} /\ UNCHANGED events
             \/ events' = Append(events, m) /\ UNCHANGED responses
          /\ wire' = Tail(wire) /\ UNCHANGED batch
    <3>1. Head(wire) \in Message
      BY <1>5, <2>1 DEF PumpReads
    <3>2. \/ responses' = responses \cup {Head(wire)} /\ UNCHANGED events
          \/ events' = Append(events, Head(wire)) /\ UNCHANGED responses
      BY <1>5, Zenon DEF PumpReads
    <3>. QED
      BY <1>5, <3>1, <3>2, Zenon DEF PumpReads
  <2>3. Tail(wire) \in Seq(Message)
    BY <1>5, <2>1 DEF PumpReads
  <2>4. responses \cup {m} \in SUBSET Message /\ Append(events, m) \in Seq(Message)
    OBVIOUS
  <2>. QED
    BY <2>2, <2>3, <2>4
<1>6. CASE PumpEnds
  <2>1. Event("shutdown", 0) \in Message
    BY MessageTypes DEF EVENTS
  <2>. QED
    BY <1>6, <2>1 DEF PumpEnds
<1>7. CASE ServerAnswers
  <2>1. server.asked \in REQUESTS
    BY <1>7 DEF ServerAnswers, ControlTypeOK, Server
  <2>2. PICK kind \in {"ok", "refused"} : Write([kind |-> kind, req |-> server.asked, n |-> 0])
    BY <1>7 DEF ServerAnswers
  <2>3. wire' \in Seq(Message)
    BY <2>1, <2>2, MessageTypes DEF Write
  <2>. QED
    BY <1>7, <2>3 DEF ServerAnswers, clientVars
<1>8. CASE ServerNotifies \/ ServerRequests \/ ServerEndsTurn
  <2>1. PICK kind \in EVENTS, n \in Nat : Write(Event(kind, n))
    <3>1. server.sent + 1 \in Nat
      BY DEF ControlTypeOK, Server
    <3>. QED
      BY <1>8, <3>1 DEF ServerNotifies, ServerRequests, ServerEndsTurn, EVENTS, NOTIFICATIONS
  <2>2. wire' \in Seq(Message)
    BY <2>1, MessageTypes DEF Write
  <2>. QED
    BY <1>8, <2>2 DEF ServerNotifies, ServerRequests, ServerEndsTurn, clientVars
<1>. QED
  BY <1>1, <1>2, <1>3, <1>4, <1>5, <1>6, <1>7, <1>8
     DEF Next, DriverStep, Begin, Spawn, SpawnFails, Ask, WaitTimesOut, Note, HandledAll,
         Close, Record, Return, Guard, PumpStep, PumpReplies, ServerStep, ServerBeginsTurn,
         ServerEdits, ServerDies

\* The state of the three processes and of the buffers between them is well
\* typed (CodexTurn's TypeOK).
THEOREM TypeCorrect == Spec => []TypeOK
<1>1. Init => TypeOK
  <2>1. Init => ControlTypeOK
    BY CodexAssumption
       DEF Init, ControlTypeOK, Driver, Server, WORKER_STATUSES, DRIVER_PC, REQUESTS, EXITS
  <2>. QED
    BY <2>1 DEF Init, TypeOK, BufferTypeOK
<1>2. TypeOK /\ [Next]_vars => TypeOK'
  <2>1. CASE UNCHANGED vars
    BY <2>1 DEF vars, clientVars, TypeOK, ControlTypeOK, BufferTypeOK
  <2>2. CASE Next
    BY <2>2, DriverStepType, OtherStepType, BufferTypeStep DEF Next, TypeOK
  <2>. QED
    BY <2>1, <2>2
<1>. QED
  BY <1>1, <1>2, PTL DEF Spec

-----------------------------------------------------------------------------
(* A turn is reported as done only when the app server completed it.       *)

\* What the app server may have written so far: it tells of a completed turn
\* only once it has completed it, and numbers nothing that is not the driver's.
Genuine ==
  {m \in Message :
     /\ m.kind = "completed" => server.turn = "completed"
     /\ m.kind = "foreign" \/ IsResponse(m) => m.n = 0}

\* Nothing else is ever buffered, and what was drained is handled before the
\* driver polls again.
BufferInv ==
  /\ batch \in Seq(Genuine)
  /\ events \in Seq(Genuine)
  /\ wire \in Seq(Genuine)
  /\ driver.pc \in {"begin", "spawn", "ask", "wait", "note", "poll"} => batch = <<>>
  /\ status = "done" => server.turn = "completed"

\* Sequences over a set are sequences over a larger one.
LEMMA SeqMonotone ==
  ASSUME NEW A, NEW B, A \subseteq B, NEW s \in Seq(A)
  PROVE  s \in Seq(B)
OBVIOUS

\* A turn that is completed stays so.
LEMMA CompletedStands ==
  ASSUME ControlTypeOK, Next
  PROVE  server.turn = "completed" => server'.turn = "completed"
<1>. USE DEF ControlTypeOK, Server
<1>1. CASE DriverStep
  BY <1>1 DEF DriverStep, Begin, Spawn, SpawnFails, Ask, WaitAnswered, WaitTimesOut, Note, Poll,
       HandledAll, HandleNoted, HandleFinal, Close, Record, Return, Guard
<1>2. CASE PumpStep
  BY <1>2 DEF PumpStep, PumpReads, PumpReplies, PumpEnds
<1>3. CASE ServerStep
  BY <1>3 DEF ServerStep, ServerBeginsTurn, ServerAnswers, ServerNotifies, ServerRequests,
              ServerEndsTurn, ServerEdits, ServerDies
<1>. QED
  BY <1>1, <1>2, <1>3 DEF Next

\* What was genuine stays so.
LEMMA GenuineStands ==
  ASSUME ControlTypeOK, Next
  PROVE  /\ Genuine \subseteq Genuine'
         /\ \A s : s \in Seq(Genuine) => s \in Seq(Genuine')
<1>1. Genuine \subseteq Genuine'
  BY CompletedStands DEF Genuine
<1>. QED
  BY <1>1, SeqMonotone

\* What the app server writes is genuine.
LEMMA WritesGenuine ==
  ASSUME ControlTypeOK, ServerStep
  PROVE  UNCHANGED wire \/ \E m \in Genuine' : Write(m)
<1>1. CASE ServerAnswers
  <2>1. server.asked \in REQUESTS
    BY <1>1 DEF ServerAnswers, ControlTypeOK, Server
  <2>2. PICK kind \in {"ok", "refused"} : Write([kind |-> kind, req |-> server.asked, n |-> 0])
    BY <1>1 DEF ServerAnswers
  <2>3. [kind |-> kind, req |-> server.asked, n |-> 0] \in Message
    BY <2>1, MessageTypes
  <2>4. [kind |-> kind, req |-> server.asked, n |-> 0] \in Genuine'
    BY <2>3 DEF Genuine
  <2>. QED
    BY <2>2, <2>4
<1>2. CASE ServerNotifies
  <2>1. PICK kind \in NOTIFICATIONS, n \in Nat :
          Write(Event(kind, n)) /\ (kind = "foreign" => n = 0)
    <3>1. server.sent + 1 \in Nat
      BY DEF ControlTypeOK, Server
    <3>. QED
      BY <1>2, <3>1 DEF ServerNotifies
  <2>2. Event(kind, n) \in Message
    BY MessageTypes DEF EVENTS
  <2>3. Event(kind, n) \in Genuine'
    BY <2>1, <2>2 DEF Genuine, Event, IsResponse, NOTIFICATIONS
  <2>. QED
    BY <2>1, <2>3
<1>3. CASE ServerRequests
  <2>1. PICK n \in Nat : Write(Event("request", n))
    BY <1>3 DEF ServerRequests, ControlTypeOK, Server
  <2>2. Event("request", n) \in Message
    BY MessageTypes DEF EVENTS
  <2>3. Event("request", n) \in Genuine'
    BY <2>2 DEF Genuine, Event, IsResponse
  <2>. QED
    BY <2>1, <2>3
<1>4. CASE ServerEndsTurn
  <2>1. PICK outcome \in OUTCOMES, n \in Nat :
          Write(Event(outcome, n)) /\ server'.turn = outcome
    <3>1. server.sent + 1 \in Nat
      BY DEF ControlTypeOK, Server
    <3>. QED
      BY <1>4, <3>1 DEF ServerEndsTurn, ControlTypeOK, Server
  <2>2. Event(outcome, n) \in Message
    BY MessageTypes DEF EVENTS
  <2>3. Event(outcome, n) \in Genuine'
    BY <2>1, <2>2 DEF Genuine, Event, IsResponse, OUTCOMES
  <2>. QED
    BY <2>1, <2>3
<1>. QED
  BY <1>1, <1>2, <1>3, <1>4 DEF ServerStep, ServerBeginsTurn, ServerEdits, ServerDies

\* A step of the worker thread buffers nothing else, and drains only what it
\* will handle before it polls again.
LEMMA DriverBufferStep ==
  ASSUME ControlTypeOK, BufferInv, DriverStep
  PROVE  BufferInv'
<1>1. \A s : s \in Seq(Genuine) => s \in Seq(Genuine')
  BY GenuineStands DEF Next
<1>2. server.turn = "completed" => server'.turn = "completed"
  BY CompletedStands DEF Next
<1>3. /\ batch' \in Seq(Genuine)
      /\ events' \in Seq(Genuine)
      /\ wire' \in Seq(Genuine)
  <2>1. CASE Poll
    <3>1. \A S : Filtered(events, S) \in Seq(Genuine)
      BY FilteredType DEF BufferInv
    <3>. QED
      BY <2>1, <3>1 DEF Poll, BufferInv
  <2>2. CASE HandleNoted \/ HandleFinal
    <3>1. batch # <<>> /\ batch' = Tail(batch) /\ UNCHANGED <<events, wire>>
      BY <2>2 DEF HandleNoted, HandleFinal
    <3>2. batch # <<>> => Tail(batch) \in Seq(Genuine)
      BY DEF BufferInv
    <3>. QED
      BY <3>1, <3>2 DEF BufferInv
  <2>3. CASE UNCHANGED <<batch, events, wire>>
    BY <2>3 DEF BufferInv
  <2>. QED
    BY <2>1, <2>2, <2>3
       DEF DriverStep, Begin, Spawn, SpawnFails, Ask, WaitAnswered, WaitTimesOut, Note,
           HandledAll, Close, Record, Return, Guard, clientVars
<1>4. driver'.pc \in {"begin", "spawn", "ask", "wait", "note", "poll"} => batch' = <<>>
  <2>. USE DEF At, Goto, ControlTypeOK, Driver, BufferInv
  <2>1. CASE Begin \/ Spawn \/ SpawnFails \/ Poll \/ HandledAll
    BY <2>1 DEF Begin, Spawn, SpawnFails, Poll, HandledAll, clientVars
  <2>2. CASE Ask \/ WaitAnswered \/ WaitTimesOut \/ Note
    BY <2>2 DEF Ask, WaitAnswered, WaitTimesOut, Note, clientVars
  <2>3. CASE HandleNoted \/ HandleFinal
    BY <2>3 DEF HandleNoted, HandleFinal, Leaves, InBlock, AfterBlock
  <2>4. CASE Close \/ Record \/ Return \/ Guard
    BY <2>4 DEF Close, AfterBlock, Record, Return, Guard
  <2>. QED
    BY <2>1, <2>2, <2>3, <2>4 DEF DriverStep
<1>5. status' = "done" => server'.turn = "completed"
  <2>1. CASE HandleFinal
    <3>1. batch # <<>> /\ Head(batch) \in Genuine
      BY <2>1 DEF HandleFinal, BufferInv
    <3>2. status' = "done" => Head(batch).kind = "completed" \/ status = "done"
      BY <2>1 DEF HandleFinal, Verdict
    <3>. QED
      BY <1>2, <3>1, <3>2 DEF Genuine, BufferInv
  <2>2. status' = "done" => HandleFinal \/ status = "done"
    BY DEF DriverStep, Begin, Spawn, SpawnFails, Ask, WaitAnswered, WaitTimesOut, Note, Poll,
         HandledAll, HandleNoted, Close, Record, Return, Guard
  <2>. QED
    BY <1>2, <2>1, <2>2 DEF BufferInv
<1>. QED
  BY <1>1, <1>3, <1>4, <1>5 DEF BufferInv

\* Nor does a step of the pump or of the app server.
LEMMA OtherBufferStep ==
  ASSUME ControlTypeOK, BufferInv, PumpStep \/ ServerStep
  PROVE  BufferInv'
<1>1. Genuine \subseteq Genuine' /\ \A s : s \in Seq(Genuine) => s \in Seq(Genuine')
  BY GenuineStands DEF Next
<1>2. server.turn = "completed" => server'.turn = "completed"
  BY CompletedStands DEF Next
<1>3. UNCHANGED <<batch, driver, status>>
  BY DEF PumpStep, PumpReads, PumpReplies, PumpEnds, ServerStep, ServerBeginsTurn,
       ServerAnswers, ServerNotifies, ServerRequests, ServerEndsTurn, ServerEdits, ServerDies,
       clientVars
<1>4. events' \in Seq(Genuine') /\ wire' \in Seq(Genuine')
  <2>1. PICK G : G = Genuine' /\ events \in Seq(G) /\ wire \in Seq(G)
    BY <1>1 DEF BufferInv
  <2>2. CASE PumpReads
    <3>1. wire # <<>> => Head(wire) \in G /\ Tail(wire) \in Seq(G)
      BY <2>1
    <3>2. PICK m \in G :
            (UNCHANGED events \/ events' = Append(events, m)) /\ wire' = Tail(wire)
      BY <2>2, <3>1 DEF PumpReads
    <3>3. Append(events, m) \in Seq(G)
      BY <2>1
    <3>4. Tail(wire) \in Seq(G)
      BY <2>2, <3>1 DEF PumpReads
    <3>. QED
      BY <2>1, <3>2, <3>3, <3>4
  <2>3. CASE PumpEnds
    <3>1. Event("shutdown", 0) \in Message
      BY MessageTypes DEF EVENTS
    <3>2. Event("shutdown", 0) \in G
      BY <2>1, <3>1 DEF Genuine, Event, IsResponse
    <3>3. Append(events, Event("shutdown", 0)) \in Seq(G)
      BY <2>1, <3>2
    <3>. QED
      BY <2>1, <2>3, <3>3 DEF PumpEnds
  <2>4. CASE ServerStep
    <3>1. UNCHANGED events
      BY <2>4 DEF ServerStep, ServerBeginsTurn, ServerAnswers, ServerNotifies, ServerRequests,
           ServerEndsTurn, ServerEdits, ServerDies, clientVars
    <3>2. UNCHANGED wire \/ \E m \in G : wire' = Append(wire, m)
      BY <2>1, <2>4, WritesGenuine DEF Write
    <3>3. \A m \in G : Append(wire, m) \in Seq(G)
      BY <2>1
    <3>. QED
      BY <2>1, <3>1, <3>2, <3>3
  <2>. QED
    BY <2>1, <2>2, <2>3, <2>4 DEF PumpStep, PumpReplies, clientVars
<1>. QED
  BY <1>1, <1>2, <1>3, <1>4 DEF BufferInv

\* The buffer invariant holds in every reachable state.
LEMMA BufferInvariant == Spec => [](ControlInv /\ TypeOK /\ BufferInv)
<1>1. Init => BufferInv
  BY DEF Init, BufferInv
<1>2. ControlTypeOK /\ BufferInv /\ [Next]_vars => BufferInv'
  <2>1. CASE UNCHANGED vars
    BY <2>1 DEF vars, clientVars, BufferInv, Genuine
  <2>. QED
    BY <2>1, DriverBufferStep, OtherBufferStep DEF Next
<1>. QED
  BY <1>1, <1>2, ControlTypeCorrect, ControlInvariant, TypeCorrect, PTL DEF Spec

\* "done" is only ever reported of a turn the app server completed: the status
\* is that of the last message handled, and a message of a completed turn is on
\* its way only once the turn is.
THEOREM DoneIsCompletedHolds == Spec => []DoneIsCompleted
<1>1. BufferInv => DoneIsCompleted
  BY DEF BufferInv, DoneIsCompleted
<1>. QED
  BY <1>1, BufferInvariant, PTL

-----------------------------------------------------------------------------
(* No event is lost, repeated or reordered.                                *)

\* The sequence p ends with the message of number n, and goes up to it by one.
InOrder(p, n) == \A i \in DOMAIN p : p[i].n = n - Len(p) + i

\* The numbered messages on their way to the driver, the oldest first.
Pending ==
  Filtered(batch, Numbered) \o Filtered(events, Numbered) \o Filtered(wire, Numbered)

Ordered == InOrder(Pending, server.sent)

\* The oldest message may be taken away.
LEMMA OldestTaken ==
  ASSUME NEW n \in Nat, NEW h \in Message, NEW q \in Seq(Message), InOrder(<<h>> \o q, n)
  PROVE  InOrder(q, n)
<1>1. /\ Len(<<h>> \o q) = Len(q) + 1 /\ Len(q) \in Nat
      /\ DOMAIN q = 1 .. Len(q) /\ DOMAIN (<<h>> \o q) = 1 .. Len(q) + 1
      /\ \A i \in 1 .. Len(q) : (<<h>> \o q)[i + 1] = q[i]
  OBVIOUS
<1>2. \A i \in 1 .. Len(q) : q[i].n = n - (Len(q) + 1) + (i + 1)
  <2>1. PICK p : p = <<h>> \o q
    OBVIOUS
  <2>2. \A j \in 1 .. Len(q) + 1 : p[j].n = n - (Len(q) + 1) + j
    BY <1>1, <2>1, Zenon DEF InOrder
  <2>3. \A i \in 1 .. Len(q) : i + 1 \in 1 .. Len(q) + 1 /\ p[i + 1] = q[i]
    BY <1>1, <2>1
  <2>. QED
    BY <2>2, <2>3
<1>. QED
  BY <1>1, <1>2 DEF InOrder

\* A message with the next number may be added.
LEMMA NewestAdded ==
  ASSUME NEW n \in Nat, NEW p \in Seq(Message), NEW m \in Message,
         InOrder(p, n), m.n = n + 1
  PROVE  InOrder(Append(p, m), n + 1)
<1>1. /\ Len(Append(p, m)) = Len(p) + 1 /\ Len(p) \in Nat
      /\ DOMAIN p = 1 .. Len(p) /\ DOMAIN Append(p, m) = 1 .. Len(p) + 1
      /\ \A i \in 1 .. Len(p) : Append(p, m)[i] = p[i]
      /\ Append(p, m)[Len(p) + 1] = m
  OBVIOUS
<1>2. \A i \in 1 .. Len(p) : Append(p, m)[i].n = (n + 1) - (Len(p) + 1) + i
  BY <1>1 DEF InOrder
<1>. QED
  BY <1>1, <1>2 DEF InOrder

\* A message that leaves the head of the last of three buffers for the end of
\* the one before stays where it is in what they hold together.
LEMMA MovedOver ==
  ASSUME NEW b \in Seq(Message), NEW e \in Seq(Message), NEW w \in Seq(Message),
         NEW m \in Message
  PROVE  b \o Append(e, m) \o w = b \o e \o (<<m>> \o w)
<1>1. PICK c \in Seq(Message) : c = <<m>>
  <2>1. <<m>> \in Seq(Message)
    OBVIOUS
  <2>. QED
    BY <2>1
<1>2. Append(e, m) = e \o c /\ b \o (e \o c) = (b \o e) \o c /\ b \o e \in Seq(Message)
  BY <1>1
<1>3. ((b \o e) \o c) \o w = (b \o e) \o (c \o w)
  BY <1>2, ConcatAssociative
<1>. QED
  BY <1>1, <1>2, <1>3, Zenon

\* What the app server writes is numbered in turn, or not at all.
LEMMA WritesInTurn ==
  ASSUME ControlTypeOK, ServerStep
  PROVE  \/ UNCHANGED wire /\ server'.sent = server.sent
         \/ \E m \in Message :
              /\ Write(m)
              /\ \/ m.n = 0 /\ server'.sent = server.sent
                 \/ m.n = server.sent + 1 /\ server'.sent = server.sent + 1
<1>. USE DEF ControlTypeOK, Server
<1>1. CASE ServerAnswers
  <2>1. server.asked \in REQUESTS
    BY <1>1 DEF ServerAnswers
  <2>2. PICK kind \in {"ok", "refused"} : Write([kind |-> kind, req |-> server.asked, n |-> 0])
    BY <1>1 DEF ServerAnswers
  <2>3. [kind |-> kind, req |-> server.asked, n |-> 0] \in Message
    BY <2>1, MessageTypes
  <2>4. server'.sent = server.sent
    BY <1>1 DEF ServerAnswers
  <2>. QED
    BY <2>2, <2>3, <2>4
<1>2. CASE ServerNotifies \/ ServerRequests \/ ServerEndsTurn
  <2>1. server.sent + 1 \in Nat
    OBVIOUS
  <2>2. PICK kind \in EVENTS, n \in Nat :
          /\ Write(Event(kind, n))
          /\ \/ n = 0 /\ server'.sent = server.sent
             \/ n = server.sent + 1 /\ server'.sent = server.sent + 1
    <3>1. CASE ServerNotifies
      <4>1. PICK kind \in NOTIFICATIONS :
              LET n == IF kind = "foreign" THEN 0 ELSE server.sent + 1
              IN  /\ Write(Event(kind, n))
                  /\ server' = [server EXCEPT !.sent = IF n = 0 THEN @ ELSE n]
        BY <3>1 DEF ServerNotifies
      <4>. QED
        BY <2>1, <4>1 DEF EVENTS
    <3>2. CASE ServerRequests
      BY <2>1, <3>2 DEF ServerRequests, EVENTS
    <3>3. CASE ServerEndsTurn
      BY <2>1, <3>3 DEF ServerEndsTurn, EVENTS
    <3>. QED
      BY <1>2, <3>1, <3>2, <3>3
  <2>3. Event(kind, n) \in Message /\ Event(kind, n).n = n
    BY MessageTypes DEF Event
  <2>. QED
    BY <2>2, <2>3
<1>3. CASE ServerBeginsTurn \/ ServerEdits \/ ServerDies
  BY <1>3 DEF ServerBeginsTurn, ServerEdits, ServerDies
<1>. QED
  BY <1>1, <1>2, <1>3 DEF ServerStep

\* Poll takes from the client's buffer what is the driver's, which is all that
\* is numbered, to an empty batch.
LEMMA PollOrder ==
  ASSUME BufferTypeOK, BufferInv, Poll
  PROVE  Pending' = Pending
<1>1. PICK w \in Seq(Message) : w = Filtered(wire, Numbered) /\ w = Filtered(wire, Numbered)'
  BY FilteredType DEF BufferTypeOK, Poll
<1>2. PICK e \in Seq(Message) : e = Filtered(events, Numbered)
  BY FilteredType DEF BufferTypeOK
<1>3. PICK mine \in Seq(Message), rest \in Seq(Message) :
        /\ mine = Filtered(events, Mine) /\ rest = Filtered(events, Message \ Mine)
        /\ batch' = mine /\ events' = rest
  BY FilteredType DEF BufferTypeOK, Poll
<1>4. Filtered(batch, Numbered) = <<>>
  BY FilteredEmpty DEF BufferInv, Poll, At
<1>5. \A m \in Genuine : m \in Numbered => m \in Mine
  BY DEF Genuine, Numbered, Mine
<1>6. Filtered(mine, Numbered) = e
  <2>1. \A i \in 1 .. Len(events) : events[i] \in Numbered => events[i] \in Mine
    BY <1>5 DEF BufferInv
  <2>. QED
    BY <1>2, <1>3, <2>1, FilteredTwice DEF BufferTypeOK
<1>7. Filtered(rest, Numbered) = <<>>
  <2>1. rest \in Seq(Genuine)
    BY <1>3, FilteredType DEF BufferInv
  <2>2. \A i \in 1 .. Len(rest) : rest[i] \in Message \ Mine
    BY <1>3, FilteredElements DEF BufferTypeOK
  <2>3. \A i \in 1 .. Len(rest) : rest[i] \in Genuine
    BY <2>1
  <2>4. \A i \in 1 .. Len(rest) : rest[i] \notin Numbered
    BY <1>5, <2>2, <2>3
  <2>. QED
    BY <2>4, FilteredNone
<1>8. Pending = <<>> \o e \o w
  BY <1>1, <1>2, <1>4 DEF Pending
<1>9. Pending' = e \o <<>> \o w
  BY <1>1, <1>3, <1>6, <1>7 DEF Pending
<1>10. <<>> \o e = e /\ e \o <<>> = e
  OBVIOUS
<1>. QED
  BY <1>8, <1>9, <1>10, Zenon

\* The driver handles the head of the batch.
LEMMA HandleOrder ==
  ASSUME BufferTypeOK, HandleNoted \/ HandleFinal
  PROVE  Pending' = Pending \/ \E m \in Message : Pending = <<m>> \o Pending'
<1>1. batch # <<>> /\ batch' = Tail(batch) /\ UNCHANGED <<events, wire>>
  BY DEF HandleNoted, HandleFinal
<1>2. PICK w \in Seq(Message) : w = Filtered(wire, Numbered) /\ w = Filtered(wire, Numbered)'
  BY <1>1, FilteredType DEF BufferTypeOK
<1>3. PICK e \in Seq(Message) : e = Filtered(events, Numbered) /\ e = Filtered(events, Numbered)'
  BY <1>1, FilteredType DEF BufferTypeOK
<1>4. Head(batch) \in Message /\ Tail(batch) \in Seq(Message)
  BY <1>1 DEF BufferTypeOK
<1>5. PICK b \in Seq(Message) : b = Filtered(batch', Numbered)
  BY <1>1, <1>4, FilteredType
<1>6. PICK m \in Message : m = Head(batch)
  BY <1>4
<1>7. Filtered(batch, Numbered) = b \/ Filtered(batch, Numbered) = <<m>> \o b
  BY <1>1, <1>5, <1>6, FilteredHead, Zenon DEF BufferTypeOK
<1>8. Pending' = b \o e \o w
  BY <1>2, <1>3, <1>5 DEF Pending
<1>9. Pending = b \o e \o w \/ Pending = (<<m>> \o b) \o e \o w
  BY <1>2, <1>3, <1>7 DEF Pending
<1>10. (<<m>> \o b) \o e \o w = <<m>> \o (b \o e \o w)
  OBVIOUS
<1>. QED
  BY <1>6, <1>8, <1>9, <1>10, Zenon

\* The pump moves the head of the wire to the end of the client's buffer; a
\* response, which it moves elsewhere, is not numbered.
LEMMA PumpOrder ==
  ASSUME BufferTypeOK, BufferInv, PumpReads
  PROVE  Pending' = Pending
<1>1. wire # <<>> /\ wire' = Tail(wire) /\ UNCHANGED batch
  BY DEF PumpReads
<1>2. PICK b \in Seq(Message) : b = Filtered(batch, Numbered) /\ b = Filtered(batch, Numbered)'
  BY <1>1, FilteredType DEF BufferTypeOK
<1>3. Head(wire) \in Genuine /\ Head(wire) \in Message /\ Tail(wire) \in Seq(Message)
  BY <1>1 DEF BufferTypeOK, BufferInv
<1>4. PICK w \in Seq(Message) : w = Filtered(wire', Numbered)
  BY <1>1, <1>3, FilteredType
<1>5. PICK m \in Message : m = Head(wire)
  BY <1>3
<1>6. PICK e \in Seq(Message) : e = Filtered(events, Numbered)
  BY FilteredType DEF BufferTypeOK
<1>7. Filtered(wire, Numbered) = IF m \in Numbered THEN <<m>> \o w ELSE w
  BY <1>1, <1>4, <1>5, FilteredHead, Zenon DEF BufferTypeOK
<1>8. Filtered(Append(events, m), Numbered) = IF m \in Numbered THEN Append(e, m) ELSE e
  BY <1>6, FilteredAppend, Zenon DEF BufferTypeOK
<1>9. CASE m \in Numbered
  <2>1. ~IsResponse(m)
    BY <1>3, <1>5, <1>9 DEF Genuine, Numbered
  <2>2. events' = Append(events, m)
    BY <1>5, <2>1 DEF PumpReads
  <2>3. Filtered(events', Numbered) = Append(e, m)
    BY <1>9, <1>8, <2>2
  <2>4. Pending' = b \o Append(e, m) \o w
    BY <1>2, <1>4, <2>3 DEF Pending
  <2>5. Pending = b \o e \o (<<m>> \o w)
    BY <1>2, <1>6, <1>7, <1>9 DEF Pending
  <2>6. b \o Append(e, m) \o w = b \o e \o (<<m>> \o w)
    BY MovedOver, Zenon
  <2>. QED
    BY <2>4, <2>5, <2>6, Zenon
<1>10. CASE m \notin Numbered
  <2>1. events' = Append(events, m) \/ events' = events
    BY <1>5 DEF PumpReads
  <2>2. Filtered(events', Numbered) = e
    BY <1>6, <1>10, <1>8, <2>1
  <2>. QED
    BY <1>2, <1>4, <1>6, <1>7, <1>10, <2>2 DEF Pending
<1>. QED
  BY <1>9, <1>10

\* The end of stdout is told of by an event that is not numbered.
LEMMA ShutdownOrder ==
  ASSUME BufferTypeOK, PumpEnds
  PROVE  Pending' = Pending
<1>1. PICK m \in Message : m = Event("shutdown", 0)
  BY MessageTypes DEF EVENTS
<1>2. m \notin Numbered
  BY <1>1 DEF Numbered, Event
<1>3. events' = Append(events, m) /\ UNCHANGED <<batch, wire>>
  BY <1>1 DEF PumpEnds
<1>4. Filtered(events', Numbered) = Filtered(events, Numbered)
  BY <1>2, <1>3, FilteredAppend DEF BufferTypeOK
<1>. QED
  BY <1>3, <1>4 DEF Pending

\* The app server writes at the end of the wire.
LEMMA ServerOrder ==
  ASSUME ControlTypeOK, BufferTypeOK, ServerStep
  PROVE  \/ Pending' = Pending /\ server'.sent = server.sent
         \/ \E m \in Message :
              /\ Pending' = Append(Pending, m)
              /\ m.n = server.sent + 1 /\ server'.sent = server.sent + 1
<1>1. UNCHANGED <<batch, events>>
  BY DEF ServerStep, ServerBeginsTurn, ServerAnswers, ServerNotifies, ServerRequests,
       ServerEndsTurn, ServerEdits, ServerDies, clientVars
<1>2. CASE UNCHANGED wire /\ server'.sent = server.sent
  BY <1>1, <1>2 DEF Pending
<1>3. ASSUME NEW m \in Message, Write(m),
             \/ m.n = 0 /\ server'.sent = server.sent
             \/ m.n = server.sent + 1 /\ server'.sent = server.sent + 1
      PROVE  \/ Pending' = Pending /\ server'.sent = server.sent
             \/ /\ Pending' = Append(Pending, m)
                /\ m.n = server.sent + 1 /\ server'.sent = server.sent + 1
  <2>1. PICK b \in Seq(Message), e \in Seq(Message), w \in Seq(Message) :
          /\ b = Filtered(batch, Numbered) /\ b = Filtered(batch, Numbered)'
          /\ e = Filtered(events, Numbered) /\ e = Filtered(events, Numbered)'
          /\ w = Filtered(wire, Numbered)
    BY <1>1, FilteredType DEF BufferTypeOK
  <2>2. Filtered(wire', Numbered) = IF m \in Numbered THEN Append(w, m) ELSE w
    <3>1. Filtered(Append(wire, m), Numbered) = IF m \in Numbered THEN Append(w, m) ELSE w
      <4>1. wire \in Seq(Message)
        BY DEF BufferTypeOK
      <4>2. w = Filtered(wire, Numbered)
        BY <2>1
      <4>. QED
        BY <4>1, <4>2, FilteredAppend, Zenon
    <3>. QED
      BY <1>3, <3>1 DEF Write
  <2>3. server.sent \in Nat
    BY DEF ControlTypeOK, Server
  <2>4. CASE m.n = 0
    <3>1. m \notin Numbered
      BY <2>4 DEF Numbered
    <3>2. Pending' = Pending
      BY <2>1, <2>2, <3>1 DEF Pending
    <3>. QED
      BY <1>3, <2>3, <2>4, <3>2
  <2>5. CASE m.n = server.sent + 1
    <3>1. m \in Numbered
      BY <2>3, <2>5 DEF Numbered
    <3>2. Pending' = b \o e \o Append(w, m) /\ Pending = b \o e \o w
      BY <2>1, <2>2, <3>1 DEF Pending
    <3>3. b \o e \o Append(w, m) = Append(b \o e \o w, m)
      OBVIOUS
    <3>4. Pending' = Append(Pending, m)
      BY <3>2, <3>3, Zenon
    <3>. QED
      BY <1>3, <2>3, <2>5, <3>4
  <2>. QED
    BY <1>3, <2>4, <2>5
<1>. QED
  BY <1>2, <1>3, WritesInTurn

\* Whatever the three do, what is on its way to the driver goes up to the last
\* number given.
LEMMA OrderStep ==
  ASSUME ControlTypeOK, BufferTypeOK, BufferInv, Ordered, Next
  PROVE  Ordered'
<1>1. server.sent \in Nat
  BY DEF ControlTypeOK, Server
<1>2. server'.sent = server.sent \/ ServerStep
  BY DEF Next, DriverStep, Begin, Spawn, SpawnFails, Ask, WaitAnswered, WaitTimesOut, Note,
       Poll, HandledAll, HandleNoted, HandleFinal, Close, Record, Return, Guard,
       PumpStep, PumpReads, PumpReplies, PumpEnds, ControlTypeOK, Server
<1>3. CASE Pending' = Pending /\ server'.sent = server.sent
  BY <1>3 DEF Ordered, InOrder
<1>4. CASE HandleNoted \/ HandleFinal
  <2>1. server'.sent = server.sent
    BY <1>4 DEF HandleNoted, HandleFinal
  <2>2. CASE Pending' = Pending
    BY <1>3, <2>1, <2>2
  <2>3. ASSUME NEW m \in Message, Pending = <<m>> \o Pending'
        PROVE  Ordered'
    <3>1. Pending' \in Seq(Message)
      <4>1. batch' \in Seq(Message) /\ UNCHANGED <<events, wire>>
        <5>1. batch # <<>> /\ batch' = Tail(batch) /\ UNCHANGED <<events, wire>>
          BY <1>4 DEF HandleNoted, HandleFinal
        <5>2. batch # <<>> => Tail(batch) \in Seq(Message)
          BY DEF BufferTypeOK
        <5>. QED
          BY <5>1, <5>2
      <4>2. PICK b \in Seq(Message), e \in Seq(Message), w \in Seq(Message) :
              /\ b = Filtered(batch, Numbered)'
              /\ e = Filtered(events, Numbered)'
              /\ w = Filtered(wire, Numbered)'
        BY <4>1, FilteredType DEF BufferTypeOK
      <4>3. b \o e \o w \in Seq(Message)
        OBVIOUS
      <4>. QED
        BY <4>2, <4>3 DEF Pending
    <3>2. PICK q \in Seq(Message) : q = Pending'
      BY <3>1
    <3>3. InOrder(q, server.sent)
      BY <1>1, <2>3, <3>2, OldestTaken DEF Ordered
    <3>. QED
      BY <2>1, <3>2, <3>3 DEF Ordered, InOrder
  <2>. QED
    BY <1>4, <2>2, <2>3, HandleOrder
<1>5. CASE ServerStep
  <2>1. Pending \in Seq(Message)
    <3>1. PICK b \in Seq(Message), e \in Seq(Message), w \in Seq(Message) :
            /\ b = Filtered(batch, Numbered)
            /\ e = Filtered(events, Numbered)
            /\ w = Filtered(wire, Numbered)
      BY FilteredType DEF BufferTypeOK
    <3>2. b \o e \o w \in Seq(Message)
      OBVIOUS
    <3>. QED
      BY <3>1, <3>2 DEF Pending
  <2>2. ASSUME NEW m \in Message, Pending' = Append(Pending, m),
               m.n = server.sent + 1, server'.sent = server.sent + 1
        PROVE  Ordered'
    <3>1. InOrder(Append(Pending, m), server.sent + 1)
      BY <1>1, <2>1, <2>2, NewestAdded DEF Ordered
    <3>. QED
      BY <2>2, <3>1 DEF Ordered, InOrder
  <2>. QED
    BY <1>3, <1>5, <2>2, ServerOrder
<1>6. CASE Poll \/ PumpReads \/ PumpEnds
  BY <1>3, <1>6, PollOrder, PumpOrder, ShutdownOrder DEF Poll, PumpReads, PumpEnds
<1>7. CASE UNCHANGED <<batch, events, wire>> /\ server'.sent = server.sent
  <2>1. Pending' = Pending
    BY <1>7 DEF Pending
  <2>. QED
    BY <1>3, <1>7, <2>1
<1>. QED
  BY <1>2, <1>4, <1>5, <1>6, <1>7
     DEF Next, DriverStep, Begin, Spawn, SpawnFails, Ask, WaitAnswered, WaitTimesOut, Note,
         HandledAll, Close, Record, Return, Guard, PumpStep, PumpReplies, clientVars

\* No event of the turn is lost, repeated or reordered between the app server
\* and the driver, however the pump's appends and the driver's drains
\* (_pump_stdout, poll_events) interleave.
THEOREM EventsInOrderHolds == Spec => []EventsInOrder
<1>1. Init => Ordered
  <2>1. Init => Pending = <<>> \o <<>> \o <<>>
    BY FilteredEmpty DEF Init, Pending
  <2>2. <<>> \o <<>> \o <<>> = <<>>
    OBVIOUS
  <2>3. DOMAIN <<>> = {}
    OBVIOUS
  <2>. QED
    BY <2>1, <2>2, <2>3 DEF Ordered, InOrder
<1>2. ControlTypeOK /\ BufferTypeOK /\ BufferInv /\ Ordered /\ [Next]_vars => Ordered'
  <2>1. CASE UNCHANGED vars
    <3>1. Pending' = Pending
      BY <2>1 DEF vars, clientVars, Pending
    <3>. QED
      BY <2>1, <3>1 DEF vars, Ordered, InOrder
  <2>. QED
    BY <2>1, OrderStep
<1>3. BufferTypeOK /\ Ordered => EventsInOrder
  <2>. SUFFICES ASSUME BufferTypeOK, Ordered PROVE EventsInOrder
    OBVIOUS
  <2>1. Filtered(batch \o events, Numbered) =
          Filtered(batch, Numbered) \o Filtered(events, Numbered)
    BY FilteredConcat DEF BufferTypeOK
  <2>2. PICK r \in Seq(Message) : r = batch \o events
    <3>1. batch \o events \in Seq(Message)
      BY DEF BufferTypeOK
    <3>. QED
      BY <3>1
  <2>3. Filtered(r \o wire, Numbered) = Filtered(r, Numbered) \o Filtered(wire, Numbered)
    BY FilteredConcat DEF BufferTypeOK
  <2>4. Filtered(batch \o events \o wire, Numbered) = Pending
    BY <2>1, <2>2, <2>3, Zenon DEF Pending
  <2>. QED
    BY <2>4 DEF Ordered, InOrder, EventsInOrder
<1>4. ControlInv /\ TypeOK /\ BufferInv => ControlTypeOK /\ BufferTypeOK /\ BufferInv
  BY DEF TypeOK
<1>. QED
  BY <1>1, <1>2, <1>3, <1>4, BufferInvariant, PTL DEF Spec

-----------------------------------------------------------------------------
(* The turn is a worker thread of module Worker.                           *)

\* What the thread's step counter, status and faults are in terms of the turn.
LEMMA ThreadMoves ==
  /\ <<WorkerPc>>[1] = WorkerPc
  /\ \A l : WorkerPc' = l => Thread!Moves(1, l)
  /\ \A s : status' = s => Thread!SetStatus(s)
  /\ UNCHANGED WorkerPc => UNCHANGED <<WorkerPc>>
  /\ UNCHANGED status => UNCHANGED WithWorkerStatus(Created(NoRow), status)
  /\ UNCHANGED Escaped => Thread!NoFault
  /\ Escaped < MaxFaults /\ Escaped' = Escaped + 1 => Thread!Fault
<1>1. \A l : WorkerPc' = l => Thread!Moves(1, l)
  BY DEF Thread!Moves
<1>2. \A s : status' = s => Thread!SetStatus(s)
  BY DEF Thread!SetStatus, Thread!WithWorkerStatus, WithWorkerStatus, Created, NoRow
<1>3. UNCHANGED Escaped => Thread!NoFault
  BY DEF Thread!NoFault
<1>4. Escaped < MaxFaults /\ Escaped' = Escaped + 1 => Thread!Fault
  BY DEF Thread!Fault
<1>. QED
  BY <1>1, <1>2, <1>3, <1>4

\* A step of the driver is a step of the thread, or invisible to it.
LEMMA DriverIsThread ==
  ASSUME ControlInv, DriverStep
  PROVE  Thread!WorkerStep(1) \/ UNCHANGED <<WorkerPc, status, tree, Escaped>>
<1>. USE DEF At, Goto, ControlInv, ControlTypeOK, Driver, StatusInv
<1>1. faults \in Nat /\ MaxFaults \in Nat /\ faults <= MaxFaults
  BY CodexAssumption
<1>2. CASE Begin
  <2>1. WorkerPc = "begin" /\ UNCHANGED tree /\ Escaped = faults
    BY <1>1, <1>2 DEF Begin, WorkerPc, Escaped
  <2>2. \/ status' = "running" /\ WorkerPc' = "working" /\ UNCHANGED Escaped
        \/ Fault /\ WorkerPc' = "guard" /\ UNCHANGED status /\ Escaped' = faults + 1
    BY <1>1, <1>2 DEF Begin, WorkerPc, Escaped, Fault
  <2>3. Thread!WorkerBegin(1)
    BY <2>1, <2>2, ThreadMoves DEF Thread!WorkerBegin, Fault
  <2>. QED
    BY <2>3 DEF Thread!WorkerStep
<1>3. CASE Spawn \/ Poll \/ HandledAll
  BY <1>1, <1>3 DEF Spawn, Poll, HandledAll, WorkerPc, Escaped
<1>4. CASE SpawnFails
  <2>1. /\ WorkerPc = "working" /\ WorkerPc' = "guard"
        /\ UNCHANGED <<status, tree, Escaped>>
    BY <1>1, <1>4 DEF SpawnFails, WorkerPc, Escaped
  <2>2. Thread!WorkerCrash(1)
    BY <2>1, ThreadMoves DEF Thread!WorkerCrash
  <2>. QED
    BY <2>2 DEF Thread!WorkerStep
<1>5. CASE Ask
  <2>1. /\ WorkerPc = "working" /\ WorkerPc' \in {"working", "guard"}
        /\ UNCHANGED <<status, tree, Escaped>>
    BY <1>1, <1>5 DEF Ask, Leaves, InBlock, AfterBlock, WorkerPc, Escaped
  <2>2. WorkerPc' = "guard" => Thread!WorkerCrash(1)
    BY <2>1, ThreadMoves DEF Thread!WorkerCrash
  <2>. QED
    BY <2>1, <2>2 DEF Thread!WorkerStep
<1>6. CASE WaitAnswered \/ WaitTimesOut
  <2>1. /\ At("wait")
        /\ Leaves("error") \/ Asked("thread/start") \/ Goto("note") \/ Goto("poll")
        /\ UNCHANGED <<status, tree, faults>>
    BY <1>6 DEF WaitAnswered, WaitTimesOut, REQUESTS, clientVars
  <2>2. WorkerPc = "working" /\ WorkerPc' = "working"
    <3>1. CASE Leaves("error")
      BY <2>1, <3>1 DEF Leaves, AfterBlock, WorkerPc
    <3>2. CASE Asked("thread/start") \/ Goto("note") \/ Goto("poll")
      BY <2>1, <3>2 DEF Asked, WorkerPc
    <3>. QED
      BY <2>1, <3>1, <3>2
  <2>3. UNCHANGED Escaped
    <3>1. CASE Leaves("error")
      BY <2>1, <3>1 DEF Leaves, Escaped
    <3>2. CASE Asked("thread/start") \/ Goto("note") \/ Goto("poll")
      BY <2>1, <3>2 DEF Asked, Escaped
    <3>. QED
      BY <2>1, <3>1, <3>2
  <2>. QED
    BY <2>1, <2>2, <2>3
<1>7. CASE Note \/ HandleNoted
  <2>1. /\ At("note") \/ At("handle")
        /\ \/ UNCHANGED <<driver, faults>>
           \/ Asked("turn/start") /\ UNCHANGED faults
           \/ Fault /\ Leaves("dberror")
        /\ UNCHANGED <<status, tree>>
    BY <1>7 DEF Note, HandleNoted
  <2>2. CASE UNCHANGED <<driver, faults>>
    BY <2>1, <2>2 DEF WorkerPc, Escaped
  <2>3. CASE Asked("turn/start") /\ UNCHANGED faults
    BY <2>1, <2>3 DEF Asked, WorkerPc, Escaped
  <2>4. CASE Fault /\ Leaves("dberror")
    <3>1. driver' = [driver EXCEPT !.pc = "close", !.exit = "dberror"] /\ faults' = faults + 1
      BY <2>1, <2>4 DEF Leaves, InBlock, Fault
    <3>2. WorkerPc = "working" /\ WorkerPc' = "working"
      BY <2>1, <3>1 DEF WorkerPc
    <3>3. Escaped = faults /\ Escaped' = faults + 1 - 1
      BY <1>1, <2>1, <3>1 DEF Escaped
    <3>. QED
      BY <1>1, <2>1, <3>2, <3>3
  <2>. QED
    BY <2>1, <2>2, <2>3, <2>4
<1>8. CASE HandleFinal
  <2>1. /\ At("handle") /\ UNCHANGED tree
        /\ \/ status' \in {"done", "failed"} /\ Leaves("return") /\ UNCHANGED faults
           \/ Fault /\ Leaves("dberror") /\ UNCHANGED status
    BY <1>8 DEF HandleFinal, Verdict
  <2>2. CASE status' \in {"done", "failed"} /\ Leaves("return") /\ UNCHANGED faults
    <3>1. /\ WorkerPc = "working" /\ UNCHANGED <<tree, Escaped>>
          /\ \/ status' = "done" /\ WorkerPc' = "closing"
             \/ status' = "failed" /\ WorkerPc' = "failing"
      BY <1>1, <2>1, <2>2 DEF Leaves, InBlock, WorkerPc, Escaped
    <3>2. Thread!WorkerFinish(1)
      BY <3>1, ThreadMoves DEF Thread!WorkerFinish
    <3>. QED
      BY <3>2 DEF Thread!WorkerStep
  <2>3. CASE Fault /\ Leaves("dberror") /\ UNCHANGED status
    BY <1>1, <2>1, <2>3 DEF Leaves, InBlock, Fault, WorkerPc, Escaped
  <2>. QED
    BY <2>1, <2>2, <2>3
<1>9. CASE Close
  <2>1. At("close") /\ UNCHANGED <<status, tree, faults>>
    BY <1>9 DEF Close
  <2>2. PICK next \in {AfterBlock(driver.exit), "guard"} : Goto(next)
    BY <1>9 DEF Close
  <2>3. CASE driver.exit = "return"
    <3>1. /\ WorkerPc \in {"closing", "failing"} /\ WorkerPc' \in {"dead", "guard"}
          /\ UNCHANGED <<status, tree, Escaped>>
      BY <1>1, <2>1, <2>2, <2>3 DEF AfterBlock, WorkerPc, Escaped
    <3>2. Thread!WorkerReturns(1) \/ Thread!WorkerCrash(1)
      BY <3>1, ThreadMoves DEF Thread!WorkerReturns, Thread!WorkerCrash
    <3>. QED
      BY <3>2 DEF Thread!WorkerStep
  <2>4. CASE driver.exit \in {"error", "raise"}
    <3>1. /\ WorkerPc = "working" /\ WorkerPc' \in {"working", "guard"}
          /\ UNCHANGED <<status, tree, Escaped>>
      BY <1>1, <2>1, <2>2, <2>4 DEF AfterBlock, WorkerPc, Escaped
    <3>2. WorkerPc' = "guard" => Thread!WorkerCrash(1)
      BY <3>1, ThreadMoves DEF Thread!WorkerCrash
    <3>. QED
      BY <3>1, <3>2 DEF Thread!WorkerStep
  <2>5. CASE driver.exit = "dberror"
    <3>1. /\ WorkerPc = "working" /\ WorkerPc' = "guard"
          /\ UNCHANGED <<status, tree>>
          /\ Escaped < MaxFaults /\ Escaped' = Escaped + 1
      BY <1>1, <2>1, <2>2, <2>5 DEF AfterBlock, WorkerPc, Escaped
    <3>2. Thread!WorkerFinish(1)
      BY <3>1, ThreadMoves DEF Thread!WorkerFinish
    <3>. QED
      BY <3>2 DEF Thread!WorkerStep
  <2>. QED
    BY <2>3, <2>4, <2>5 DEF EXITS
<1>10. CASE Record
  <2>1. /\ WorkerPc = "working" /\ UNCHANGED tree
        /\ \/ status' = "failed" /\ WorkerPc' = "failing" /\ UNCHANGED Escaped
           \/ /\ Escaped < MaxFaults /\ Escaped' = Escaped + 1
              /\ WorkerPc' = "guard" /\ UNCHANGED status
    BY <1>1, <1>10 DEF Record, Fault, WorkerPc, Escaped
  <2>2. Thread!WorkerFinish(1)
    BY <2>1, ThreadMoves DEF Thread!WorkerFinish
  <2>. QED
    BY <2>2 DEF Thread!WorkerStep
<1>11. CASE Return
  <2>1. /\ WorkerPc = "failing" /\ WorkerPc' = "dead"
        /\ UNCHANGED <<status, tree, Escaped>>
    BY <1>1, <1>11 DEF Return, WorkerPc, Escaped
  <2>2. Thread!WorkerReturns(1)
    BY <2>1, ThreadMoves DEF Thread!WorkerReturns
  <2>. QED
    BY <2>2 DEF Thread!WorkerStep
<1>12. CASE Guard
  <2>1. /\ WorkerPc = "guard" /\ WorkerPc' = "dead" /\ UNCHANGED tree
        /\ \/ status' = "failed" /\ UNCHANGED Escaped
           \/ Escaped < MaxFaults /\ Escaped' = Escaped + 1 /\ UNCHANGED status
    BY <1>1, <1>12 DEF Guard, Fault, WorkerPc, Escaped
  <2>2. Thread!WorkerGuard(1)
    BY <2>1, ThreadMoves DEF Thread!WorkerGuard
  <2>. QED
    BY <2>2 DEF Thread!WorkerStep
<1>. QED
  BY <1>2, <1>3, <1>4, <1>5, <1>6, <1>7, <1>8, <1>9, <1>10, <1>11, <1>12 DEF DriverStep

\* So is a step of the pump or of the app server.  It edits the workspace only
\* while its turn runs, and then the thread has reported no success yet.
LEMMA OtherIsThread ==
  ASSUME ControlInv, DoneIsCompleted, PumpStep \/ ServerStep
  PROVE  Thread!WorkerStep(1) \/ UNCHANGED <<WorkerPc, status, tree, Escaped>>
<1>1. UNCHANGED <<driver, status, faults>>
  BY DEF PumpStep, PumpReads, PumpReplies, PumpEnds, ServerStep, ServerBeginsTurn,
       ServerAnswers, ServerNotifies, ServerRequests, ServerEndsTurn, ServerEdits, ServerDies,
       clientVars
<1>2. UNCHANGED <<WorkerPc, Escaped>>
  BY <1>1 DEF WorkerPc, Escaped, At
<1>3. CASE ServerEdits
  <2>1. driver.pc \in {"wait", "poll", "handle", "close"} /\ status # "done"
    BY <1>3 DEF ServerEdits, ControlInv, TurnInv, DoneIsCompleted
  <2>2. WorkerPc \in {"working", "failing"}
    BY <2>1 DEF WorkerPc, At
  <2>3. tree < MaxTree /\ tree' = tree + 1
    BY <1>3 DEF ServerEdits
  <2>4. Thread!WorkerEdit(1)
    BY <1>1, <1>2, <2>2, <2>3, ThreadMoves DEF Thread!WorkerEdit
  <2>. QED
    BY <2>4 DEF Thread!WorkerStep
<1>4. CASE ~ServerEdits
  <2>1. UNCHANGED tree
    BY <1>4 DEF PumpStep, PumpReads, PumpReplies, PumpEnds, ServerStep, ServerBeginsTurn,
         ServerAnswers, ServerNotifies, ServerRequests, ServerEndsTurn, ServerDies
  <2>. QED
    BY <1>1, <1>2, <2>1
<1>. QED
  BY <1>3, <1>4

\* Every step of the driver, the pump and the app server, seen through what the
\* rest of the system sees of the turn, is a step of the thread that module
\* Worker specifies, or no step at all.
THEOREM IsWorkerThreadHolds == Spec => IsWorkerThread
<1>1. BufferInv => DoneIsCompleted
  BY DEF BufferInv, DoneIsCompleted
<1>2. ControlInv /\ DoneIsCompleted /\ [Next]_vars
        => [Thread!WorkerStep(1)]_<<WorkerPc, status, tree, Escaped>>
  <2>1. CASE UNCHANGED vars
    BY <2>1 DEF vars, WorkerPc, Escaped, At
  <2>. QED
    BY <2>1, DriverIsThread, OtherIsThread DEF Next
<1>. QED
  BY <1>1, <1>2, BufferInvariant, PTL DEF Spec, IsWorkerThread

-----------------------------------------------------------------------------
(* No wakeup is lost: what the liveness of a turn rests on.                *)

Holds(s, K) == \E i \in 1 .. Len(s) : s[i].kind \in K

\* The driver may still poll.
Listening == driver.pc \notin {"close", "record", "return", "guard", "dead"}

\* The end of stdout and the end of the turn, once told, are on their way to
\* the driver until it stops listening.
WakeInv ==
  /\ pump = "off" => driver.pc \in {"begin", "spawn", "guard", "dead"}
  /\ pump = "ended" /\ Listening => Holds(batch, {"shutdown"}) \/ Holds(events, {"shutdown"})
  /\ server.turn \in OUTCOMES /\ Listening
       => Holds(batch, OUTCOMES) \/ Holds(events, OUTCOMES) \/ Holds(wire, OUTCOMES)

\* The app server waits for a reply, in its turn, exactly as long as its one
\* request is on the wire, the pump is at it, or the pump died of it.
ReplyInv ==
  /\ server.waits => server.turn = "running"
  /\ pump \in {"reply", "dead"} => server.waits
  /\ ~server.waits \/ pump \in {"reply", "dead"} => ~Holds(wire, {"request"})
  /\ \A i, j \in 1 .. Len(wire) : wire[i].kind = "request" /\ wire[j].kind = "request" => i = j

\* A driver that polls and finds nothing is not left waiting for news that
\* nobody will bring: of a turn that has ended it is still on the wire, and the
\* end of the process the pump has yet to tell, unless it has died.
WakeupNotLost ==
  At("poll") /\ Filtered(events, Mine) = <<>> =>
    /\ server.turn \in OUTCOMES => pump = "read" /\ wire # <<>>
    /\ server.proc = "down" => pump \in {"read", "reply", "dead"}

\* A kind of messages that are all in the set is kept, too.
LEMMA KindKept ==
  ASSUME NEW M, NEW S, NEW K
  PROVE  \A s \in Seq(M) :
           Holds(s, K) /\ (\A m \in M : m.kind \in K => m \in S) => Holds(Filtered(s, S), K)
<1>. DEFINE Sub == \A m \in M : m.kind \in K => m \in S
            P(s) == Holds(s, K) /\ Sub => Holds(Filtered(s, S), K)
            G == {s \in Seq(M) : P(s)}
<1>1. <<>> \in G
  BY DEF Holds
<1>2. ASSUME NEW s \in G, NEW e \in M PROVE Append(s, e) \in G
  <2>1. s \in Seq(M) /\ Append(s, e) \in Seq(M) /\ P(s)
    OBVIOUS
  <2>2. PICK t \in Seq(M) : t = Filtered(s, S)
    BY <2>1, FilteredType
  <2>3. Filtered(Append(s, e), S) = IF e \in S THEN Append(t, e) ELSE t
    BY <2>1, <2>2, FilteredAppend
  <2>4. Holds(Append(s, e), K) => e.kind \in K \/ Holds(s, K)
    BY <2>1 DEF Holds
  <2>5. (e.kind \in K \/ Holds(t, K)) => Holds(Append(t, e), K)
    <3>1. /\ Len(Append(t, e)) = Len(t) + 1 /\ Len(t) \in Nat
          /\ \A j \in 1 .. Len(t) : Append(t, e)[j] = t[j]
          /\ Append(t, e)[Len(t) + 1] = e
      OBVIOUS
    <3>. QED
      BY <3>1 DEF Holds
  <2>6. Holds(s, K) /\ Sub => Holds(t, K)
    BY <2>1, <2>2
  <2>7. Sub /\ e.kind \in K => e \in S
    OBVIOUS
  <2>8. P(Append(s, e))
    <3>. HIDE DEF Sub
    <3>. QED
      BY <2>3, <2>4, <2>5, <2>6, <2>7
  <2>. QED
    BY <2>1, <2>8
<1>3. \A s \in Seq(M) : s \in G
  <2>. HIDE DEF G
  <2>1. G \in SUBSET Seq(M)
    BY DEF G
  <2>. QED
    BY <1>1, <1>2, <2>1, SequenceInduction
<1>. QED
  BY <1>3

\* A kind of messages is where it was after a message of another is taken from
\* the head, and after one is added at the end.
LEMMA HoldsTail ==
  ASSUME NEW s \in Seq(Message), s # <<>>, NEW K
  PROVE  /\ Holds(s, K) => Head(s).kind \in K \/ Holds(Tail(s), K)
         /\ Holds(Tail(s), K) => Holds(s, K)
<1>1. /\ Len(Tail(s)) = Len(s) - 1 /\ Len(s) \in Nat \ {0} /\ Head(s) = s[1]
      /\ \A i \in 1 .. Len(Tail(s)) : Tail(s)[i] = s[i + 1]
  OBVIOUS
<1>2. \A i \in 1 .. Len(s) : i = 1 \/ (i - 1 \in 1 .. Len(Tail(s)) /\ Tail(s)[i - 1] = s[i])
  BY <1>1
<1>3. \A i \in 1 .. Len(Tail(s)) : i + 1 \in 1 .. Len(s)
  BY <1>1
<1>. QED
  BY <1>1, <1>2, <1>3 DEF Holds

LEMMA HoldsAppend ==
  ASSUME NEW s \in Seq(Message), NEW m \in Message, NEW K
  PROVE  Holds(Append(s, m), K) <=> Holds(s, K) \/ m.kind \in K
<1>1. /\ Len(Append(s, m)) = Len(s) + 1 /\ Len(s) \in Nat
      /\ \A j \in 1 .. Len(s) : Append(s, m)[j] = s[j]
      /\ Append(s, m)[Len(s) + 1] = m
  OBVIOUS
<1>2. \A j \in 1 .. Len(Append(s, m)) : j \in 1 .. Len(s) \/ j = Len(s) + 1
  BY <1>1
<1>3. Len(s) + 1 \in 1 .. Len(Append(s, m)) /\ \A j \in 1 .. Len(s) : j \in 1 .. Len(Append(s, m))
  BY <1>1
<1>. QED
  BY <1>1, <1>2, <1>3 DEF Holds

\* What the app server writes at the end of the wire leaves what is there.
LEMMA WriteHolds ==
  ASSUME BufferTypeOK, NEW kind \in EVENTS, NEW n \in Nat, Write(Event(kind, n))
  PROVE  /\ \A K : Holds(wire', K) <=> Holds(wire, K) \/ kind \in K
         /\ ~Holds(wire, {"request"}) =>
              \A i, j \in 1 .. Len(wire') :
                wire'[i].kind = "request" /\ wire'[j].kind = "request" => i = j
         /\ kind # "request" =>
              \A i \in 1 .. Len(wire') :
                wire'[i].kind = "request" => i \in 1 .. Len(wire) /\ wire'[i] = wire[i]
<1>1. PICK m \in Message : m = Event(kind, n) /\ m.kind = kind
  BY MessageTypes DEF Event
<1>2. wire' = Append(wire, m) /\ wire \in Seq(Message)
  BY <1>1 DEF Write, BufferTypeOK
<1>3. \A K : Holds(wire', K) <=> Holds(wire, K) \/ kind \in K
  BY <1>1, <1>2, HoldsAppend
<1>4. /\ Len(wire') = Len(wire) + 1 /\ Len(wire) \in Nat
      /\ \A i \in 1 .. Len(wire) : wire'[i] = wire[i]
      /\ wire'[Len(wire) + 1] = m
  BY <1>2
<1>5. \A i \in 1 .. Len(wire') : i \in 1 .. Len(wire) \/ i = Len(wire) + 1
  BY <1>4
<1>. QED
  BY <1>1, <1>3, <1>4, <1>5 DEF Holds

\* Every step keeps track of the one request that waits for a reply.
LEMMA ReplyStep ==
  ASSUME TypeOK, ReplyInv, Next
  PROVE  ReplyInv'
<1>. USE DEF TypeOK, ControlTypeOK, Server
<1>1. CASE DriverStep
  <2>1. /\ UNCHANGED <<wire, server.waits, server.turn>>
        /\ UNCHANGED pump \/ pump' = "read"
    BY <1>1 DEF DriverStep, Begin, Spawn, SpawnFails, Ask, WaitAnswered, WaitTimesOut, Note,
         Poll, HandledAll, HandleNoted, HandleFinal, Close, Record, Return, Guard, clientVars
  <2>. QED
    BY <2>1 DEF ReplyInv, Holds
<1>2. CASE PumpReads
  <2>1. /\ pump = "read" /\ wire # <<>> /\ wire' = Tail(wire) /\ UNCHANGED server
        /\ pump' = IF Head(wire).kind = "request" THEN "reply" ELSE "read"
    BY <1>2 DEF PumpReads
  <2>2. /\ Len(wire') = Len(wire) - 1 /\ Len(wire) \in Nat \ {0} /\ Head(wire) = wire[1]
        /\ \A i \in 1 .. Len(wire') : i + 1 \in 1 .. Len(wire) /\ wire'[i] = wire[i + 1]
    BY <2>1 DEF BufferTypeOK
  <2>3. Head(wire).kind = "request" => server.waits /\ ~Holds(wire', {"request"})
    BY <2>1, <2>2 DEF ReplyInv, Holds
  <2>4. Holds(wire', {"request"}) => Holds(wire, {"request"})
    BY <2>2 DEF Holds
  <2>5. \A i, j \in 1 .. Len(wire') :
          wire'[i].kind = "request" /\ wire'[j].kind = "request" => i = j
    <3>1. \A i, j \in 1 .. Len(wire') :
            wire'[i].kind = "request" /\ wire'[j].kind = "request" => i + 1 = j + 1
      <4>. SUFFICES ASSUME NEW i \in 1 .. Len(wire'), NEW j \in 1 .. Len(wire'),
                           wire'[i].kind = "request", wire'[j].kind = "request"
                    PROVE  i + 1 = j + 1
        OBVIOUS
      <4>1. /\ i + 1 \in 1 .. Len(wire) /\ wire[i + 1].kind = "request"
            /\ j + 1 \in 1 .. Len(wire) /\ wire[j + 1].kind = "request"
        BY <2>2
      <4>. QED
        BY <4>1, Zenon DEF ReplyInv
    <3>. QED
      BY <3>1
  <2>. QED
    BY <2>1, <2>3, <2>4, <2>5 DEF ReplyInv
<1>3. CASE PumpReplies \/ PumpEnds
  <2>1. UNCHANGED wire
    BY <1>3 DEF PumpReplies, PumpEnds
  <2>. QED
    BY <1>3, <2>1 DEF ReplyInv, PumpReplies, PumpEnds, Holds
<1>4. CASE ServerBeginsTurn \/ ServerEdits \/ ServerDies
  BY <1>4 DEF ServerBeginsTurn, ServerEdits, ServerDies, ReplyInv, Holds
<1>5. CASE ServerAnswers
  <2>1. PICK kind \in {"ok", "refused"} : Write([kind |-> kind, req |-> server.asked, n |-> 0])
    BY <1>5 DEF ServerAnswers
  <2>2. PICK m \in Message : m.kind = kind /\ wire' = Append(wire, m)
    <3>1. server.asked \in REQUESTS
      BY <1>5 DEF ServerAnswers
    <3>. QED
      BY <2>1, <3>1, MessageTypes DEF Write
  <2>3. /\ Len(wire') = Len(wire) + 1 /\ Len(wire) \in Nat
        /\ \A i \in 1 .. Len(wire) : wire'[i] = wire[i]
        /\ wire'[Len(wire) + 1] = m
    BY <2>2 DEF BufferTypeOK
  <2>4. \A i \in 1 .. Len(wire') :
          wire'[i].kind = "request" => i \in 1 .. Len(wire) /\ wire[i].kind = "request"
    BY <2>2, <2>3
  <2>5. UNCHANGED <<pump, server.waits, server.turn>>
    BY <1>5 DEF ServerAnswers
  <2>. QED
    BY <2>4, <2>5 DEF ReplyInv, Holds
<1>6. CASE ServerNotifies \/ ServerEndsTurn
  <2>1. server.sent + 1 \in Nat
    OBVIOUS
  <2>2. PICK kind \in EVENTS, n \in Nat : Write(Event(kind, n)) /\ kind # "request"
    BY <1>6, <2>1 DEF ServerNotifies, ServerEndsTurn, EVENTS, NOTIFICATIONS, OUTCOMES
  <2>3. /\ Holds(wire', {"request"}) <=> Holds(wire, {"request"})
        /\ \A i \in 1 .. Len(wire') :
             wire'[i].kind = "request" => i \in 1 .. Len(wire) /\ wire'[i] = wire[i]
    BY <2>2, WriteHolds
  <2>4. /\ UNCHANGED <<pump, server.waits>>
        /\ server'.turn = server.turn \/ ~server.waits
    BY <1>6 DEF ServerNotifies, ServerEndsTurn
  <2>. QED
    BY <2>3, <2>4 DEF ReplyInv
<1>7. CASE ServerRequests
  <2>1. server.sent + 1 \in Nat /\ "request" \in EVENTS
    BY DEF EVENTS
  <2>2. Write(Event("request", server.sent + 1))
    BY <1>7 DEF ServerRequests
  <2>3. /\ ~server.waits /\ server'.waits /\ server'.turn = "running" /\ UNCHANGED pump
    BY <1>7 DEF ServerRequests
  <2>4. ~Holds(wire, {"request"}) /\ pump \notin {"reply", "dead"}
    BY <2>3 DEF ReplyInv
  <2>5. \A i, j \in 1 .. Len(wire') :
          wire'[i].kind = "request" /\ wire'[j].kind = "request" => i = j
    BY <2>1, <2>2, <2>4, WriteHolds
  <2>. QED
    BY <2>3, <2>4, <2>5 DEF ReplyInv
<1>. QED
  BY <1>1, <1>2, <1>3, <1>4, <1>5, <1>6, <1>7 DEF Next, PumpStep, ServerStep

\* A step of the driver loses neither end before it has stopped listening.
LEMMA DriverWakeStep ==
  ASSUME TypeOK, BufferInv, WakeInv, DriverStep
  PROVE  WakeInv'
<1>. USE DEF TypeOK, ControlTypeOK, Driver, Server, At, Goto
<1>1. UNCHANGED <<wire, server.turn>>
  BY DEF DriverStep, Begin, Spawn, SpawnFails, Ask, WaitAnswered, WaitTimesOut, Note,
       Poll, HandledAll, HandleNoted, HandleFinal, Close, Record, Return, Guard, clientVars
<1>2. pump' = "off" => driver'.pc \in {"begin", "spawn", "guard", "dead"}
  <2>1. UNCHANGED pump \/ pump' = "read"
    BY DEF DriverStep, Begin, Spawn, SpawnFails, Ask, WaitAnswered, WaitTimesOut, Note,
       Poll, HandledAll, HandleNoted, HandleFinal, Close, Record, Return, Guard, clientVars
  <2>2. CASE Begin \/ SpawnFails \/ Guard
    BY <2>1, <2>2 DEF WakeInv, Begin, SpawnFails, Guard
  <2>3. CASE pump' # "off"
    BY <2>3
  <2>4. pump # "off" => pump' # "off"
    BY <2>1
  <2>5. pump = "off" => Begin \/ Spawn \/ SpawnFails \/ Guard
    BY DEF WakeInv, DriverStep, Ask, WaitAnswered, WaitTimesOut, Note, Poll, HandledAll,
           HandleNoted, HandleFinal, Close, Record, Return
  <2>6. Spawn => pump' = "read"
    BY DEF Spawn
  <2>. QED
    BY <2>2, <2>3, <2>4, <2>5, <2>6
<1>3. ASSUME NEW K, K = {"shutdown"} \/ K = OUTCOMES, Listening, Listening',
             Holds(batch, K) \/ Holds(events, K)
      PROVE  Holds(batch', K) \/ Holds(events', K)
  <2>1. CASE Poll
    <3>1. batch' = Filtered(events, Mine)
      BY <2>1 DEF Poll
    <3>2. \A m \in Message : m.kind \in K => m \in Mine
      BY <1>3 DEF Mine, OUTCOMES
    <3>3. Holds(events, K) => Holds(batch', K)
      BY <3>1, <3>2, KindKept DEF BufferTypeOK
    <3>4. ~Holds(batch, K)
      BY <2>1 DEF Poll, BufferInv, Holds
    <3>. QED
      BY <1>3, <3>3, <3>4
  <2>2. CASE HandleNoted
    <3>1. /\ batch # <<>> /\ batch' = Tail(batch) /\ UNCHANGED events
          /\ Head(batch).kind \notin K
      BY <1>3, <2>2 DEF HandleNoted, OUTCOMES
    <3>2. Holds(batch, K) => Holds(batch', K)
      BY <3>1, HoldsTail DEF BufferTypeOK
    <3>. QED
      BY <1>3, <3>1, <3>2
  <2>3. CASE HandleFinal
    <3>1. At("handle") /\ (Leaves("return") \/ Leaves("dberror"))
      BY <2>3 DEF HandleFinal
    <3>2. driver'.pc = "close"
      BY <3>1 DEF Leaves, InBlock
    <3>. QED
      BY <1>3, <3>2 DEF Listening
  <2>4. CASE UNCHANGED <<batch, events>>
    BY <1>3, <2>4
  <2>. QED
    BY <2>1, <2>2, <2>3, <2>4
       DEF DriverStep, Begin, Spawn, SpawnFails, Ask, WaitAnswered, WaitTimesOut, Note,
           HandledAll, Close, Record, Return, Guard, clientVars
<1>4. Listening' => Listening
  BY DEF Listening, DriverStep, Begin, Spawn, SpawnFails, Ask, WaitAnswered, WaitTimesOut, Note,
       Poll, HandledAll, HandleNoted, HandleFinal, Close, Record, Return, Guard, AfterBlock
<1>5. pump' = "ended" => pump = "ended"
  BY DEF DriverStep, Begin, Spawn, SpawnFails, Ask, WaitAnswered, WaitTimesOut, Note,
       Poll, HandledAll, HandleNoted, HandleFinal, Close, Record, Return, Guard, clientVars
<1>6. pump' = "ended" /\ Listening' => Holds(batch', {"shutdown"}) \/ Holds(events', {"shutdown"})
  BY <1>3, <1>4, <1>5 DEF WakeInv
<1>7. server'.turn \in OUTCOMES /\ Listening'
        => Holds(batch', OUTCOMES) \/ Holds(events', OUTCOMES) \/ Holds(wire', OUTCOMES)
  <2>1. CASE Holds(wire, OUTCOMES)
    BY <1>1, <2>1
  <2>2. CASE ~Holds(wire, OUTCOMES)
    BY <1>1, <1>3, <1>4, <2>2 DEF WakeInv
  <2>. QED
    BY <2>1, <2>2
<1>. QED
  BY <1>2, <1>6, <1>7 DEF WakeInv

\* Nor does a step of the pump or of the app server.
LEMMA OtherWakeStep ==
  ASSUME TypeOK, WakeInv, PumpStep \/ ServerStep
  PROVE  WakeInv'
<1>. USE DEF TypeOK, ControlTypeOK, Server
<1>1. UNCHANGED <<driver, batch>> /\ (Listening' <=> Listening)
  BY DEF PumpStep, PumpReads, PumpReplies, PumpEnds, ServerStep, ServerBeginsTurn,
       ServerAnswers, ServerNotifies, ServerRequests, ServerEndsTurn, ServerEdits, ServerDies,
       clientVars, Listening
<1>2. pump' = "off" <=> pump = "off"
  BY DEF PumpStep, PumpReads, PumpReplies, PumpEnds, ServerStep, ServerBeginsTurn,
       ServerAnswers, ServerNotifies, ServerRequests, ServerEndsTurn, ServerEdits, ServerDies
<1>3. pump' = "ended" => pump = "ended" \/ Holds(events', {"shutdown"})
  <2>1. CASE PumpEnds
    <3>1. PICK m \in Message : m = Event("shutdown", 0) /\ m.kind = "shutdown"
      <4>1. Event("shutdown", 0) \in Message
        BY MessageTypes DEF EVENTS
      <4>. QED
        BY <4>1 DEF Event
    <3>2. events' = Append(events, m)
      BY <2>1, <3>1 DEF PumpEnds
    <3>. QED
      BY <3>1, <3>2, HoldsAppend DEF BufferTypeOK
  <2>. QED
    BY <2>1 DEF PumpStep, PumpReads, PumpReplies, ServerStep, ServerBeginsTurn,
       ServerAnswers, ServerNotifies, ServerRequests, ServerEndsTurn, ServerEdits, ServerDies
<1>4. UNCHANGED events \/ \E m \in Message : events' = Append(events, m)
  <2>1. wire # <<>> => Head(wire) \in Message
    BY DEF BufferTypeOK
  <2>2. Event("shutdown", 0) \in Message
    BY MessageTypes DEF EVENTS
  <2>. QED
    BY <2>1, <2>2 DEF PumpStep, PumpReads, PumpReplies, PumpEnds, ServerStep, ServerBeginsTurn,
       ServerAnswers, ServerNotifies, ServerRequests, ServerEndsTurn, ServerEdits, ServerDies,
       clientVars
<1>5. \A K : Holds(events, K) => Holds(events', K)
  <2>1. ASSUME NEW m \in Message, events' = Append(events, m)
        PROVE  \A K : Holds(events, K) => Holds(events', K)
    BY <2>1, HoldsAppend DEF BufferTypeOK
  <2>2. UNCHANGED events => \A K : Holds(events, K) => Holds(events', K)
    BY DEF Holds
  <2>. QED
    BY <1>4, <2>1, <2>2
<1>6. server'.turn \in OUTCOMES =>
        \/ Holds(wire', OUTCOMES)
        \/ server.turn \in OUTCOMES /\ (Holds(wire, OUTCOMES) => Holds(events', OUTCOMES))
  <2>1. CASE PumpReads
    <3>1. /\ wire # <<>> /\ wire' = Tail(wire) /\ UNCHANGED server
          /\ Head(wire).kind \in OUTCOMES => events' = Append(events, Head(wire))
      BY <2>1 DEF PumpReads, IsResponse, OUTCOMES
    <3>2. Head(wire) \in Message
      BY <3>1 DEF BufferTypeOK
    <3>3. Holds(wire, OUTCOMES) => Head(wire).kind \in OUTCOMES \/ Holds(wire', OUTCOMES)
      BY <3>1, HoldsTail DEF BufferTypeOK
    <3>4. Head(wire).kind \in OUTCOMES => Holds(events', OUTCOMES)
      <4>1. PICK m \in Message : m = Head(wire)
        BY <3>2
      <4>2. Holds(Append(events, m), OUTCOMES) <=> Holds(events, OUTCOMES) \/ m.kind \in OUTCOMES
        BY HoldsAppend, Zenon DEF BufferTypeOK
      <4>. QED
        BY <3>1, <4>1, <4>2, Zenon
    <3>. QED
      BY <3>1, <3>3, <3>4
  <2>2. CASE PumpReplies \/ PumpEnds \/ ServerBeginsTurn \/ ServerEdits \/ ServerDies
    BY <2>2 DEF PumpReplies, PumpEnds, ServerBeginsTurn, ServerEdits, ServerDies, OUTCOMES, Holds
  <2>3. CASE ServerAnswers
    <3>1. PICK kind \in {"ok", "refused"} : Write([kind |-> kind, req |-> server.asked, n |-> 0])
      BY <2>3 DEF ServerAnswers
    <3>2. server.asked \in REQUESTS
      BY <2>3 DEF ServerAnswers
    <3>3. PICK m \in Message : wire' = Append(wire, m)
      BY <3>1, <3>2, MessageTypes DEF Write
    <3>4. Holds(wire, OUTCOMES) => Holds(wire', OUTCOMES)
      BY <3>3, HoldsAppend DEF BufferTypeOK
    <3>5. server'.turn = server.turn
      BY <2>3 DEF ServerAnswers
    <3>. QED
      BY <3>4, <3>5
  <2>4. CASE ServerNotifies \/ ServerRequests
    <3>1. server.sent + 1 \in Nat
      OBVIOUS
    <3>2. server'.turn \notin OUTCOMES
      BY <2>4 DEF ServerNotifies, ServerRequests, OUTCOMES
    <3>. QED
      BY <3>2
  <2>5. CASE ServerEndsTurn
    <3>1. server.sent + 1 \in Nat
      OBVIOUS
    <3>2. PICK outcome \in OUTCOMES : Write(Event(outcome, server.sent + 1))
      BY <2>5 DEF ServerEndsTurn
    <3>3. outcome \in EVENTS
      BY DEF EVENTS
    <3>4. Holds(wire', OUTCOMES)
      BY <3>1, <3>2, <3>3, WriteHolds
    <3>. QED
      BY <3>4
  <2>. QED
    BY <2>1, <2>2, <2>3, <2>4, <2>5 DEF PumpStep, ServerStep
<1>7. pump' = "ended" /\ Listening' => Holds(batch', {"shutdown"}) \/ Holds(events', {"shutdown"})
  BY <1>1, <1>3, <1>5 DEF WakeInv
<1>8. server'.turn \in OUTCOMES /\ Listening'
        => Holds(batch', OUTCOMES) \/ Holds(events', OUTCOMES) \/ Holds(wire', OUTCOMES)
  BY <1>1, <1>5, <1>6 DEF WakeInv
<1>. QED
  BY <1>1, <1>2, <1>7, <1>8 DEF WakeInv

\* Whatever the driver waits for is on its way or still to be told, unless the
\* pump has died of a reply that it could not write.  Rests on the request's
\* place (ReplyInv): a pump that dies of a reply leaves a turn that has not
\* ended, so that the end of a turn always has a pump to bring it.
THEOREM WakeupNotLostHolds == Spec => []WakeupNotLost
<1>1. Init => WakeInv /\ ReplyInv
  <2>1. Init => ~Holds(wire, {"request"}) /\ Len(wire) = 0
    BY DEF Init, Holds
  <2>. QED
    BY <2>1 DEF Init, WakeInv, ReplyInv, OUTCOMES
<1>2. TypeOK /\ BufferInv /\ WakeInv /\ ReplyInv /\ [Next]_vars => (WakeInv /\ ReplyInv)'
  <2>1. CASE UNCHANGED vars
    BY <2>1 DEF vars, clientVars, WakeInv, ReplyInv, Holds, Listening
  <2>2. CASE Next
    BY <2>2, ReplyStep, DriverWakeStep, OtherWakeStep DEF Next
  <2>. QED
    BY <2>1, <2>2
<1>3. TypeOK /\ BufferInv /\ WakeInv /\ ReplyInv => WakeupNotLost
  <2>1. SUFFICES ASSUME TypeOK, BufferInv, WakeInv, ReplyInv, At("poll"),
                        Filtered(events, Mine) = <<>>
                 PROVE  /\ server.turn \in OUTCOMES => pump = "read" /\ wire # <<>>
                        /\ server.proc = "down" => pump \in {"read", "reply", "dead"}
    BY DEF WakeupNotLost
  <2>2. batch = <<>> /\ Listening
    BY <2>1 DEF BufferInv, Listening, At
  <2>3. \A K : ~Holds(batch, K)
    BY <2>2 DEF Holds
  <2>4. ASSUME NEW K, K = {"shutdown"} \/ K = OUTCOMES
        PROVE  ~Holds(events, K)
    <3>1. \A m \in Message : m.kind \in K => m \in Mine
      BY <2>4 DEF Mine, OUTCOMES
    <3>2. Holds(events, K) => Holds(Filtered(events, Mine), K)
      BY <2>1, <3>1, KindKept DEF TypeOK, BufferTypeOK
    <3>. QED
      BY <2>1, <3>2 DEF Holds
  <2>5. pump # "ended" /\ pump # "off"
    BY <2>1, <2>2, <2>3, <2>4 DEF WakeInv, At
  <2>6. server.turn \in OUTCOMES => Holds(wire, OUTCOMES)
    BY <2>1, <2>2, <2>3, <2>4 DEF WakeInv
  <2>7. Holds(wire, OUTCOMES) => wire # <<>>
    BY DEF Holds
  <2>8. server.turn \in OUTCOMES => pump \notin {"reply", "dead"}
    BY <2>1 DEF ReplyInv, OUTCOMES
  <2>. QED
    BY <2>1, <2>5, <2>6, <2>7, <2>8 DEF TypeOK, ControlTypeOK
<1>. QED
  BY <1>1, <1>2, <1>3, BufferInvariant, TypeCorrect, PTL DEF Spec
=============================================================================
