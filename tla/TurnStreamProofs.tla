-------------------------- MODULE TurnStreamProofs --------------------------
(***************************************************************************)
(* Proofs about TurnStream, for any number of deltas, drafts and           *)
(* providers: its invariant is inductive, and the safety properties        *)
(* follow.  What the steps do to the queue, the getter and the preview is  *)
(* said by lemmas about sequences of deltas; each action is then a lemma.  *)
(***************************************************************************)
EXTENDS TurnStream, SequenceTheorems, TLAPS

-----------------------------------------------------------------------------
(* Sequences of deltas. *)

LEMMA Tailed ==
  ASSUME NEW s \in Seq(Delta), s # <<>>
  PROVE  /\ Head(s) \in Delta /\ Head(s) = s[1] /\ Tail(s) \in Seq(Delta)
         /\ Len(s) \in Nat /\ Len(s) > 0 /\ Len(Tail(s)) = Len(s) - 1
         /\ \A i \in 1..Len(s) - 1 : Tail(s)[i] = s[i + 1]
  <1>1. Head(s) = s[1]
    OBVIOUS
  <1> QED
    BY <1>1, HeadTailProperties, EmptySeq, LenProperties

LEMMA Joined ==
  ASSUME NEW s \in Seq(Delta), NEW t \in Seq(Delta)
  PROVE  /\ s \o t \in Seq(Delta) /\ Len(s) \in Nat /\ Len(t) \in Nat
         /\ Len(s \o t) = Len(s) + Len(t)
         /\ \A i \in 1..Len(s) : (s \o t)[i] = s[i]
         /\ \A i \in 1..Len(t) : (s \o t)[Len(s) + i] = t[i]
  <1>1. Len(s) \in Nat /\ Len(t) \in Nat
    BY LenProperties
  <1> QED
    BY <1>1, ConcatProperties

LEMMA Regrouped ==
  ASSUME NEW s \in Seq(Delta), NEW t \in Seq(Delta), NEW u \in Seq(Delta)
  PROVE  (s \o t) \o u = s \o (t \o u)
  <1> DEFINE S == Delta
  <1>1. s \in Seq(S) /\ t \in Seq(S) /\ u \in Seq(S)
    OBVIOUS
  <1> HIDE DEF S
  <1> QED
    BY <1>1, ConcatAssociative

LEMMA Pushed ==
  ASSUME NEW S, NEW s \in Seq(S), NEW d \in S
  PROVE  /\ Append(s, d) \in Seq(S) /\ Len(s) \in Nat
         /\ Len(Append(s, d)) = Len(s) + 1
         /\ \A i \in 1..Len(s) : Append(s, d)[i] = s[i]
         /\ Append(s, d)[Len(s) + 1] = d
  BY AppendProperties, LenProperties

LEMMA One ==
  ASSUME NEW d \in Delta
  PROVE  <<d>> \in Seq(Delta) /\ Len(<<d>>) = 1 /\ <<d>>[1] = d /\ <<d>> # <<>>
  OBVIOUS

LEMMA Taken ==
  ASSUME NEW s \in Seq(Delta), s # <<>>
  PROVE  <<Head(s)>> \o Tail(s) = s
  <1> DEFINE u == <<Head(s)>> \o Tail(s)
  <1>1. u \in Seq(Delta) /\ Len(u) = Len(s)
    BY Tailed, One, Joined
  <1>2. \A i \in 1..Len(s) : u[i] = s[i]
    <2> TAKE i \in 1..Len(s)
    <2>1. CASE i = 1
      BY <2>1, Tailed, One, Joined
    <2>2. CASE i # 1
      <3>1. i - 1 \in 1..Len(Tail(s)) /\ i = Len(<<Head(s)>>) + (i - 1)
        BY <2>2, Tailed, One
      <3> QED
        BY <3>1, Tailed, One, Joined
    <2> QED
      BY <2>1, <2>2
  <1> HIDE DEF u
  <1> QED
    BY <1>1, <1>2, SeqEqual DEF u

LEMMA Numbering ==
  ASSUME TypeOK, NEW ds \in Seq(Delta)
  PROVE  /\ Numbered(ds) \in Seq(Delta) /\ Len(Numbered(ds)) = Len(ds) /\ Len(ds) \in Nat
         /\ \A i \in 1..Len(ds) :
              /\ Numbered(ds)[i].n = bridge.emitted + i
              /\ Numbered(ds)[i].kind = ds[i].kind /\ Numbered(ds)[i].draft = ds[i].draft
              /\ Numbered(ds)[i].part = ds[i].part /\ Numbered(ds)[i].replace = ds[i].replace
  <1>1. /\ Len(ds) \in Nat /\ DOMAIN ds = 1..Len(ds)
        /\ \A i \in 1..Len(ds) : ds[i] \in Delta
    BY LenProperties, ElementOfSeq
  <1>2. bridge.emitted \in Nat
    BY DEF TypeOK
  <1>3. \A i \in 1..Len(ds) : [ds[i] EXCEPT !.n = bridge.emitted + i] \in Delta
    <2> SUFFICES ASSUME NEW i \in 1..Len(ds)
                 PROVE  [ds[i] EXCEPT !.n = bridge.emitted + i] \in Delta
      OBVIOUS
    <2>1. ds[i] \in Delta /\ bridge.emitted + i \in Nat
      BY <1>1, <1>2
    <2> QED
      BY <2>1 DEF Delta
  <1>4. Numbered(ds) \in [1..Len(ds) -> Delta]
    BY <1>1, <1>3 DEF Numbered
  <1>5. Numbered(ds) \in Seq(Delta)
    BY <1>1, <1>4, SeqDef
  <1>6. Len(Numbered(ds)) = Len(ds)
    BY <1>1, <1>4, <1>5, LenProperties
  <1> QED
    BY <1>1, <1>5, <1>6 DEF Numbered, Delta

-----------------------------------------------------------------------------
(* What continues the preview. *)

LEMMA SameStart ==
  ASSUME NEW s, NEW t, NEW shown, NEW d, NEW k \in Nat,
         \A i \in 1..k : s[i] = t[i],
         Continues(s, shown, d, k)
  PROVE  Continues(t, shown, d, k)
  BY DEF Continues

LEMMA Extended ==
  ASSUME NEW s \in Seq(Delta), NEW t \in Seq(Delta), NEW shown, Chained(s, shown),
         \A j \in 1..Len(t) : t[j].kind = "answer" =>
                              Continues(s \o t, shown, t[j], Len(s) + j - 1)
  PROVE  Chained(s \o t, shown)
  <1> SUFFICES ASSUME NEW j \in 1..Len(s \o t), (s \o t)[j].kind = "answer"
               PROVE  Continues(s \o t, shown, (s \o t)[j], j - 1)
    BY DEF Chained
  <1>1. CASE j \in 1..Len(s)
    <2>1. (s \o t)[j] = s[j] /\ j - 1 \in Nat /\ \A i \in 1..j - 1 : s[i] = (s \o t)[i]
      BY <1>1, Joined
    <2>2. Continues(s, shown, s[j], j - 1)
      BY <1>1, <2>1 DEF Chained
    <2> QED
      BY <2>1, <2>2, SameStart
  <1>2. CASE j \notin 1..Len(s)
    <2>1. j - Len(s) \in 1..Len(t) /\ j = Len(s) + (j - Len(s))
      BY <1>2, Joined
    <2>2. (s \o t)[j] = t[j - Len(s)]
      BY <2>1, Joined
    <2> QED
      BY <2>1, <2>2, Joined
  <1> QED
    BY <1>1, <1>2

(* The answer shown after d. *)
PartOf(d) == [draft |-> d.draft, part |-> d.part]
After(shown, d) == IF d.kind = "text" THEN shown
                   ELSE IF d.replace THEN <<PartOf(d)>> ELSE Append(shown, PartOf(d))

LEMMA ShownIs ==
  ASSUME TypeOK, NEW d \in Delta
  PROVE  /\ Shown(d) \in [answer : Seq(Part), text : Seq(Part), hasText : BOOLEAN]
         /\ Shown(d).answer = After(client.answer, d)
  <1>1. PartOf(d) \in Part
    BY DEF PartOf, Part, Delta
  <1>2. /\ client.answer \in Seq(Part) /\ client.text \in Seq(Part)
        /\ client.hasText \in BOOLEAN
        /\ client \in [answer : Seq(Part), text : Seq(Part), hasText : BOOLEAN]
    BY DEF TypeOK
  <1>3. /\ Append(client.answer, PartOf(d)) \in Seq(Part)
        /\ Append(client.text, PartOf(d)) \in Seq(Part)
        /\ <<PartOf(d)>> \in Seq(Part) /\ <<>> \in Seq(Part)
    BY <1>1, <1>2
  <1> QED
    BY <1>2, <1>3 DEF Shown, After, PartOf

LEMMA FirstDelta ==
  ASSUME NEW s \in Seq(Delta), s # <<>>, NEW shown \in Seq(Part), Chained(s, shown),
         s[1].kind = "answer"
  PROVE  /\ s[1].replace => s[1].part = 1
         /\ ~s[1].replace => /\ s[1].part = Len(shown) + 1
                             /\ shown # <<>> => s[1].draft = shown[1].draft
  <1>1. 1 \in 1..Len(s)
    BY Tailed
  <1>2. Continues(s, shown, s[1], 0)
    BY <1>1 DEF Chained
  <1> QED
    BY <1>2 DEF Continues

LEMMA StillOneDraft ==
  ASSUME NEW s \in Seq(Delta), s # <<>>, NEW shown \in Seq(Part), Chained(s, shown),
         OneDraft(shown)
  PROVE  OneDraft(After(shown, s[1]))
  <1>1. s[1] \in Delta /\ PartOf(s[1]) \in Part
    BY Tailed DEF PartOf, Part, Delta
  <1>2. CASE s[1].kind = "text"
    BY <1>2 DEF After
  <1>3. CASE s[1].kind = "answer" /\ s[1].replace
    <2>1. s[1].part = 1
      BY <1>3, FirstDelta
    <2>2. After(shown, s[1]) = <<PartOf(s[1])>>
      BY <1>3 DEF After
    <2> QED
      BY <2>1, <2>2 DEF OneDraft, PartOf
  <1>4. CASE s[1].kind = "answer" /\ ~s[1].replace
    <2> DEFINE u == Append(shown, PartOf(s[1]))
    <2>1. u \in Seq(Part) /\ Len(u) = Len(shown) + 1 /\ Len(shown) \in Nat
          /\ u[Len(shown) + 1] = PartOf(s[1]) /\ \A i \in 1..Len(shown) : u[i] = shown[i]
      BY <1>1, Pushed
    <2>2. DOMAIN u = 1..Len(shown) + 1 /\ DOMAIN shown = 1..Len(shown)
      BY <2>1, LenProperties
    <2>3. u[1].draft = s[1].draft
      <3>1. CASE shown = <<>>
        BY <3>1, <2>1 DEF PartOf
      <3>2. CASE shown # <<>>
        <4>1. 1 \in 1..Len(shown)
          BY <3>2, EmptySeq
        <4> QED
          BY <3>2, <4>1, <2>1, <1>4, FirstDelta
      <3> QED
        BY <3>1, <3>2
    <2>4. \A i \in 1..Len(shown) : shown[i] = [draft |-> u[1].draft, part |-> i]
      <3> TAKE i \in 1..Len(shown)
      <3>1. 1 \in 1..Len(shown) /\ u[1] = shown[1]
        BY <2>1
      <3> QED
        BY <2>2, <3>1 DEF OneDraft
    <2>5. u[Len(shown) + 1] = [draft |-> u[1].draft, part |-> Len(shown) + 1]
      BY <2>1, <2>3, <1>4, FirstDelta DEF PartOf
    <2>6. After(shown, s[1]) = u
      BY <1>4 DEF After
    <2> HIDE DEF u
    <2>7. \A i \in 1..Len(shown) + 1 : u[i] = [draft |-> u[1].draft, part |-> i]
      <3> TAKE i \in 1..Len(shown) + 1
      <3>1. CASE i \in 1..Len(shown)
        <4>1. shown[i] = [draft |-> u[1].draft, part |-> i] /\ u[i] = shown[i]
          BY <2>1, <2>4, <3>1
        <4> QED
          BY <4>1
      <3>2. CASE i = Len(shown) + 1
        BY <2>5, <3>2
      <3> QED
        BY <2>1, <3>1, <3>2
    <2> QED
      BY <2>2, <2>6, <2>7 DEF OneDraft
  <1> QED
    BY <1>1, <1>2, <1>3, <1>4 DEF Delta

LEMMA Shifted ==
  ASSUME NEW s \in Seq(Delta), s # <<>>, NEW shown \in Seq(Part), Chained(s, shown),
         OneDraft(shown),
         NEW d, NEW k \in 1..Len(s), Continues(s, shown, d, k)
  PROVE  Continues(Tail(s), After(shown, s[1]), d, k - 1)
  <1>1. /\ \A i \in 1..k - 1 : Tail(s)[i] = s[i + 1]
        /\ \A i \in 2..k : i - 1 \in 1..k - 1 /\ Tail(s)[i - 1] = s[i]
        /\ k \in Nat /\ s[1] \in Delta
    BY Tailed
  <1>2. CASE d.replace
    BY <1>2 DEF Continues
  <1>3. CASE ~d.replace /\ \A i \in 1..k : s[i].kind # "answer"
    <2>1. s[1].kind = "text"
      BY <1>1, <1>3 DEF Delta
    <2>2. d.part = Len(shown) + 1 /\ (shown # <<>> => d.draft = shown[1].draft)
      BY <1>3 DEF Continues
    <2>3. \A i \in 1..k - 1 : Tail(s)[i].kind # "answer"
      BY <1>1, <1>3
    <2> QED
      BY <1>3, <2>1, <2>2, <2>3 DEF Continues, After
  <1>4. ASSUME ~d.replace,
               NEW i \in 1..k, s[i].kind = "answer", s[i].draft = d.draft, d.part = s[i].part + 1,
               \A h \in i + 1..k : s[h].kind # "answer"
        PROVE  Continues(Tail(s), After(shown, s[1]), d, k - 1)
    <2>1. CASE i # 1
      <3>1. i - 1 \in 1..k - 1 /\ Tail(s)[i - 1] = s[i]
        BY <1>1, <2>1
      <3>2. \A h \in (i - 1) + 1..k - 1 : Tail(s)[h].kind # "answer"
        <4> TAKE h \in (i - 1) + 1..k - 1
        <4>1. h \in 1..k - 1 /\ h + 1 \in i + 1..k
          BY <1>1, <3>1
        <4> QED
          BY <1>1, <1>4, <4>1
      <3> QED
        BY <1>4, <3>1, <3>2 DEF Continues
    <2>2. CASE i = 1
      <3>1. \A h \in 1..k - 1 : Tail(s)[h].kind # "answer"
        <4> TAKE h \in 1..k - 1
        <4>1. h + 1 \in i + 1..k
          BY <1>1, <2>2
        <4> QED
          BY <1>1, <1>4, <4>1
      <3>2. /\ After(shown, s[1]) # <<>>
            /\ Len(After(shown, s[1])) = s[1].part
            /\ After(shown, s[1])[1].draft = s[1].draft
        <4>1. PartOf(s[1]) \in Part
          BY <1>1 DEF PartOf, Part, Delta
        <4>2. CASE s[1].replace
          BY <1>4, <2>2, <4>2, FirstDelta DEF After, PartOf
        <4>3. CASE ~s[1].replace
          <5> DEFINE u == Append(shown, PartOf(s[1]))
          <5>1. /\ u = After(shown, s[1])
                /\ s[1].part = Len(shown) + 1 /\ (shown # <<>> => s[1].draft = shown[1].draft)
            BY <1>4, <2>2, <4>3, FirstDelta DEF After
          <5>2. /\ Len(u) = Len(shown) + 1 /\ u # <<>> /\ Len(shown) \in Nat
                /\ u[Len(shown) + 1] = PartOf(s[1]) /\ \A h \in 1..Len(shown) : u[h] = shown[h]
            BY <4>1, Pushed, AppendProperties
          <5>3. u[1].draft = s[1].draft
            <6>1. CASE shown = <<>>
              BY <6>1, <5>2 DEF PartOf
            <6>2. CASE shown # <<>>
              <7>1. 1 \in 1..Len(shown)
                BY <6>2, EmptySeq
              <7> QED
                BY <6>2, <7>1, <5>1, <5>2
            <6> QED
              BY <6>1, <6>2
          <5> QED
            BY <5>1, <5>2, <5>3
        <4> QED
          BY <4>2, <4>3
      <3> QED
        BY <1>4, <2>2, <3>1, <3>2 DEF Continues
    <2> QED
      BY <2>1, <2>2
  <1> QED
    BY <1>2, <1>3, <1>4 DEF Continues

LEMMA StillChained ==
  ASSUME NEW s \in Seq(Delta), s # <<>>, NEW shown \in Seq(Part), Chained(s, shown),
         OneDraft(shown)
  PROVE  Chained(Tail(s), After(shown, s[1]))
  <1> SUFFICES ASSUME NEW j \in 1..Len(Tail(s)), Tail(s)[j].kind = "answer"
               PROVE  Continues(Tail(s), After(shown, s[1]), Tail(s)[j], j - 1)
    BY DEF Chained
  <1>1. j \in Nat /\ j \in 1..Len(s) /\ j + 1 \in 1..Len(s) /\ Tail(s)[j] = s[j + 1]
    BY Tailed
  <1>2. Continues(s, shown, s[j + 1], (j + 1) - 1)
    BY <1>1 DEF Chained
  <1>3. Continues(s, shown, s[j + 1], j)
    BY <1>1, <1>2
  <1> QED
    BY <1>1, <1>3, Shifted

-----------------------------------------------------------------------------
(* The pipe in a state that satisfies the invariant. *)

LEMMA Facts ==
  ASSUME TypeOK
  PROVE  /\ bridge.queue \in Seq(Delta) /\ getter \in Seq(Delta) /\ got \in Seq(Nat)
         /\ Q \in Nat /\ bridge.emitted \in Nat /\ Len(got) \in Nat /\ Len(getter) \in Nat
         /\ getter # <<>> => getter = <<getter[1]>> /\ getter[1] \in Delta /\ getter[1].n \in Nat
         /\ Pipe \in Seq(Delta)
         /\ client.answer \in Seq(Part)
         /\ stream.token \in Nat /\ stream.draft \in Nat /\ turn.drafts \in Nat
  <1>1. /\ bridge.queue \in Seq(Delta) /\ getter \in Seq(Delta) /\ got \in Seq(Nat)
        /\ bridge.emitted \in Nat /\ Len(getter) <= 1 /\ client.answer \in Seq(Part)
        /\ stream.token \in Nat /\ stream.draft \in Nat /\ turn.drafts \in Nat
    BY DEF TypeOK
  <1>2. Q \in Nat /\ Len(got) \in Nat /\ Len(getter) \in Nat
    <2>1. Len(bridge.queue) \in Nat
      BY <1>1, LenProperties
    <2>2. Len(got) \in Nat
      BY <1>1, LenProperties
    <2>3. Len(getter) \in Nat
      BY <1>1, LenProperties
    <2>4. Q \in Nat
      BY <2>1 DEF Q
    <2> QED
      BY <2>2, <2>3, <2>4
  <1>3. ASSUME getter # <<>>
        PROVE  getter = <<getter[1]>> /\ getter[1] \in Delta /\ getter[1].n \in Nat
    <2>1. Len(getter) = 1
      <3>1. Len(getter) \in Nat \ {0}
        BY <1>1, <1>3, EmptySeq
      <3>2. Len(getter) <= 1
        BY <1>1
      <3>3. \A n \in Nat \ {0} : n <= 1 => n = 1
        OBVIOUS
      <3> QED
        BY <3>1, <3>2, <3>3, Zenon
    <2>2. getter[1] \in Delta
      BY <1>1, <2>1, ElementOfSeq
    <2>3. <<getter[1]>> \in Seq(Delta) /\ Len(<<getter[1]>>) = 1
      BY <2>2
    <2>4. getter = <<getter[1]>>
      BY <1>1, <2>1, <2>3, SeqEqual
    <2> QED
      BY <2>2, <2>4 DEF Delta
  <1>4. Pipe \in Seq(Delta)
    BY <1>1, Joined DEF Pipe
  <1> QED
    BY <1>1, <1>2, <1>3, <1>4

(* As long as nothing was emitted nothing is on its way. *)
LEMMA Fresh ==
  ASSUME IInv, mux.at \in {"wait", "hop", "delta", "drain", "draining"}, bridge.emitted = 0
  PROVE  Pipe = <<>> /\ client.answer = <<>>
  <1> USE DEF IInv
  <1>1. Q = 0 /\ (mux.at # "delta" => getter = <<>>)
    <2>1. CASE Prefix
      <3>1. Q = 0
        BY <2>1, Facts DEF Prefix
      <3>2. mux.at # "delta" /\ getter # <<>> => Skipping(getter[1].n)
        BY DEF Conveyed
      <3> QED
        BY <3>1, <3>2, Facts DEF Skipping
    <2>2. CASE ~Prefix
      <3>1. Skipping(getter[1].n)
        BY <2>2 DEF Conveyed
      <3> QED
        BY <3>1, Facts DEF Skipping
    <2> QED
      BY <2>1, <2>2
  <1> QED
    BY <1>1, Facts, EmptySeq, ConcatEmptySeq DEF Pipe, Q, Started

-----------------------------------------------------------------------------
(* Emissions. *)

LEMMA EmitKeeps ==
  ASSUME IInv, LoopFree, NEW ds \in Seq(Delta), Emit(ds), UNCHANGED <<getter, mux, got, client>>
  PROVE  /\ bridge' \in [queue : Seq(Delta), emitted : Nat, answered : BOOLEAN]
         /\ Suffix' /\ Conveyed' /\ LossBounded' /\ Started'
         /\ ~bridge'.answered => bridge'.emitted = 0
         /\ Pipe' = Pipe \o Numbered(ds)
         /\ bridge'.emitted = 0 => bridge.emitted = 0
  <1> USE DEF IInv
  <1> DEFINE t == Numbered(ds)
  <1>1. /\ t \in Seq(Delta) /\ Len(t) = Len(ds) /\ Len(ds) \in Nat
        /\ \A i \in 1..Len(ds) : t[i].n = bridge.emitted + i
    BY Numbering
  <1>2. bridge' = [queue |-> bridge.queue \o t, emitted |-> bridge.emitted + Len(ds),
                   answered |-> bridge.answered \/ ds # <<>>]
    BY DEF Emit
  <1> HIDE DEF t
  <1>3. /\ bridge'.queue = bridge.queue \o t /\ bridge'.emitted = bridge.emitted + Len(ds)
        /\ bridge'.answered = (bridge.answered \/ ds # <<>>)
    BY <1>2
  <1>4. /\ bridge.queue \o t \in Seq(Delta) /\ Q' = Q + Len(ds)
        /\ \A i \in 1..Q : (bridge.queue \o t)[i] = bridge.queue[i]
        /\ \A i \in 1..Len(ds) : (bridge.queue \o t)[Q + i] = t[i]
    <2>1. bridge.queue \in Seq(Delta)
      BY Facts
    <2>2. Q' = Len(bridge.queue \o t)
      BY <1>3 DEF Q
    <2>3. /\ bridge.queue \o t \in Seq(Delta)
          /\ Len(bridge.queue \o t) = Len(bridge.queue) + Len(t)
          /\ \A i \in 1..Len(bridge.queue) : (bridge.queue \o t)[i] = bridge.queue[i]
          /\ \A i \in 1..Len(t) : (bridge.queue \o t)[Len(bridge.queue) + i] = t[i]
      BY <1>1, <2>1, Joined
    <2> QED
      BY <1>1, <2>2, <2>3, Zenon DEF Q
  <1>5. bridge' \in [queue : Seq(Delta), emitted : Nat, answered : BOOLEAN]
    <2>1. bridge.answered \in BOOLEAN
      BY DEF TypeOK
    <2> QED
      BY <2>1, <1>1, <1>2, <1>4, Facts
  <1>6. Suffix'
    <2> SUFFICES ASSUME NEW i \in 1..Q'
                 PROVE  bridge'.queue[i].n = bridge'.emitted - Q' + i
      BY DEF Suffix
    <2>1. CASE i \in 1..Q
      <3>1. bridge.queue[i].n = bridge.emitted - Q + i
        BY <2>1 DEF Suffix
      <3>2. bridge'.queue[i] = bridge.queue[i]
        BY <2>1, <1>3, <1>4
      <3>3. bridge'.emitted - Q' + i = bridge.emitted - Q + i
        BY <1>1, <1>3, <1>4, Facts
      <3> QED
        BY <3>1, <3>2, <3>3
    <2>2. CASE i \notin 1..Q
      <3>1. i - Q \in 1..Len(ds) /\ Q + (i - Q) = i
        BY <2>2, <1>1, <1>4, Facts
      <3>2. (bridge.queue \o t)[Q + (i - Q)] = t[i - Q] /\ t[i - Q].n = bridge.emitted + (i - Q)
        BY <3>1, <1>1, <1>4
      <3>3. bridge'.queue[i] = t[i - Q]
        BY <3>1, <3>2, <1>3
      <3>4. bridge'.emitted - Q' + i = bridge.emitted + (i - Q)
        BY <1>1, <1>3, <1>4, Facts
      <3> QED
        BY <3>2, <3>3, <3>4
    <2> QED
      BY <2>1, <2>2
  <1>7. bridge'.emitted - Q' = bridge.emitted - Q
    BY <1>1, <1>3, <1>4, Facts
  <1>8. Prefix => Prefix'
    BY <1>1, <1>3, <1>4, Facts DEF Prefix, Lossless
  <1>9. ASSUME NEW g, Skipping(g)
        PROVE  Skipping(g)'
    <2>1. bridge'.emitted = Len(got) + 1 + Q'
      BY <1>1, <1>3, <1>4, <1>9, Facts DEF Skipping
    <2> QED
      BY <2>1, <1>7, <1>9 DEF Skipping
  <1>10. Conveyed'
    <2>1. Emissions \subseteq Emissions'
      BY <1>1, <1>3, Facts DEF Emissions
    <2> QED
      BY <1>7, <1>8, <1>9, <2>1 DEF Conveyed, LoopFree
  <1>11. LossBounded'
    BY DEF LossBounded, LoopFree
  <1>12. bridge'.emitted = 0 => bridge.emitted = 0 /\ Len(ds) = 0
    BY <1>1, <1>3, Facts
  <1>13. ~bridge'.answered => bridge'.emitted = 0
    <2>1. ds = <<>> => Len(ds) = 0
      OBVIOUS
    <2>2. ~bridge.answered => bridge.emitted = 0
      BY DEF Binding
    <2>3. bridge.emitted + 0 = bridge.emitted
      BY Facts
    <2> QED
      BY <2>1, <2>2, <2>3, <1>3
  <1>14. Pipe' = Pipe \o t
    <2>1. CASE mux.at = "delta"
      BY <1>3, <2>1 DEF Pipe
    <2>2. CASE mux.at # "delta"
      <3>1. getter \in Seq(Delta) /\ bridge.queue \in Seq(Delta)
        BY Facts
      <3>2. (getter \o bridge.queue) \o t = getter \o (bridge.queue \o t)
        BY <1>1, <3>1, Regrouped
      <3> QED
        BY <1>3, <2>2, <3>2 DEF Pipe
    <2> QED
      BY <2>1, <2>2
  <1> QED
    BY <1>5, <1>6, <1>10, <1>11, <1>12, <1>13, <1>14 DEF Started, t

LEMMA BurstContinues ==
  ASSUME NEW s \in Seq(Delta), NEW t \in Seq(Delta), NEW shown, NEW draft,
         t # <<>> => t[1].replace \/ (~t[1].replace /\ s = <<>> /\ shown = <<>>),
         \A i \in 1..Len(t) : /\ t[i].kind = "answer" /\ t[i].draft = draft /\ t[i].part = i
                              /\ i # 1 => ~t[i].replace
  PROVE  \A j \in 1..Len(t) : Continues(s \o t, shown, t[j], Len(s) + j - 1)
  <1> SUFFICES ASSUME NEW j \in 1..Len(t)
               PROVE  Continues(s \o t, shown, t[j], Len(s) + j - 1)
    OBVIOUS
  <1>1. Len(s) \in Nat /\ Len(t) \in Nat /\ t # <<>>
    BY LenProperties
  <1>2. CASE j = 1 /\ t[1].replace
    BY <1>2 DEF Continues
  <1>3. CASE j = 1 /\ ~t[1].replace
    <2>1. Len(s) = 0 /\ Len(shown) = 0 /\ Len(s) + j - 1 = 0 /\ shown = <<>>
      BY <1>1, <1>3
    <2> QED
      BY <1>3, <2>1 DEF Continues
  <1>4. CASE j # 1
    <2>1. /\ j - 1 \in 1..Len(t) /\ Len(s) + (j - 1) = Len(s) + j - 1
          /\ Len(s) + j - 1 \in 1..Len(s) + j - 1
      BY <1>1, <1>4
    <2>2. (s \o t)[Len(s) + j - 1] = t[j - 1]
      BY <2>1, Joined
    <2>3. /\ t[j].part = t[j - 1].part + 1 /\ t[j].draft = t[j - 1].draft
          /\ t[j - 1].kind = "answer" /\ ~t[j].replace
      <3>1. t[j].part = j /\ t[j - 1].part = j - 1 /\ j = (j - 1) + 1
        BY <1>1, <2>1
      <3> QED
        BY <1>4, <2>1, <3>1
    <2> DEFINE k == Len(s) + j - 1
    <2>4. \A h \in k + 1..k : (s \o t)[h].kind # "answer"
      <3>1. k \in Nat
        BY <1>1, <2>1
      <3>2. k + 1..k = {}
        BY <3>1
      <3> QED
        BY <3>2
    <2>5. PICK i \in 1..k : i = k
      BY <2>1
    <2> HIDE DEF k
    <2>6. /\ (s \o t)[i].kind = "answer" /\ (s \o t)[i].draft = t[j].draft
          /\ t[j].part = (s \o t)[i].part + 1
          /\ \A h \in i + 1..k : (s \o t)[h].kind # "answer"
      <3>1. (s \o t)[i] = t[j - 1]
        BY <2>2, <2>5 DEF k
      <3> QED
        BY <2>3, <2>4, <2>5, <3>1
    <2>7. Continues(s \o t, shown, t[j], k)
      BY <2>3, <2>6 DEF Continues
    <2> QED
      BY <2>7 DEF k
  <1> QED
    BY <1>2, <1>3, <1>4

LEMMA PairContinues ==
  ASSUME NEW s \in Seq(Delta), NEW t \in Seq(Delta), NEW shown,
         Len(t) = 2, t[1].kind = "text", t[2].kind = "answer",
         (t[2].replace /\ t[2].part = 1) \/ Continues(s, shown, t[2], Len(s))
  PROVE  /\ \A j \in 1..Len(t) : t[j].kind = "answer" =>
                                  Continues(s \o t, shown, t[j], Len(s) + j - 1)
         /\ \A d : ~d.replace /\ d.draft = t[2].draft /\ d.part = t[2].part + 1 =>
                  Continues(s \o t, shown, d, Len(s \o t))
  <1>1. /\ Len(s) \in Nat /\ Len(s \o t) = Len(s) + 2
        /\ \A i \in 1..Len(s) : (s \o t)[i] = s[i]
        /\ (s \o t)[Len(s) + 1] = t[1] /\ (s \o t)[Len(s) + 2] = t[2]
    BY Joined
  <1>2. Continues(s \o t, shown, t[2], Len(s) + 1)
    <2>1. CASE t[2].replace /\ t[2].part = 1
      BY <2>1 DEF Continues
    <2>2. CASE Continues(s, shown, t[2], Len(s))
      <3>1. CASE ~t[2].replace /\ \A i \in 1..Len(s) : s[i].kind # "answer"
        <4>1. \A i \in 1..Len(s) + 1 : (s \o t)[i].kind # "answer"
          <5> TAKE i \in 1..Len(s) + 1
          <5>1. i \in 1..Len(s) \/ i = Len(s) + 1
            BY <1>1
          <5> QED
            BY <5>1, <1>1, <3>1
        <4> QED
          BY <3>1, <2>2, <4>1 DEF Continues
      <3>2. ASSUME ~t[2].replace, NEW i \in 1..Len(s), s[i].kind = "answer",
                   s[i].draft = t[2].draft, t[2].part = s[i].part + 1,
                   \A h \in i + 1..Len(s) : s[h].kind # "answer"
            PROVE  Continues(s \o t, shown, t[2], Len(s) + 1)
        <4>1. i \in 1..Len(s) + 1
          BY <1>1
        <4>2. \A h \in i + 1..Len(s) + 1 : (s \o t)[h].kind # "answer"
          <5> TAKE h \in i + 1..Len(s) + 1
          <5>1. (h \in 1..Len(s) /\ h \in i + 1..Len(s)) \/ h = Len(s) + 1
            BY <1>1
          <5> QED
            BY <5>1, <1>1, <3>2
        <4> QED
          BY <1>1, <3>2, <4>1, <4>2 DEF Continues
      <3> QED
        BY <2>2, <3>1, <3>2, <2>1 DEF Continues
    <2> QED
      BY <2>1, <2>2
  <1>3. \A j \in 1..Len(t) : t[j].kind = "answer" => j = 2
    <2> TAKE j \in 1..Len(t)
    <2>1. j = 1 \/ j = 2
      OBVIOUS
    <2> QED
      BY <2>1
  <1>4. Len(s) + 2 - 1 = Len(s) + 1
    BY <1>1
  <1>5. Len(s) + 2 \in 1..Len(s \o t)
        /\ \A h \in Len(s) + 2 + 1..Len(s \o t) : (s \o t)[h].kind # "answer"
    BY <1>1
  <1> QED
    BY <1>1, <1>2, <1>3, <1>4, <1>5 DEF Continues

(* An emission keeps the preview right if what is emitted goes on from the pipe. *)
LEMMA EmitPreviews ==
  ASSUME IInv, LoopFree, NEW ds \in Seq(Delta), Emit(ds), UNCHANGED <<getter, mux, got, client>>,
         stream'.restarted = stream.restarted,
         Lossless /\ ~stream.restarted =>
           /\ \A j \in 1..Len(ds) : Numbered(ds)[j].kind = "answer" =>
                Continues(Pipe \o Numbered(ds), client.answer, Numbered(ds)[j], Len(Pipe) + j - 1)
           /\ turn'.node = "stream" /\ stream'.token > 0 =>
                Continues(Pipe \o Numbered(ds), client.answer, NextToken', Len(Pipe \o Numbered(ds)))
  PROVE  Previewed'
  <1> DEFINE t == Numbered(ds)
  <1>1. TypeOK /\ Previewed
    BY DEF IInv
  <1>2. t \in Seq(Delta) /\ Len(t) = Len(ds) /\ Pipe \in Seq(Delta)
    BY <1>1, Numbering, Facts
  <1>3. Pipe' = Pipe \o t
    BY EmitKeeps
  <1>4. got' = got /\ client' = client /\ mux' = mux
    OBVIOUS
  <1>5. Lossless' = Lossless /\ mux.at \notin Ends \cup {"ended"}
    BY <1>4 DEF Lossless, LoopFree, Ends
  <1> HIDE DEF t
  <1>6. ASSUME Lossless, ~stream.restarted
        PROVE  Chained(Pipe \o t, client.answer)
    <2>1. Chained(Pipe, client.answer)
      BY <1>1, <1>5, <1>6 DEF Previewed
    <2>2. \A j \in 1..Len(t) : t[j].kind = "answer" =>
             Continues(Pipe \o t, client.answer, t[j], Len(Pipe) + j - 1)
      BY <1>2, <1>6 DEF t
    <2> QED
      BY <1>2, <2>1, <2>2, Extended
  <1>7. ASSUME Lossless, ~stream.restarted, turn'.node = "stream", stream'.token > 0
        PROVE  Continues(Pipe \o t, client.answer, NextToken', Len(Pipe \o t))
    BY <1>7 DEF t
  <1>8. Lossless /\ ~stream.restarted => OneDraft(client.answer)
    BY <1>1 DEF Previewed
  <1> QED
    BY <1>3, <1>4, <1>5, <1>6, <1>7, <1>8 DEF Previewed

LEMMA BurstIs ==
  ASSUME TypeOK, NEW k \in Nat
  PROVE  /\ Burst(k) \in Seq(Delta) /\ Len(Burst(k)) = k
         /\ \A i \in 1..k : /\ Burst(k)[i].kind = "answer" /\ Burst(k)[i].draft = turn.drafts + 1
                           /\ Burst(k)[i].part = i
                           /\ Burst(k)[i].replace = (i = 1 /\ bridge.answered)
         /\ Burst(k) = <<>> <=> k = 0
  <1>1. turn.drafts + 1 \in Nat
    BY Facts
  <1>2. \A i \in 1..k : Burst(k)[i] = Piece("answer", turn.drafts + 1, i, i = 1 /\ bridge.answered)
    BY DEF Burst
  <1>3. \A i \in 1..k : Piece("answer", turn.drafts + 1, i, i = 1 /\ bridge.answered) \in Delta
    BY <1>1 DEF Piece, Delta
  <1>4. Burst(k) \in [1..k -> Delta]
    BY <1>3 DEF Burst
  <1>5. Burst(k) \in Seq(Delta)
    BY <1>4, SeqDef
  <1>6. Len(Burst(k)) = k
    BY <1>4, <1>5, LenProperties
  <1>7. Burst(k) = <<>> <=> k = 0
    BY <1>5, <1>6, EmptySeq
  <1> QED
    BY <1>2, <1>5, <1>6, <1>7 DEF Piece

LEMMA BurstPreviews ==
  ASSUME IInv, LoopFree, NEW k \in Nat
  PROVE  \A j \in 1..Len(Burst(k)) :
           Continues(Pipe \o Numbered(Burst(k)), client.answer, Numbered(Burst(k))[j], Len(Pipe) + j - 1)
  <1> DEFINE t == Numbered(Burst(k))
  <1>1. TypeOK
    BY DEF IInv
  <1>2. t \in Seq(Delta) /\ Len(t) = k /\ Len(Burst(k)) = k /\ Pipe \in Seq(Delta)
    BY <1>1, BurstIs, Numbering, Facts
  <1>3. \A i \in 1..Len(t) :
          /\ t[i].kind = "answer" /\ t[i].draft = turn.drafts + 1 /\ t[i].part = i
          /\ t[i].replace = (i = 1 /\ bridge.answered)
    <2> TAKE i \in 1..Len(t)
    <2>1. /\ i \in 1..k /\ i \in 1..Len(Burst(k))
          /\ Burst(k) \in Seq(Delta)
      BY <1>1, <1>2, BurstIs
    <2>2. /\ t[i].kind = Burst(k)[i].kind /\ t[i].draft = Burst(k)[i].draft
          /\ t[i].part = Burst(k)[i].part /\ t[i].replace = Burst(k)[i].replace
      BY <1>1, <2>1, Numbering
    <2>3. /\ Burst(k)[i].kind = "answer" /\ Burst(k)[i].draft = turn.drafts + 1
          /\ Burst(k)[i].part = i /\ Burst(k)[i].replace = (i = 1 /\ bridge.answered)
      BY <1>1, <2>1, BurstIs
    <2> QED
      BY <2>2, <2>3
  <1>4. bridge.answered \/ (Pipe = <<>> /\ client.answer = <<>>)
    BY Fresh DEF IInv, Binding, LoopFree
  <1> DEFINE d == turn.drafts + 1
  <1>5. /\ t # <<>> => t[1].replace \/ (~t[1].replace /\ Pipe = <<>> /\ client.answer = <<>>)
        /\ \A i \in 1..Len(t) : /\ t[i].kind = "answer" /\ t[i].draft = d /\ t[i].part = i
                                /\ i # 1 => ~t[i].replace
    <2>1. t # <<>> => 1 \in 1..Len(t)
      BY <1>2, EmptySeq
    <2> QED
      BY <1>3, <1>4, <2>1
  <1> HIDE DEF t, d
  <1>6. \A j \in 1..Len(t) : Continues(Pipe \o t, client.answer, t[j], Len(Pipe) + j - 1)
    BY <1>2, <1>5, BurstContinues
  <1> QED
    BY <1>2, <1>6 DEF t

LEMMA HandedStep ==
  ASSUME IInv, Next
  PROVE  Handed'
  <1> USE DEF IInv, Handed
  <1>1. CASE Worker \/ Critic \/ FormatterDirect \/ FormatterStream \/ StreamEnds
    BY <1>1 DEF Worker, Critic, FormatterDirect, FormatterStream, StreamEnds, Running
  <1>2. CASE Token \/ NextProvider \/ WatchDue \/ Fallback
    BY <1>2 DEF Token, NextProvider, WatchDue, Fallback, Running
  <1>3. CASE GraphAnswers
    BY <1>3 DEF GraphAnswers
  <1>4. CASE GetterTakes
    BY <1>4 DEF GetterTakes
  <1>5. CASE Drain \/ DrainEnds \/ Result \/ Disconnect
    <2>1. mux'.at \notin {"wait", "delta"}
      BY <1>5 DEF Drain, DrainEnds, Result, Disconnect, TypeOK
    <2>2. graph' = "cancelled" => mux'.at = "closed"
      BY <1>5 DEF Drain, DrainEnds, Result, Disconnect, LoopFree, TypeOK
    <2> QED
      BY <2>1, <2>2
  <1>6. CASE WakeDelta
    BY <1>6 DEF WakeDelta
  <1>7. CASE AfterDelta /\ ~mux.graphDone
    BY <1>7 DEF AfterDelta, TypeOK
  <1>8. ASSUME TakeItem, mux.at \in {"wait", "delta"}, graph # "pending"
        PROVE  Handed'
    <2>1. graph \in {"item", "over", "raised"}
      BY <1>8 DEF TypeOK
    <2>2. \/ mux'.at = "hop" /\ graph' = graph
          \/ mux'.at = "wait" /\ graph' = "pending"
          \/ mux'.at \in {"drain", "failed"} /\ graph' = graph
      <3>1. CASE graph = "item"
        BY <1>8, <3>1 DEF TakeItem
      <3>2. CASE graph = "over"
        BY <1>8, <3>2 DEF TakeItem
      <3>3. CASE graph = "raised"
        BY <1>8, <3>3 DEF TakeItem
      <3> QED
        BY <2>1, <3>1, <3>2, <3>3
    <2> QED
      BY <2>1, <2>2
  <1>9. CASE AfterHop
    BY <1>9 DEF AfterHop
  <1>10. WakeItem \/ (AfterDelta /\ mux.graphDone) => TakeItem /\ mux.at \in {"wait", "delta"} /\ graph # "pending"
    BY DEF WakeItem, AfterDelta
  <1> QED
    BY <1>1, <1>2, <1>3, <1>4, <1>5, <1>6, <1>7, <1>8, <1>9, <1>10 DEF Next, Produce, Multiplex

(* A node that returns. *)
LEMMA ReturnsType ==
  ASSUME TypeOK, NEW next \in Nodes, NEW k \in Nat
  PROVE  /\ Returns(next, k) \in [node : Nodes, items : Seq({"updates", "values"}),
                                  drafts : Nat, tries : Nat]
         /\ Returns(next, k).node = next /\ Returns(next, k).tries \in Nat
  <1>1. turn \in [node : Nodes, items : Seq({"updates", "values"}), drafts : Nat, tries : Nat]
    BY DEF TypeOK
  <1>2. turn.drafts + (IF k > 0 THEN 1 ELSE 0) \in Nat
    BY <1>1
  <1>3. <<"updates", "values">> \in Seq({"updates", "values"})
    OBVIOUS
  <1> QED
    BY <1>1, <1>2, <1>3 DEF Returns

(* A burst of any node that leaves the stream alone. *)
LEMMA BurstStep ==
  ASSUME IInv, Handed', LoopFree, turn.node \in {"worker", "formatter"},
         NEW k \in Nat, Emit(Burst(k)), NEW next \in Nodes \ {"stream"},
         turn' = Returns(next, k), UNCHANGED <<stream, graph, getter, mux, got, client>>
  PROVE  IInv'
  <1>1. TypeOK /\ Burst(k) \in Seq(Delta)
    BY BurstIs DEF IInv
  <1>2. /\ bridge' \in [queue : Seq(Delta), emitted : Nat, answered : BOOLEAN]
        /\ Suffix' /\ Conveyed' /\ LossBounded' /\ Started'
        /\ ~bridge'.answered => bridge'.emitted = 0
    BY <1>1, EmitKeeps
  <1>3. turn'.node # "stream"
        /\ turn' \in [node : Nodes, items : Seq({"updates", "values"}), drafts : Nat, tries : Nat]
    BY <1>1, ReturnsType
  <1>4. TypeOK'
    BY <1>1, <1>2, <1>3 DEF TypeOK
  <1>5. Binding'
    <2>1. ~(stream'.token > 0)
      BY DEF IInv, Binding
    <2> QED
      BY <1>2, <1>3, <2>1 DEF Binding
  <1>6. Previewed'
    BY <1>1, <1>3, BurstPreviews, EmitPreviews
  <1> QED
    BY <1>2, <1>4, <1>5, <1>6 DEF IInv

LEMMA WorkerStep ==
  ASSUME IInv, Worker
  PROVE  IInv'
  <1>0. Handed'
    BY HandedStep DEF Next, Produce
  <1>1. /\ TypeOK /\ LoopFree /\ UNCHANGED <<stream, graph, getter, mux, got, client>>
        /\ turn.node = "worker"
    BY DEF IInv, Worker, Running
  <1>2. ASSUME NEW k \in 0..Chunks, Emit(Burst(k)), turn' = Returns("critic", k)
        PROVE  IInv'
    BY <1>1, <1>2, <1>0, BurstStep DEF Nodes
  <1>3. CASE Emit(<<>>) /\ turn' = Returns("over", 0)
    <2>1. Burst(0) = <<>>
      BY <1>1, BurstIs
    <2> QED
      BY <1>1, <1>3, <2>1, <1>0, BurstStep DEF Nodes
  <1> QED
    BY <1>2, <1>3 DEF Worker

LEMMA FormatterDirectStep ==
  ASSUME IInv, FormatterDirect
  PROVE  IInv'
  <1>0. Handed'
    BY HandedStep DEF Next, Produce
  <1>1. /\ LoopFree /\ UNCHANGED <<stream, graph, getter, mux, got, client>>
        /\ turn.node = "formatter"
    BY DEF FormatterDirect, Running
  <1>2. PICK k \in 0..Chunks : Emit(Burst(k)) /\ turn' = Returns("over", k)
    BY DEF FormatterDirect
  <1> QED
    BY <1>1, <1>2, <1>0, BurstStep DEF Nodes

LEMMA FormatterStreamStep ==
  ASSUME IInv, FormatterStream
  PROVE  IInv'
  <1>1. TypeOK /\ LoopFree /\ UNCHANGED <<graph, getter, mux, got, client>> /\ turn.node = "formatter"
    BY DEF IInv, FormatterStream, Running
  <1>2. PICK k \in 0..Chunks :
          /\ Emit(Burst(k))
          /\ turn' = [turn EXCEPT !.node = "stream", !.drafts = @ + 2]
          /\ stream' = [stream EXCEPT !.draft = turn.drafts + 2,
                                      !.replace = Bind(bridge.answered \/ k > 0),
                                      !.watch = IF k > 0 THEN "armed" ELSE "off"]
    BY DEF FormatterStream
  <1>3. k \in Nat /\ Burst(k) \in Seq(Delta) /\ Len(Burst(k)) = k /\ (Burst(k) = <<>> <=> k = 0)
    BY <1>1, BurstIs
  <1>4. /\ bridge' \in [queue : Seq(Delta), emitted : Nat, answered : BOOLEAN]
        /\ Suffix' /\ Conveyed' /\ LossBounded' /\ Started'
        /\ ~bridge'.answered => bridge'.emitted = 0
    BY <1>1, <1>2, <1>3, EmitKeeps
  <1>5. /\ bridge'.answered = (bridge.answered \/ k > 0)
        /\ bridge.answered \in BOOLEAN
    BY <1>1, <1>2, <1>3 DEF Emit, TypeOK
  <1>6. /\ turn \in [node : Nodes, items : Seq({"updates", "values"}), drafts : Nat, tries : Nat]
        /\ stream \in [provider : Nat, token : Nat, draft : Nat, first : BOOLEAN,
                       replace : BOOLEAN, watch : {"off", "armed", "due"}, restarted : BOOLEAN]
        /\ turn.drafts + 2 \in Nat
    BY <1>1 DEF TypeOK
  <1>7. turn' \in [node : Nodes, items : Seq({"updates", "values"}), drafts : Nat, tries : Nat]
    BY <1>2, <1>6 DEF Nodes
  <1>8. /\ stream' \in [provider : Nat, token : Nat, draft : Nat, first : BOOLEAN,
                        replace : BOOLEAN, watch : {"off", "armed", "due"}, restarted : BOOLEAN]
        /\ stream'.replace = (bridge.answered \/ k > 0)
        /\ stream'.token = stream.token /\ stream'.first = stream.first
        /\ stream'.restarted = stream.restarted
    BY <1>2, <1>5, <1>6 DEF Bind
  <1>9. TypeOK'
    BY <1>1, <1>4, <1>7, <1>8 DEF TypeOK
  <1>10. stream.token = 0
    BY <1>1 DEF IInv, Binding, TypeOK
  <1>11. Binding'
    <2>1. stream'.replace \/ bridge'.emitted = 0
      BY <1>4, <1>5, <1>8
    <2> QED
      BY <1>4, <1>8, <1>10, <2>1 DEF Binding
  <1>12. Previewed'
    <2>1. ~(stream'.token > 0)
      BY <1>8, <1>10
    <2> QED
      BY <1>1, <1>2, <1>3, <1>8, <2>1, BurstPreviews, EmitPreviews
  <1> QED
    <2>1. Handed'
      BY HandedStep DEF Next, Produce
    <2> QED
      BY <2>1, <1>4, <1>9, <1>11, <1>12 DEF IInv

-----------------------------------------------------------------------------
(* The pair of the formatter's stream and of its watch. *)

LEMMA SameParts ==
  ASSUME NEW s, NEW shown, NEW d, NEW e, NEW k, Continues(s, shown, d, k),
         d.replace = e.replace, d.draft = e.draft, d.part = e.part
  PROVE  Continues(s, shown, e, k)
  BY DEF Continues

LEMMA PairIs ==
  ASSUME TypeOK, NEW a \in Delta, NEW b \in Delta, a.kind = "text", b.kind = "answer"
  PROVE  /\ <<a, b>> \in Seq(Delta) /\ Len(<<a, b>>) = 2 /\ <<a, b>> # <<>>
         /\ Numbered(<<a, b>>) \in Seq(Delta) /\ Len(Numbered(<<a, b>>)) = 2
         /\ Numbered(<<a, b>>)[1].kind = "text" /\ Numbered(<<a, b>>)[2].kind = "answer"
         /\ Numbered(<<a, b>>)[2].draft = b.draft /\ Numbered(<<a, b>>)[2].part = b.part
         /\ Numbered(<<a, b>>)[2].replace = b.replace
  <1> DEFINE ds == <<a, b>>
  <1>2. /\ ds \in Seq(Delta) /\ Len(ds) = 2 /\ ds # <<>>
        /\ ds[1].kind = "text" /\ ds[2].kind = "answer" /\ ds[2].draft = b.draft
        /\ ds[2].part = b.part /\ ds[2].replace = b.replace
    OBVIOUS
  <1> HIDE DEF ds
  <1>3. 1 \in 1..Len(ds) /\ 2 \in 1..Len(ds)
    BY <1>2
  <1>4. /\ Numbered(ds) \in Seq(Delta) /\ Len(Numbered(ds)) = Len(ds)
        /\ Numbered(ds)[1].kind = ds[1].kind /\ Numbered(ds)[2].kind = ds[2].kind
        /\ Numbered(ds)[2].draft = ds[2].draft /\ Numbered(ds)[2].part = ds[2].part
        /\ Numbered(ds)[2].replace = ds[2].replace
    BY <1>2, <1>3, Numbering
  <1> QED
    BY <1>2, <1>4 DEF ds

LEMMA TokenStep ==
  ASSUME IInv, Token
  PROVE  IInv'
  <1> DEFINE i == stream.token + 1
             ds == <<Piece("text", stream.draft, i, FALSE),
                     Piece("answer", stream.draft, i, stream.replace)>>
             t == Numbered(ds)
  <1>1. /\ TypeOK /\ LoopFree /\ turn.node = "stream"
        /\ UNCHANGED <<turn, graph, getter, mux, got, client>>
        /\ Emit(ds) /\ stream' = [stream EXCEPT !.token = i, !.first = TRUE, !.replace = FALSE]
    BY DEF IInv, Token, Running
  <1>2. /\ stream \in [provider : Nat, token : Nat, draft : Nat, first : BOOLEAN,
                       replace : BOOLEAN, watch : {"off", "armed", "due"}, restarted : BOOLEAN]
        /\ i \in Nat /\ stream.draft \in Nat /\ stream.replace \in BOOLEAN
    BY <1>1 DEF TypeOK
  <1>3. /\ stream' \in [provider : Nat, token : Nat, draft : Nat, first : BOOLEAN,
                        replace : BOOLEAN, watch : {"off", "armed", "due"}, restarted : BOOLEAN]
        /\ stream'.token = i /\ stream'.first /\ stream'.replace = FALSE
        /\ stream'.draft = stream.draft /\ stream'.restarted = stream.restarted
    BY <1>1, <1>2
  <1>4. /\ ds \in Seq(Delta) /\ Len(ds) = 2 /\ t \in Seq(Delta) /\ Len(t) = 2
        /\ t[1].kind = "text" /\ t[2].kind = "answer" /\ t[2].draft = stream.draft
        /\ t[2].part = i /\ t[2].replace = stream.replace
    <2> DEFINE a == Piece("text", stream.draft, i, FALSE)
               b == Piece("answer", stream.draft, i, stream.replace)
    <2>1. a \in Delta /\ b \in Delta
      BY <1>2 DEF Piece, Delta
    <2>2. /\ a.kind = "text" /\ b.kind = "answer" /\ b.draft = stream.draft /\ b.part = i
          /\ b.replace = stream.replace
      BY DEF Piece
    <2>3. ds = <<a, b>>
      OBVIOUS
    <2> HIDE DEF i, ds, a, b
    <2> QED
      BY <1>1, <2>1, <2>2, <2>3, PairIs
  <1>5. i > 0 /\ (i = 1 <=> stream.token = 0)
    BY <1>2
  <1> HIDE DEF ds
  <1>6. /\ bridge' \in [queue : Seq(Delta), emitted : Nat, answered : BOOLEAN]
        /\ Suffix' /\ Conveyed' /\ LossBounded' /\ Started'
        /\ ~bridge'.answered => bridge'.emitted = 0
    BY <1>1, <1>4, EmitKeeps
  <1>7. TypeOK'
    BY <1>1, <1>3, <1>6 DEF TypeOK
  <1>8. Binding'
    BY <1>1, <1>3, <1>5, <1>6 DEF Binding
  <1>9. Pipe \in Seq(Delta) /\ client.answer \in Seq(Part)
    BY <1>1, Facts
  <1>10. ASSUME Lossless, ~stream.restarted
         PROVE  /\ \A j \in 1..Len(t) : t[j].kind = "answer" =>
                     Continues(Pipe \o t, client.answer, t[j], Len(Pipe) + j - 1)
                /\ Continues(Pipe \o t, client.answer, NextToken', Len(Pipe \o t))
    <2>1. (t[2].replace /\ t[2].part = 1) \/ Continues(Pipe, client.answer, t[2], Len(Pipe))
      <3>1. CASE stream.token = 0 /\ stream.replace
        BY <3>1, <1>4, <1>5
      <3>2. CASE stream.token = 0 /\ ~stream.replace
        <4>1. bridge.emitted = 0
          BY <1>1, <1>10, <3>2 DEF IInv, Binding
        <4>2. Pipe = <<>> /\ client.answer = <<>>
          BY <1>1, <4>1, Fresh DEF LoopFree
        <4>3. Len(Pipe) = 0 /\ Len(client.answer) = 0 /\ t[2].part = 0 + 1 /\ ~t[2].replace
          BY <1>4, <1>5, <3>2, <4>2
        <4> QED
          BY <4>2, <4>3 DEF Continues
      <3>3. CASE stream.token # 0
        <4>1. stream.token > 0 /\ mux.at \notin Ends \cup {"ended"}
          BY <1>1, <1>2, <3>3 DEF LoopFree, Ends
        <4>2. Continues(Pipe, client.answer, NextToken, Len(Pipe)) /\ ~stream.replace
          BY <1>1, <1>10, <3>3, <4>1 DEF IInv, Binding, Previewed
        <4>3. /\ NextToken.replace = t[2].replace /\ NextToken.draft = t[2].draft
              /\ NextToken.part = t[2].part
          BY <1>2, <1>4, <4>2 DEF NextToken, Piece
        <4> HIDE DEF t
        <4> QED
          BY <4>2, <4>3, SameParts
      <3> QED
        BY <1>2, <3>1, <3>2, <3>3
    <2>2. ~NextToken'.replace /\ NextToken'.draft = t[2].draft /\ NextToken'.part = t[2].part + 1
      BY <1>3, <1>4 DEF NextToken, Piece
    <2> HIDE DEF t
    <2> QED
      BY <1>4, <1>9, <2>1, <2>2, PairContinues
  <1>11. Previewed'
    BY <1>1, <1>3, <1>4, <1>10, EmitPreviews
  <1> QED
    <2>1. Handed'
      BY HandedStep DEF Next, Produce
    <2> QED
      BY <2>1, <1>6, <1>7, <1>8, <1>11 DEF IInv

LEMMA FallbackStep ==
  ASSUME IInv, Fallback
  PROVE  IInv'
  <1> DEFINE d == turn.drafts + 1
             ds == <<Piece("text", d, 1, FALSE), Piece("answer", d, 1, TRUE)>>
             t == Numbered(ds)
  <1>1. /\ TypeOK /\ LoopFree /\ turn.node = "stream" /\ ~stream.first
        /\ UNCHANGED <<graph, getter, mux, got, client>>
        /\ Emit(ds) /\ turn' = [turn EXCEPT !.drafts = d]
        /\ stream' = [stream EXCEPT !.watch = "off", !.replace = TRUE]
    BY DEF IInv, Fallback, Running, FallbackWanted
  <1>2. /\ turn \in [node : Nodes, items : Seq({"updates", "values"}), drafts : Nat, tries : Nat]
        /\ stream \in [provider : Nat, token : Nat, draft : Nat, first : BOOLEAN,
                       replace : BOOLEAN, watch : {"off", "armed", "due"}, restarted : BOOLEAN]
        /\ d \in Nat /\ stream.token \in Nat
    BY <1>1 DEF TypeOK
  <1>3. stream.token = 0
    BY <1>1, <1>2 DEF IInv, Binding
  <1>4. /\ turn' \in [node : Nodes, items : Seq({"updates", "values"}), drafts : Nat, tries : Nat]
        /\ stream' \in [provider : Nat, token : Nat, draft : Nat, first : BOOLEAN,
                        replace : BOOLEAN, watch : {"off", "armed", "due"}, restarted : BOOLEAN]
        /\ stream'.token = 0 /\ stream'.replace = TRUE /\ stream'.restarted = stream.restarted
    BY <1>1, <1>2, <1>3
  <1>5. /\ ds \in Seq(Delta) /\ Len(ds) = 2 /\ t \in Seq(Delta) /\ Len(t) = 2
        /\ t[1].kind = "text" /\ t[2].kind = "answer" /\ t[2].part = 1 /\ t[2].replace = TRUE
    <2> DEFINE a == Piece("text", d, 1, FALSE)
               b == Piece("answer", d, 1, TRUE)
    <2>1. a \in Delta /\ b \in Delta
      BY <1>2 DEF Piece, Delta
    <2>2. a.kind = "text" /\ b.kind = "answer" /\ b.part = 1 /\ b.replace = TRUE
      BY DEF Piece
    <2>3. ds = <<a, b>>
      OBVIOUS
    <2> HIDE DEF d, ds, a, b
    <2> QED
      BY <1>1, <2>1, <2>2, <2>3, PairIs
  <1> HIDE DEF d, ds
  <1>6. /\ bridge' \in [queue : Seq(Delta), emitted : Nat, answered : BOOLEAN]
        /\ Suffix' /\ Conveyed' /\ LossBounded' /\ Started'
        /\ ~bridge'.answered => bridge'.emitted = 0
    BY <1>1, <1>5, EmitKeeps
  <1>7. TypeOK'
    BY <1>1, <1>4, <1>6 DEF TypeOK
  <1>8. Binding'
    BY <1>4, <1>6 DEF Binding
  <1>9. Pipe \in Seq(Delta)
    BY <1>1, Facts
  <1> HIDE DEF t
  <1>10. \A j \in 1..Len(t) : t[j].kind = "answer" =>
           Continues(Pipe \o t, client.answer, t[j], Len(Pipe) + j - 1)
    BY <1>5, <1>9, PairContinues
  <1>11. \A j \in 1..Len(ds) : Numbered(ds)[j].kind = "answer" =>
           Continues(Pipe \o Numbered(ds), client.answer, Numbered(ds)[j], Len(Pipe) + j - 1)
    BY <1>5, <1>10 DEF t
  <1>12. Previewed'
    <2>1. ~(stream'.token > 0) /\ stream'.restarted = stream.restarted
      BY <1>4
    <2>2. ds \in Seq(Delta) /\ Emit(ds) /\ LoopFree /\ UNCHANGED <<getter, mux, got, client>>
      BY <1>1, <1>5
    <2> QED
      BY <1>11, <2>1, <2>2, EmitPreviews
  <1> QED
    <2>1. Handed'
      BY HandedStep DEF Next
    <2> QED
      BY <2>1, <1>6, <1>7, <1>8, <1>12 DEF IInv

-----------------------------------------------------------------------------
(* Steps that neither emit nor yield. *)

LEMMA Quiet ==
  ASSUME IInv, UNCHANGED <<bridge, getter, mux, got, client>>
  PROVE  /\ Suffix' /\ Conveyed' /\ LossBounded' /\ Started'
         /\ bridge'.answered = bridge.answered /\ bridge'.emitted = bridge.emitted
         /\ Pipe' = Pipe /\ Lossless' = Lossless
  BY DEF IInv, Suffix, Q, Conveyed, Prefix, Skipping, Emissions, InOrder, LossBounded, Started, Pipe,
         Lossless

LEMMA CriticStep ==
  ASSUME IInv, Critic
  PROVE  IInv'
  <1>1. TypeOK /\ turn.node = "critic" /\ UNCHANGED <<stream, bridge, graph, getter, mux, got, client>>
    BY DEF IInv, Critic, Running
  <1>2. /\ turn' \in [node : Nodes, items : Seq({"updates", "values"}), drafts : Nat, tries : Nat]
        /\ turn'.node # "stream"
    <2>1. CASE turn' = Returns("formatter", 0)
      BY <1>1, <2>1, ReturnsType DEF Nodes
    <2>2. CASE turn' = [Returns("worker", 0) EXCEPT !.tries = @ + 1]
      <3>1. /\ Returns("worker", 0) \in [node : Nodes, items : Seq({"updates", "values"}),
                                         drafts : Nat, tries : Nat]
            /\ Returns("worker", 0).node = "worker" /\ Returns("worker", 0).tries \in Nat
        BY <1>1, ReturnsType DEF Nodes
      <3> QED
        BY <2>2, <3>1
    <2> QED
      BY <2>1, <2>2 DEF Critic
  <1>3. TypeOK'
    BY <1>1, <1>2 DEF TypeOK
  <1>4. Binding'
    BY <1>1, <1>2 DEF IInv, Binding
  <1>5. Previewed'
    BY <1>1, <1>2, Quiet DEF IInv, Previewed
  <1> QED
    <2>1. Handed'
      BY HandedStep DEF Next, Produce
    <2> QED
      BY <2>1, <1>1, <1>3, <1>4, <1>5, Quiet DEF IInv

LEMMA NextProviderStep ==
  ASSUME IInv, NextProvider
  PROVE  IInv'
  <1>1. /\ TypeOK /\ turn.node = "stream" /\ UNCHANGED <<bridge, graph, getter, mux, got, client>>
        /\ stream' = [stream EXCEPT !.provider = @ + 1, !.token = 0, !.draft = turn.drafts + 1,
                                    !.restarted = @ \/ stream.token > 0]
        /\ turn' = [turn EXCEPT !.drafts = @ + 1]
    BY DEF IInv, NextProvider, Running
  <1>2. /\ turn \in [node : Nodes, items : Seq({"updates", "values"}), drafts : Nat, tries : Nat]
        /\ stream \in [provider : Nat, token : Nat, draft : Nat, first : BOOLEAN,
                       replace : BOOLEAN, watch : {"off", "armed", "due"}, restarted : BOOLEAN]
    BY <1>1 DEF TypeOK
  <1>3. /\ turn' \in [node : Nodes, items : Seq({"updates", "values"}), drafts : Nat, tries : Nat]
        /\ stream' \in [provider : Nat, token : Nat, draft : Nat, first : BOOLEAN,
                        replace : BOOLEAN, watch : {"off", "armed", "due"}, restarted : BOOLEAN]
        /\ stream'.token = 0 /\ stream'.replace = stream.replace
        /\ stream'.restarted = (stream.restarted \/ stream.token > 0)
    <2>1. /\ turn.drafts + 1 \in Nat /\ stream.provider + 1 \in Nat
          /\ (stream.restarted \/ stream.token > 0) \in BOOLEAN
      BY <1>2
    <2> QED
      BY <1>1, <1>2, <2>1
  <1>4. TypeOK'
    BY <1>1, <1>3 DEF TypeOK
  <1>5. ~stream'.restarted => stream.token = 0 /\ ~stream.restarted
    BY <1>2, <1>3
  <1>6. Binding'
    BY <1>1, <1>3, <1>5, Quiet DEF IInv, Binding
  <1>7. Previewed'
    BY <1>1, <1>3, <1>5, Quiet DEF IInv, Previewed
  <1> QED
    <2>1. Handed'
      BY HandedStep DEF Next, Produce
    <2> QED
      BY <2>1, <1>1, <1>4, <1>6, <1>7, Quiet DEF IInv

LEMMA StreamEndsStep ==
  ASSUME IInv, StreamEnds
  PROVE  IInv'
  <1>1. /\ TypeOK /\ turn.node = "stream" /\ UNCHANGED <<bridge, graph, getter, mux, got, client>>
        /\ stream' = [stream EXCEPT !.watch = "off"] /\ turn' = Returns("over", 0)
    BY DEF IInv, StreamEnds, Running
  <1>2. /\ turn' \in [node : Nodes, items : Seq({"updates", "values"}), drafts : Nat, tries : Nat]
        /\ turn'.node = "over"
    BY <1>1, ReturnsType DEF Nodes
  <1>3. /\ stream' \in [provider : Nat, token : Nat, draft : Nat, first : BOOLEAN,
                        replace : BOOLEAN, watch : {"off", "armed", "due"}, restarted : BOOLEAN]
        /\ stream'.token = stream.token /\ stream'.first = stream.first
        /\ stream'.restarted = stream.restarted
    BY <1>1 DEF TypeOK
  <1>4. TypeOK'
    BY <1>1, <1>2, <1>3 DEF TypeOK
  <1>5. Binding'
    BY <1>1, <1>2, <1>3 DEF IInv, Binding
  <1>6. Previewed'
    BY <1>1, <1>2, <1>3, Quiet DEF IInv, Previewed
  <1> QED
    <2>1. Handed'
      BY HandedStep DEF Next, Produce
    <2> QED
      BY <2>1, <1>1, <1>4, <1>5, <1>6, Quiet DEF IInv

LEMMA WatchDueStep ==
  ASSUME IInv, WatchDue
  PROVE  IInv'
  <1>1. /\ TypeOK /\ UNCHANGED <<turn, bridge, graph, getter, mux, got, client>>
        /\ stream' = [stream EXCEPT !.watch = "due"]
    BY DEF IInv, WatchDue
  <1>2. /\ stream' \in [provider : Nat, token : Nat, draft : Nat, first : BOOLEAN,
                        replace : BOOLEAN, watch : {"off", "armed", "due"}, restarted : BOOLEAN]
        /\ stream'.token = stream.token /\ stream'.first = stream.first
        /\ stream'.restarted = stream.restarted /\ stream'.replace = stream.replace
        /\ stream'.draft = stream.draft
    BY <1>1 DEF TypeOK
  <1>3. TypeOK'
    BY <1>1, <1>2 DEF TypeOK
  <1>4. Binding'
    BY <1>1, <1>2 DEF IInv, Binding
  <1>5. NextToken' = NextToken
    BY <1>2 DEF NextToken
  <1>6. Previewed'
    BY <1>1, <1>2, <1>5, Quiet DEF IInv, Previewed
  <1> QED
    <2>1. Handed'
      BY HandedStep DEF Next
    <2> QED
      BY <2>1, <1>1, <1>3, <1>4, <1>6, Quiet DEF IInv

LEMMA GraphAnswersStep ==
  ASSUME IInv, GraphAnswers
  PROVE  IInv'
  <1>1. TypeOK /\ UNCHANGED <<turn, stream, bridge, getter, mux, got, client>>
        /\ graph' \in {"item", "over", "raised"}
    BY DEF IInv, GraphAnswers
  <1>2. TypeOK' /\ Binding' /\ NextToken' = NextToken
    BY <1>1 DEF IInv, TypeOK, Binding, NextToken
  <1>3. Previewed'
    BY <1>1, <1>2, Quiet DEF IInv, Previewed
  <1> QED
    <2>1. Handed'
      BY HandedStep DEF Next, Produce
    <2> QED
      BY <2>1, <1>1, <1>2, <1>3, Quiet DEF IInv

-----------------------------------------------------------------------------
(* The multiplexer. *)

LEMMA Ordered ==
  ASSUME TypeOK, Prefix \/ \E g : Skipping(g)
  PROVE  InOrder
  <1>0. \A i \in 1..Len(got) - 1 : i \in 1..Len(got) /\ i + 1 \in 1..Len(got) /\ i < i + 1
    <2>1. \A n \in Nat : \A i \in 1..n - 1 : i \in 1..n /\ i + 1 \in 1..n /\ i < i + 1
      OBVIOUS
    <2>2. Len(got) \in Nat
      BY Facts
    <2> QED
      BY <2>1, <2>2, Zenon
  <1>1. CASE Prefix
    <2>1. \A i \in 1..Len(got) : got[i] = i
      BY <1>1 DEF Prefix, Lossless
    <2> SUFFICES ASSUME NEW i \in 1..Len(got) - 1
                 PROVE  got[i] < got[i + 1]
      BY DEF InOrder
    <2>2. i \in 1..Len(got) /\ i + 1 \in 1..Len(got) /\ i < i + 1
      BY <1>0
    <2> QED
      BY <2>1, <2>2
  <1>2. ASSUME NEW g, Skipping(g)
        PROVE  InOrder
    <2>1. /\ g \in 1..bridge.emitted - Q
          /\ \A i \in 1..Len(got) : got[i] = IF i < g THEN i ELSE i + 1
      BY <1>2 DEF Skipping
    <2> SUFFICES ASSUME NEW i \in 1..Len(got) - 1
                 PROVE  got[i] < got[i + 1]
      BY DEF InOrder
    <2>2. i \in 1..Len(got) /\ i + 1 \in 1..Len(got) /\ i \in Int /\ g \in Int
      BY <1>0, <2>1
    <2>3. got[i] = (IF i < g THEN i ELSE i + 1) /\ got[i + 1] = (IF i + 1 < g THEN i + 1 ELSE i + 2)
      BY <2>1, <2>2
    <2> QED
      BY <2>2, <2>3
  <1> QED
    BY <1>1, <1>2

(* The head of the queue is taken out. *)
LEMMA Popped ==
  ASSUME TypeOK, Suffix, bridge.queue # <<>>, bridge' = [bridge EXCEPT !.queue = Tail(@)]
  PROVE  /\ bridge' \in [queue : Seq(Delta), emitted : Nat, answered : BOOLEAN]
         /\ bridge'.queue = Tail(bridge.queue)
         /\ bridge'.emitted = bridge.emitted /\ bridge'.answered = bridge.answered
         /\ Suffix' /\ Q > 0 /\ Q' = Q - 1
         /\ Head(bridge.queue) = bridge.queue[1] /\ Head(bridge.queue) \in Delta
         /\ Head(bridge.queue).n = bridge.emitted - Q + 1
  <1>1. /\ bridge.queue \in Seq(Delta) /\ Q \in Nat /\ bridge.emitted \in Nat
        /\ bridge \in [queue : Seq(Delta), emitted : Nat, answered : BOOLEAN]
    BY Facts DEF TypeOK
  <1>2. /\ Head(bridge.queue) \in Delta /\ Head(bridge.queue) = bridge.queue[1]
        /\ Tail(bridge.queue) \in Seq(Delta) /\ Q > 0 /\ Len(Tail(bridge.queue)) = Q - 1
        /\ \A i \in 1..Q - 1 : Tail(bridge.queue)[i] = bridge.queue[i + 1]
    BY <1>1, Tailed DEF Q
  <1>3. /\ bridge' \in [queue : Seq(Delta), emitted : Nat, answered : BOOLEAN]
        /\ bridge'.queue = Tail(bridge.queue)
        /\ bridge'.emitted = bridge.emitted /\ bridge'.answered = bridge.answered
    BY <1>1, <1>2
  <1>4. Q' = Q - 1
    BY <1>2, <1>3 DEF Q
  <1>5. Suffix'
    <2> SUFFICES ASSUME NEW i \in 1..Q'
                 PROVE  bridge'.queue[i].n = bridge'.emitted - Q' + i
      BY DEF Suffix
    <2>1. i \in 1..Q - 1 /\ i + 1 \in 1..Q
      BY <1>1, <1>4
    <2>2. bridge'.queue[i] = bridge.queue[i + 1]
      BY <1>2, <1>3, <2>1
    <2>3. bridge.queue[i + 1].n = bridge.emitted - Q + (i + 1)
      BY <2>1 DEF Suffix
    <2>4. bridge'.emitted - Q' + i = bridge.emitted - Q + (i + 1)
      BY <1>1, <1>3, <1>4, <2>1
    <2> QED
      BY <2>2, <2>3, <2>4
  <1>6. Head(bridge.queue).n = bridge.emitted - Q + 1
    <2>1. 1 \in 1..Q
      BY <1>1, <1>2
    <2> QED
      BY <1>2, <2>1 DEF Suffix
  <1> QED
    BY <1>2, <1>3, <1>4, <1>5, <1>6

(* A delta reaches the client. *)
LEMMA Yielded ==
  ASSUME TypeOK, NEW d \in Delta, Deliver(d)
  PROVE  /\ got' \in Seq(Nat) /\ Len(got) \in Nat /\ Len(got') = Len(got) + 1
         /\ \A i \in 1..Len(got) : got'[i] = got[i]
         /\ got'[Len(got) + 1] = d.n
         /\ client' \in [answer : Seq(Part), text : Seq(Part), hasText : BOOLEAN]
         /\ client'.answer = After(client.answer, d)
         /\ Lossless' <=> Lossless /\ d.n = Len(got) + 1
  <1>1. /\ got' \in Seq(Nat) /\ Len(got) \in Nat /\ Len(got') = Len(got) + 1
        /\ \A i \in 1..Len(got) : got'[i] = got[i]
        /\ got'[Len(got) + 1] = d.n
    <2>1. got \in Seq(Nat) /\ d.n \in Nat /\ got' = Append(got, d.n)
      BY Facts DEF Deliver, Delta
    <2> QED
      BY <2>1, Pushed
  <1>2. /\ client' \in [answer : Seq(Part), text : Seq(Part), hasText : BOOLEAN]
        /\ client'.answer = After(client.answer, d)
    BY ShownIs DEF Deliver
  <1>3. ASSUME Lossless'
        PROVE  Lossless /\ d.n = Len(got) + 1
    <2>1. \A i \in 1..Len(got) + 1 : got'[i] = i
      BY <1>1, <1>3 DEF Lossless
    <2>2. \A i \in 1..Len(got) : got[i] = i
      BY <1>1, <2>1
    <2>3. [i \in 1..Len(got) |-> i] \in Seq(Nat)
      BY <1>1
    <2>4. Lossless
      BY <1>1, <2>2, <2>3, Facts, SeqEqual DEF Lossless
    <2> QED
      BY <1>1, <2>1, <2>4
  <1>4. ASSUME Lossless, d.n = Len(got) + 1
        PROVE  Lossless'
    <2>1. \A i \in 1..Len(got) : got[i] = i
      BY <1>4 DEF Lossless
    <2>2. \A i \in 1..Len(got') : got'[i] = i
      BY <1>1, <1>4, <2>1
    <2>3. [i \in 1..Len(got') |-> i] \in Seq(Nat) /\ Len([i \in 1..Len(got') |-> i]) = Len(got')
      BY <1>1
    <2> QED
      BY <1>1, <2>2, <2>3, SeqEqual DEF Lossless
  <1> QED
    BY <1>1, <1>2, <1>3, <1>4

(* What is delivered is the head of the pipe, and the rest of it still goes on. *)
LEMMA Delivered ==
  ASSUME IInv, mux.at \notin Ends \cup {"ended"}, Pipe # <<>>, Deliver(Pipe[1]),
         Pipe' = Tail(Pipe), UNCHANGED <<turn, stream>>, mux'.at \notin Ends \cup {"ended"}
  PROVE  Previewed'
  <1>1. TypeOK /\ Previewed /\ Pipe \in Seq(Delta) /\ client.answer \in Seq(Part)
    BY Facts DEF IInv
  <1>2. Pipe[1] \in Delta /\ Len(Pipe) \in 1..Len(Pipe) /\ Len(Tail(Pipe)) = Len(Pipe) - 1
    BY <1>1, Tailed
  <1>3. client'.answer = After(client.answer, Pipe[1]) /\ (Lossless' => Lossless)
    BY <1>1, <1>2, Yielded
  <1>4. NextToken' = NextToken
    BY DEF NextToken
  <1> SUFFICES ASSUME Lossless, ~stream.restarted
               PROVE  /\ OneDraft(client'.answer) /\ Chained(Pipe', client'.answer)
                      /\ turn.node = "stream" /\ stream.token > 0 =>
                           Continues(Pipe', client'.answer, NextToken, Len(Pipe'))
    BY <1>3, <1>4 DEF Previewed
  <1>5. /\ OneDraft(client.answer) /\ Chained(Pipe, client.answer)
        /\ turn.node = "stream" /\ stream.token > 0 =>
             Continues(Pipe, client.answer, NextToken, Len(Pipe))
    BY <1>1 DEF Previewed
  <1>6. OneDraft(client'.answer) /\ Chained(Pipe', client'.answer)
    BY <1>1, <1>3, <1>5, StillOneDraft, StillChained
  <1>7. ASSUME turn.node = "stream", stream.token > 0
        PROVE  Continues(Pipe', client'.answer, NextToken, Len(Pipe'))
    BY <1>1, <1>2, <1>3, <1>5, <1>7, Shifted
  <1> QED
    BY <1>6, <1>7

LEMMA GetterTakesStep ==
  ASSUME IInv, GetterTakes
  PROVE  IInv'
  <1>1. /\ TypeOK /\ Suffix /\ mux.at \in {"wait", "hop", "draining"} /\ getter = <<>>
        /\ bridge.queue # <<>> /\ getter' = <<Head(bridge.queue)>>
        /\ bridge' = [bridge EXCEPT !.queue = Tail(@)]
        /\ UNCHANGED <<turn, stream, graph, mux, got, client>>
    BY DEF IInv, GetterTakes, LoopFree
  <1>2. Prefix
    BY <1>1 DEF IInv, Conveyed
  <1> DEFINE d == Head(bridge.queue)
  <1>3. /\ bridge' \in [queue : Seq(Delta), emitted : Nat, answered : BOOLEAN]
        /\ bridge'.queue = Tail(bridge.queue)
        /\ bridge'.emitted = bridge.emitted /\ bridge'.answered = bridge.answered
        /\ Suffix' /\ Q > 0 /\ Q' = Q - 1 /\ d \in Delta /\ d.n = bridge.emitted - Q + 1
    BY <1>1, Popped
  <1>4. getter' \in Seq(Delta) /\ Len(getter') = 1 /\ getter'[1] = d /\ getter' # <<>>
    BY <1>1, <1>3, One
  <1>5. TypeOK'
    BY <1>1, <1>3, <1>4 DEF TypeOK
  <1>6. Handed'
    BY HandedStep DEF Next
  <1>7. d.n = bridge'.emitted - Q' /\ bridge'.emitted = Len(got') + 1 + Q' /\ d.n = Len(got') + 1
    BY <1>1, <1>2, <1>3, Facts DEF Prefix
  <1>8. \A i \in 1..Len(got') : got'[i] = i /\ i < Len(got') + 1
    BY <1>1, <1>2, Facts DEF Prefix, Lossless
  <1>9. Skipping(getter[1].n)'
    <2>1. Len(got') \in Nat /\ bridge'.emitted \in Nat /\ Q' \in Int
      BY <1>1, <1>3, Facts
    <2>2. bridge'.emitted - Q' = Len(got') + 1 /\ Len(got') + 1 \in 1..Len(got') + 1
      BY <1>7, <2>1
    <2>3. getter'[1].n = Len(got') + 1
      BY <1>4, <1>7
    <2> QED
      BY <1>7, <1>8, <2>2, <2>3 DEF Skipping
  <1>10. Conveyed'
    <2>1. getter'[1].n = bridge'.emitted - Q'
      BY <1>4, <1>7
    <2>2. mux'.at \in {"wait", "hop", "draining"}
      BY <1>1
    <2> QED
      BY <1>4, <1>9, <2>1, <2>2 DEF Conveyed
  <1>11. Pipe' = Pipe
    <2>1. bridge.queue \in Seq(Delta)
      BY <1>1, Facts
    <2>2. Pipe' = <<Head(bridge.queue)>> \o Tail(bridge.queue)
      BY <1>1, <1>3 DEF Pipe
    <2>3. Pipe = <<>> \o bridge.queue
      BY <1>1 DEF Pipe
    <2> QED
      BY <1>1, <2>1, <2>2, <2>3, Taken, ConcatEmptySeq
  <1>12. Lossless' = Lossless /\ NextToken' = NextToken
    BY <1>1 DEF Lossless, NextToken
  <1>13. Previewed'
    BY <1>1, <1>11, <1>12 DEF IInv, Previewed
  <1> QED
    BY <1>1, <1>3, <1>5, <1>6, <1>10, <1>13 DEF IInv, LossBounded, Binding, Started

LEMMA WakeDeltaStep ==
  ASSUME IInv, WakeDelta
  PROVE  IInv'
  <1>1. /\ TypeOK /\ mux.at = "wait" /\ getter # <<>> /\ Deliver(getter[1])
        /\ mux' = [at |-> "delta", graphDone |-> graph # "pending"]
        /\ UNCHANGED <<turn, stream, bridge, graph, getter>>
    BY DEF IInv, WakeDelta
  <1>2. /\ getter[1] \in Delta /\ getter = <<getter[1]>> /\ getter[1].n \in Nat
        /\ bridge.queue \in Seq(Delta) /\ getter \in Seq(Delta)
        /\ Q \in Nat /\ Len(got) \in Nat /\ bridge.emitted \in Nat
    BY <1>1, Facts
  <1>3. Skipping(getter[1].n) /\ getter[1].n = bridge.emitted - Q
    BY <1>1 DEF IInv, Conveyed
  <1>4. bridge.emitted = Len(got) + 1 + Q /\ getter[1].n = Len(got) + 1
    BY <1>2, <1>3 DEF Skipping
  <1>5. Lossless
    <2>1. \A i \in 1..Len(got) : got[i] = i
      <3> TAKE i \in 1..Len(got)
      <3>1. got[i] = (IF i < getter[1].n THEN i ELSE i + 1)
        BY <1>3 DEF Skipping
      <3> QED
        BY <1>2, <1>4, <3>1
    <2>2. [i \in 1..Len(got) |-> i] \in Seq(Nat) /\ Len([i \in 1..Len(got) |-> i]) = Len(got)
      BY <1>2
    <2> QED
      BY <1>1, <2>1, <2>2, Facts, SeqEqual DEF Lossless
  <1>6. /\ got' \in Seq(Nat) /\ Len(got') = Len(got) + 1 /\ Lossless'
        /\ client' \in [answer : Seq(Part), text : Seq(Part), hasText : BOOLEAN]
    BY <1>1, <1>2, <1>4, <1>5, Yielded
  <1>7. mux' \in [at : Places, graphDone : BOOLEAN] /\ mux'.at = "delta"
    BY <1>1 DEF Places
  <1>8. TypeOK'
    BY <1>1, <1>6, <1>7 DEF TypeOK
  <1>9. Handed'
    BY HandedStep DEF Next, Multiplex
  <1>10. Suffix'
    BY <1>1 DEF IInv, Suffix, Q
  <1>11. Conveyed'
    <2>1. bridge'.emitted = Len(got') + Q' /\ getter' # <<>>
      BY <1>1, <1>2, <1>4, <1>6 DEF Q
    <2>2. getter'[1].n \in Emissions'
      BY <1>1, <1>2, <1>4 DEF Emissions
    <2> QED
      BY <1>6, <1>7, <2>1, <2>2 DEF Conveyed, Prefix
  <1>12. Pipe # <<>> /\ Pipe[1] = getter[1] /\ Pipe' = Tail(Pipe)
    <2> DEFINE d == getter[1]
               u == bridge.queue
    <2>1. Pipe = <<d>> \o u /\ Pipe' = u
      BY <1>1, <1>2, <1>7 DEF Pipe
    <2>2. d \in Delta /\ u \in Seq(Delta)
      BY <1>2
    <2> HIDE DEF d, u
    <2>3. <<d>> \o u \in Seq(Delta) /\ Len(<<d>> \o u) = Len(u) + 1 /\ (<<d>> \o u)[1] = d
          /\ Len(u) \in Nat /\ \A i \in 1..Len(u) : (<<d>> \o u)[i + 1] = u[i]
      BY <2>2, One, Joined
    <2>4. <<d>> \o u # <<>>
      BY <2>3
    <2>5. u = Tail(<<d>> \o u)
      <3>1. /\ Tail(<<d>> \o u) \in Seq(Delta) /\ Len(Tail(<<d>> \o u)) = Len(u)
            /\ \A i \in 1..Len(u) : Tail(<<d>> \o u)[i] = (<<d>> \o u)[i + 1]
        BY <2>3, <2>4, Tailed
      <3> QED
        BY <2>2, <2>3, <3>1, SeqEqual
    <2> QED
      BY <2>1, <2>3, <2>4, <2>5 DEF d
  <1>13. Previewed'
    BY <1>1, <1>7, <1>12, Delivered DEF Ends
  <1>14. LossBounded' /\ Binding'
    BY <1>1, <1>7 DEF IInv, LossBounded, Binding
  <1>15. Started'
    BY <1>1, <1>2, <1>4 DEF Started
  <1> QED
    BY <1>8, <1>9, <1>10, <1>11, <1>13, <1>14, <1>15 DEF IInv

LEMMA DrainStep ==
  ASSUME IInv, Drain
  PROVE  IInv'
  <1> DEFINE d == Head(bridge.queue)
  <1>1. /\ TypeOK /\ Suffix /\ mux.at \in {"drain", "draining"} /\ bridge.queue # <<>> /\ Deliver(d)
        /\ bridge' = [bridge EXCEPT !.queue = Tail(@)] /\ mux' = [mux EXCEPT !.at = "draining"]
        /\ UNCHANGED <<turn, stream, graph, getter>>
    BY DEF IInv, Drain, Drained
  <1>2. /\ bridge' \in [queue : Seq(Delta), emitted : Nat, answered : BOOLEAN]
        /\ bridge'.queue = Tail(bridge.queue)
        /\ bridge'.emitted = bridge.emitted /\ bridge'.answered = bridge.answered
        /\ Suffix' /\ Q > 0 /\ Q' = Q - 1 /\ d \in Delta /\ d.n = bridge.emitted - Q + 1
        /\ d = bridge.queue[1]
    BY <1>1, Popped
  <1>3. /\ Q \in Nat /\ bridge.emitted \in Nat /\ Len(got) \in Nat
        /\ bridge.queue \in Seq(Delta) /\ getter \in Seq(Delta)
    BY <1>1, Facts
  <1> HIDE DEF d
  <1>4. /\ got' \in Seq(Nat) /\ Len(got') = Len(got) + 1
        /\ \A i \in 1..Len(got) : got'[i] = got[i]
        /\ got'[Len(got) + 1] = d.n
        /\ client' \in [answer : Seq(Part), text : Seq(Part), hasText : BOOLEAN]
        /\ Lossless' <=> Lossless /\ d.n = Len(got) + 1
    BY <1>1, <1>2, Yielded
  <1>5. mux' \in [at : Places, graphDone : BOOLEAN] /\ mux'.at = "draining"
    BY <1>1 DEF TypeOK, Places
  <1>6. TypeOK'
    BY <1>1, <1>2, <1>4, <1>5 DEF TypeOK
  <1>7. Handed'
    BY HandedStep DEF Next, Multiplex
  <1>8. LossBounded' /\ Binding'
    BY <1>1, <1>2, <1>5 DEF IInv, LossBounded, Binding
  <1>9. CASE getter = <<>>
    <2>1. Prefix
      BY <1>1, <1>9 DEF IInv, Conveyed
    <2>2. Lossless' /\ bridge'.emitted = Len(got') + Q'
      BY <1>2, <1>3, <1>4, <2>1 DEF Prefix
    <2>3. Conveyed'
      BY <1>1, <1>5, <1>9, <2>2 DEF Conveyed, Prefix
    <2>4. Pipe = bridge.queue /\ Pipe' = Tail(bridge.queue)
      <3>1. Tail(bridge.queue) \in Seq(Delta)
        BY <1>1, <1>3, Tailed
      <3>2. Pipe = <<>> \o bridge.queue /\ Pipe' = <<>> \o Tail(bridge.queue)
        BY <1>1, <1>2, <1>5, <1>9 DEF Pipe
      <3> QED
        BY <1>3, <3>1, <3>2, ConcatEmptySeq
    <2>5. Previewed'
      BY <1>1, <1>2, <1>5, <2>4, Delivered DEF Ends
    <2>6. Started'
      BY <1>2, <1>3, <2>1 DEF Started, Prefix
    <2> QED
      BY <1>2, <1>6, <1>7, <1>8, <2>3, <2>5, <2>6 DEF IInv
  <1>10. CASE getter # <<>>
    <2> DEFINE g == getter[1].n
    <2>1. Skipping(g) /\ getter' = getter
      BY <1>1, <1>10 DEF IInv, Conveyed
    <2>2. /\ g \in 1..bridge.emitted - Q /\ bridge.emitted = Len(got) + 1 + Q
          /\ \A i \in 1..Len(got) : got[i] = IF i < g THEN i ELSE i + 1
      BY <2>1 DEF Skipping
    <2> HIDE DEF g
    <2>3. d.n = Len(got) + 2 /\ g \in 1..Len(got) + 1 /\ g \in 1..bridge'.emitted - Q'
          /\ bridge'.emitted = Len(got') + 1 + Q'
      BY <1>2, <1>3, <1>4, <2>2
    <2>4. \A i \in 1..Len(got') : got'[i] = IF i < g THEN i ELSE i + 1
      <3> TAKE i \in 1..Len(got')
      <3>1. CASE i \in 1..Len(got)
        BY <1>4, <2>2, <3>1
      <3>2. CASE i = Len(got) + 1
        BY <1>3, <1>4, <2>3, <3>2
      <3> QED
        BY <1>3, <1>4, <3>1, <3>2
    <2>5. Skipping(getter[1].n)'
      BY <2>1, <2>3, <2>4 DEF Skipping, g
    <2>6. Conveyed'
      BY <1>5, <1>10, <2>1, <2>5 DEF Conveyed
    <2>7. ~Lossless'
      BY <1>3, <1>4, <2>3
    <2>8. Previewed' /\ Started'
      BY <1>2, <1>3, <2>2, <2>7 DEF Previewed, Started
    <2> QED
      BY <1>2, <1>6, <1>7, <1>8, <2>6, <2>8 DEF IInv
  <1> QED
    BY <1>9, <1>10

(* Steps that only move the multiplexer. *)
LEMMA Moved ==
  ASSUME IInv, UNCHANGED <<stream, bridge, got, client>>, turn'.node = turn.node,
         mux'.at \notin Ends \cup {"ended"} =>
           mux.at \notin Ends \cup {"ended"} /\ Pipe' = Pipe
  PROVE  Suffix' /\ Binding' /\ Started' /\ Previewed'
  <1>1. Suffix' /\ Binding' /\ Started'
    BY DEF IInv, Suffix, Q, Binding, Started
  <1>2. Lossless' = Lossless /\ NextToken' = NextToken
    BY DEF Lossless, NextToken
  <1> QED
    BY <1>1, <1>2 DEF IInv, Previewed

LEMMA ItemTaken ==
  ASSUME IInv, TakeItem, mux.at \in {"wait", "delta"}, graph # "pending"
  PROVE  /\ turn' \in [node : Nodes, items : Seq({"updates", "values"}), drafts : Nat, tries : Nat]
         /\ turn'.node = turn.node
         /\ graph' \in {"pending", "item", "over", "raised", "cancelled"}
         /\ mux' \in [at : Places, graphDone : BOOLEAN]
         /\ mux'.at \in {"wait", "hop", "drain", "failed"}
  <1>1. graph \in {"item", "over", "raised"} /\ (graph = "item" => turn.items # <<>>)
    BY DEF IInv, Handed, TypeOK
  <1>2. turn \in [node : Nodes, items : Seq({"updates", "values"}), drafts : Nat, tries : Nat]
    BY DEF IInv, TypeOK
  <1>3. CASE graph = "item"
    <2>1. Tail(turn.items) \in Seq({"updates", "values"})
      BY <1>1, <1>2, <1>3, HeadTailProperties
    <2>2. turn' = [turn EXCEPT !.items = Tail(@)]
      BY <1>3 DEF TakeItem
    <2>3. \/ mux' = [at |-> "hop", graphDone |-> FALSE] /\ UNCHANGED graph
          \/ mux' = [at |-> "wait", graphDone |-> FALSE] /\ graph' = "pending"
      BY <1>3 DEF TakeItem
    <2>4. /\ turn' \in [node : Nodes, items : Seq({"updates", "values"}), drafts : Nat, tries : Nat]
          /\ turn'.node = turn.node
      BY <1>2, <2>1, <2>2
    <2>5. /\ mux' \in [at : Places, graphDone : BOOLEAN] /\ mux'.at \in {"wait", "hop"}
          /\ graph' \in {"item", "pending"}
      <3>1. CASE mux' = [at |-> "hop", graphDone |-> FALSE] /\ UNCHANGED graph
        BY <1>3, <3>1 DEF Places
      <3>2. CASE mux' = [at |-> "wait", graphDone |-> FALSE] /\ graph' = "pending"
        BY <3>2 DEF Places
      <3> QED
        BY <2>3, <3>1, <3>2
    <2> QED
      BY <2>4, <2>5
  <1>4. CASE graph = "over"
    <2>1. mux' = [at |-> "drain", graphDone |-> FALSE] /\ UNCHANGED <<turn, graph>>
      BY <1>4 DEF TakeItem
    <2> QED
      BY <1>2, <1>4, <2>1 DEF Places
  <1>5. CASE graph = "raised"
    <2>1. mux' = [at |-> "failed", graphDone |-> FALSE] /\ UNCHANGED <<turn, graph>>
      BY <1>5 DEF TakeItem
    <2> QED
      BY <1>2, <1>5, <2>1 DEF Places
  <1> QED
    BY <1>1, <1>3, <1>4, <1>5

LEMMA WakeItemStep ==
  ASSUME IInv, WakeItem
  PROVE  IInv'
  <1>1. /\ TypeOK /\ mux.at = "wait" /\ getter = <<>> /\ graph # "pending" /\ TakeItem
        /\ UNCHANGED <<getter, stream, bridge, got, client>>
    BY DEF IInv, WakeItem, ItemKeepsGetter
  <1>2. /\ turn' \in [node : Nodes, items : Seq({"updates", "values"}), drafts : Nat, tries : Nat]
        /\ turn'.node = turn.node
        /\ graph' \in {"pending", "item", "over", "raised", "cancelled"}
        /\ mux' \in [at : Places, graphDone : BOOLEAN]
        /\ mux'.at \in {"wait", "hop", "drain", "failed"}
    BY <1>1, ItemTaken
  <1>3. TypeOK'
    BY <1>1, <1>2 DEF TypeOK
  <1>4. Handed'
    BY HandedStep DEF Next, Multiplex
  <1>5. Prefix /\ InOrder
    BY <1>1, Ordered DEF IInv, Conveyed
  <1>6. Conveyed'
    <2>1. Prefix' /\ InOrder'
      BY <1>1, <1>5 DEF Prefix, Lossless, Q, InOrder
    <2> QED
      BY <1>1, <1>2, <2>1 DEF Conveyed
  <1>7. Suffix' /\ Binding' /\ Started' /\ Previewed'
    BY <1>1, <1>2, Moved DEF Pipe, Ends
  <1>8. LossBounded'
    BY <1>2 DEF LossBounded
  <1> QED
    BY <1>3, <1>4, <1>6, <1>7, <1>8 DEF IInv

LEMMA AfterDeltaStep ==
  ASSUME IInv, AfterDelta
  PROVE  IInv'
  <1>1. /\ TypeOK /\ mux.at = "delta" /\ getter' = <<>>
        /\ UNCHANGED <<stream, bridge, got, client>>
    BY DEF IInv, AfterDelta
  <1>2. /\ turn' \in [node : Nodes, items : Seq({"updates", "values"}), drafts : Nat, tries : Nat]
        /\ turn'.node = turn.node
        /\ graph' \in {"pending", "item", "over", "raised", "cancelled"}
        /\ mux' \in [at : Places, graphDone : BOOLEAN]
        /\ mux'.at \in {"wait", "hop", "drain", "failed"}
    <2>1. CASE mux.graphDone /\ TakeItem
      BY <1>1, <2>1, ItemTaken DEF IInv, Handed
    <2>2. CASE mux' = [mux EXCEPT !.at = "wait"] /\ UNCHANGED <<turn, graph>>
      BY <1>1, <2>2 DEF TypeOK, Places
    <2> QED
      BY <2>1, <2>2 DEF AfterDelta
  <1>3. TypeOK'
    <2>1. getter' \in Seq(Delta) /\ Len(getter') <= 1
      BY <1>1
    <2> QED
      BY <1>1, <1>2, <2>1 DEF TypeOK
  <1>4. Handed'
    BY HandedStep DEF Next, Multiplex
  <1>5. Prefix /\ InOrder
    BY <1>1, Ordered DEF IInv, Conveyed
  <1>6. Conveyed'
    <2>1. Prefix' /\ InOrder'
      BY <1>1, <1>5 DEF Prefix, Lossless, Q, InOrder
    <2> QED
      BY <1>1, <1>2, <2>1 DEF Conveyed
  <1>7. Pipe' = Pipe
    <2>1. bridge.queue \in Seq(Delta)
      BY <1>1, Facts
    <2>2. Pipe = bridge.queue /\ Pipe' = <<>> \o bridge.queue
      BY <1>1, <1>2 DEF Pipe
    <2> QED
      BY <2>1, <2>2, ConcatEmptySeq
  <1>8. Suffix' /\ Binding' /\ Started' /\ Previewed'
    BY <1>1, <1>2, <1>7, Moved DEF Ends
  <1>9. LossBounded'
    BY <1>2 DEF LossBounded
  <1> QED
    BY <1>3, <1>4, <1>6, <1>8, <1>9 DEF IInv

LEMMA AfterHopStep ==
  ASSUME IInv, AfterHop
  PROVE  IInv'
  <1>1. /\ TypeOK /\ mux.at = "hop" /\ mux' = [mux EXCEPT !.at = "wait"] /\ graph' = "pending"
        /\ UNCHANGED <<getter, turn, stream, bridge, got, client>>
    BY DEF IInv, AfterHop, ItemKeepsGetter
  <1>2. mux' \in [at : Places, graphDone : BOOLEAN] /\ mux'.at = "wait"
    BY <1>1 DEF TypeOK, Places
  <1>3. TypeOK'
    BY <1>1, <1>2 DEF TypeOK
  <1>4. Handed'
    BY HandedStep DEF Next, Multiplex
  <1>5. Conveyed'
    BY <1>1, <1>2 DEF IInv, Conveyed, Prefix, Lossless, Skipping, Q
  <1>6. Suffix' /\ Binding' /\ Started' /\ Previewed'
    BY <1>1, <1>2, Moved DEF Pipe, Ends
  <1>7. LossBounded'
    BY <1>2 DEF LossBounded
  <1> QED
    BY <1>3, <1>4, <1>5, <1>6, <1>7 DEF IInv

LEMMA DrainEndsStep ==
  ASSUME IInv, DrainEnds
  PROVE  IInv'
  <1>1. /\ TypeOK /\ mux.at \in {"drain", "draining"} /\ bridge.queue = <<>>
        /\ mux' = [mux EXCEPT !.at = "ended"] /\ getter' = <<>>
        /\ UNCHANGED <<turn, stream, bridge, graph, got, client>>
    BY DEF IInv, DrainEnds, Drained
  <1>2. mux' \in [at : Places, graphDone : BOOLEAN] /\ mux'.at = "ended"
    BY <1>1 DEF TypeOK, Places
  <1>3. TypeOK'
    <2>1. getter' \in Seq(Delta) /\ Len(getter') <= 1
      BY <1>1
    <2> QED
      BY <1>1, <1>2, <2>1 DEF TypeOK
  <1>4. Handed'
    BY HandedStep DEF Next, Multiplex
  <1>5. Prefix \/ Skipping(getter[1].n)
    BY <1>1 DEF IInv, Conveyed
  <1>6. InOrder
    BY <1>1, <1>5, Ordered
  <1>7. Conveyed'
    BY <1>1, <1>2, <1>6 DEF Conveyed, InOrder
  <1>8. LossBounded'
    <2>1. Q = 0 /\ Len(got) \in Nat /\ bridge.emitted \in Nat
      BY <1>1, Facts DEF Q
    <2>2. Len(got) + 1 >= bridge.emitted
      BY <1>5, <2>1 DEF Prefix, Skipping
    <2> QED
      BY <1>1, <2>2 DEF LossBounded
  <1>9. Suffix' /\ Binding' /\ Started' /\ Previewed'
    BY <1>1, <1>2, Moved DEF Ends
  <1> QED
    BY <1>3, <1>4, <1>7, <1>8, <1>9 DEF IInv

LEMMA ResultStep ==
  ASSUME IInv, Result
  PROVE  IInv'
  <1>1. /\ TypeOK /\ mux.at = "ended" /\ mux' = [mux EXCEPT !.at = "done"]
        /\ UNCHANGED <<turn, stream, bridge, graph, getter, got, client>>
    BY DEF IInv, Result
  <1>2. mux' \in [at : Places, graphDone : BOOLEAN] /\ mux'.at = "done"
    BY <1>1 DEF TypeOK, Places
  <1>3. TypeOK'
    BY <1>1, <1>2 DEF TypeOK
  <1>4. Handed'
    BY HandedStep DEF Next, Multiplex
  <1>5. Conveyed' /\ LossBounded'
    BY <1>1, <1>2 DEF IInv, Conveyed, InOrder, LossBounded
  <1>6. Suffix' /\ Binding' /\ Started' /\ Previewed'
    BY <1>1, <1>2, Moved DEF Ends
  <1> QED
    BY <1>3, <1>4, <1>5, <1>6 DEF IInv

LEMMA DisconnectStep ==
  ASSUME IInv, Disconnect
  PROVE  IInv'
  <1>1. /\ TypeOK /\ LoopFree /\ mux' = [mux EXCEPT !.at = "closed"]
        /\ graph' = "cancelled" /\ getter' = <<>>
        /\ UNCHANGED <<turn, stream, bridge, got, client>>
    BY DEF IInv, Disconnect
  <1>2. mux' \in [at : Places, graphDone : BOOLEAN] /\ mux'.at = "closed"
    BY <1>1 DEF TypeOK, Places
  <1>3. TypeOK'
    <2>1. getter' \in Seq(Delta) /\ Len(getter') <= 1
      BY <1>1
    <2> QED
      BY <1>1, <1>2, <2>1 DEF TypeOK
  <1>4. Handed'
    BY HandedStep DEF Next
  <1>5. InOrder
    <2>1. Prefix \/ Skipping(getter[1].n)
      BY <1>1 DEF IInv, Conveyed, LoopFree
    <2> QED
      BY <1>1, <2>1, Ordered
  <1>6. Conveyed' /\ LossBounded'
    BY <1>1, <1>2, <1>5 DEF Conveyed, InOrder, LossBounded
  <1>7. Suffix' /\ Binding' /\ Started' /\ Previewed'
    BY <1>1, <1>2, Moved DEF Ends
  <1> QED
    BY <1>3, <1>4, <1>6, <1>7 DEF IInv

-----------------------------------------------------------------------------
(* The theorems. *)

LEMMA InitHolds == Init => IInv
  <1> SUFFICES ASSUME Init
               PROVE  IInv
    OBVIOUS
  <1>1. TypeOK
    <2>1. /\ <<>> \in Seq(Delta) /\ Len(<<>>) <= 1 /\ <<>> \in Seq(Nat) /\ <<>> \in Seq(Part)
          /\ <<"values">> \in Seq({"updates", "values"})
      OBVIOUS
    <2> QED
      BY <2>1 DEF Init, TypeOK, Nodes, Places
  <1>2. Q = 0 /\ Len(got) = 0 /\ bridge.emitted = 0 /\ getter = <<>>
    BY DEF Init, Q
  <1>3. Suffix /\ Prefix
    <2>1. [i \in 1..0 |-> i] = <<>>
      OBVIOUS
    <2> QED
      BY <1>2, <2>1 DEF Init, Suffix, Prefix, Lossless
  <1>4. Conveyed /\ LossBounded /\ Handed
    BY <1>2, <1>3 DEF Init, Conveyed, LossBounded, Handed
  <1>5. Binding /\ Started
    BY DEF Init, Binding, Started
  <1>6. Previewed
    <2>1. Pipe = <<>> /\ client.answer = <<>>
      BY <1>1, <1>2, Facts, ConcatEmptySeq DEF Init, Pipe
    <2>2. OneDraft(<<>>) /\ Chained(<<>>, <<>>)
      BY DEF OneDraft, Chained
    <2> QED
      BY <2>1, <2>2 DEF Init, Previewed
  <1> QED
    BY <1>1, <1>3, <1>4, <1>5, <1>6 DEF IInv

LEMMA Step == IInv /\ [Next]_vars => IInv'
  <1> SUFFICES ASSUME IInv, [Next]_vars
               PROVE  IInv'
    OBVIOUS
  <1>1. CASE Worker \/ Critic \/ FormatterDirect \/ FormatterStream
    BY <1>1, WorkerStep, CriticStep, FormatterDirectStep, FormatterStreamStep
  <1>2. CASE Token \/ NextProvider \/ StreamEnds \/ GraphAnswers
    BY <1>2, TokenStep, NextProviderStep, StreamEndsStep, GraphAnswersStep
  <1>3. CASE WakeDelta \/ WakeItem \/ AfterDelta \/ AfterHop
    BY <1>3, WakeDeltaStep, WakeItemStep, AfterDeltaStep, AfterHopStep
  <1>4. CASE Drain \/ DrainEnds \/ Result
    BY <1>4, DrainStep, DrainEndsStep, ResultStep
  <1>5. CASE WatchDue \/ Fallback \/ GetterTakes \/ Disconnect
    BY <1>5, WatchDueStep, FallbackStep, GetterTakesStep, DisconnectStep
  <1>6. CASE UNCHANGED vars
    <2>1. UNCHANGED <<turn, stream, bridge, graph, getter, mux, got, client>>
      BY <1>6 DEF vars
    <2>2. TypeOK' /\ Handed' /\ Binding' /\ NextToken' = NextToken
      BY <2>1 DEF IInv, TypeOK, Handed, Binding, NextToken
    <2>3. Previewed'
      BY <2>1, <2>2, Quiet DEF IInv, Previewed
    <2> QED
      BY <2>1, <2>2, <2>3, Quiet DEF IInv
  <1> QED
    BY <1>1, <1>2, <1>3, <1>4, <1>5, <1>6 DEF Next, Produce, Multiplex

(* Whatever the nodes, the watch, the graph and the reader do, the queue holds the
   last emissions, what was yielded is all the rest but for what the getter holds,
   and what is on its way goes on from what the client shows. *)
THEOREM InvariantHolds == Spec => []IInv
  BY InitHolds, Step, PTL DEF Spec

LEMMA NumbersOf ==
  ASSUME NEW s, NEW m
  PROVE  m \in Numbers(s) <=> \E i \in DOMAIN s : s[i].n = m
  BY DEF Numbers

LEMMA LastNumbers ==
  ASSUME NEW q \in Nat, NEW e \in Nat, q <= e, NEW m
  PROVE  (\E i \in 1..q : m = e - q + i) <=> m \in e - q + 1..e
  <1>1. ASSUME m \in e - q + 1..e
        PROVE  \E i \in 1..q : m = e - q + i
    <2>1. m - (e - q) \in 1..q /\ m = e - q + (m - (e - q))
      BY <1>1
    <2> QED
      BY <2>1
  <1>2. ASSUME NEW i \in 1..q, m = e - q + i
        PROVE  m \in e - q + 1..e
    BY <1>2
  <1> QED
    BY <1>1, <1>2

LEMMA KeptFollows == IInv => NothingDropped
  <1> SUFFICES ASSUME IInv
               PROVE  NothingDropped
    OBVIOUS
  <1> USE DEF IInv
  <1>1. InOrder
    <2>1. Prefix \/ Skipping(getter[1].n) \/ InOrder
      BY DEF Conveyed
    <2> QED
      BY <2>1, Ordered
  <1>2. ASSUME mux.at \notin Ends \cup {"ended"}
        PROVE  ToSet(got) \cup Numbers(bridge.queue) \cup Numbers(getter) = Emissions
    <2> DEFINE E == bridge.emitted
               L == Len(got)
    <2>1. /\ Q \in Nat /\ E \in Nat /\ L \in Nat /\ got \in Seq(Nat)
          /\ bridge.queue \in Seq(Delta) /\ getter \in Seq(Delta)
      BY Facts
    <2>2. DOMAIN got = 1..L /\ DOMAIN bridge.queue = 1..Q
      BY <2>1, LenProperties DEF Q
    <2>3. Q <= E
      <3>1. Prefix \/ Skipping(getter[1].n)
        BY <1>2 DEF Conveyed, TypeOK, Places, Ends
      <3> QED
        BY <2>1, <3>1 DEF Prefix, Skipping
    <2> HIDE DEF E, L
    <2>4. \A m : m \in Numbers(bridge.queue) <=> m \in E - Q + 1..E
      <3> TAKE m
      <3>1. \A i \in 1..Q : bridge.queue[i].n = E - Q + i
        BY DEF Suffix, E
      <3>2. m \in Numbers(bridge.queue) <=> \E i \in 1..Q : bridge.queue[i].n = m
        BY <2>2, NumbersOf
      <3>3. (\E i \in 1..Q : m = E - Q + i) <=> m \in E - Q + 1..E
        BY <2>1, <2>3, LastNumbers
      <3> QED
        BY <3>1, <3>2, <3>3
    <2>5. CASE Prefix
      <3>1. \A m : m \in ToSet(got) <=> m \in 1..L
        <4>1. \A i \in 1..L : got[i] = i
          BY <2>5 DEF Prefix, Lossless, L
        <4> QED
          BY <2>2, <4>1 DEF ToSet
      <3>2. E = L + Q
        BY <2>5 DEF Prefix, E, L
      <3>3. getter = <<>> \/ Numbers(getter) \subseteq Emissions
        <4>1. ASSUME getter # <<>>
              PROVE  getter[1].n \in Emissions
          <5>1. CASE mux.at = "delta"
            BY <5>1 DEF Conveyed
          <5>2. CASE mux.at # "delta"
            <6>1. Skipping(getter[1].n)
              BY <1>2, <4>1, <5>2 DEF Conveyed, TypeOK, Places, Ends
            <6> QED
              BY <2>1, <6>1 DEF Skipping, Emissions, E
          <5> QED
            BY <5>1, <5>2
        <4>2. getter # <<>> => getter = <<getter[1]>>
          BY Facts
        <4>3. getter # <<>> => DOMAIN getter = {1}
          BY <4>2
        <4> QED
          BY <4>1, <4>3 DEF Numbers
      <3>4. getter = <<>> => Numbers(getter) = {}
        BY DEF Numbers
      <3>5. \A m : m \in Emissions <=> m \in 1..L \/ m \in E - Q + 1..E
        BY <2>1, <2>3, <3>2 DEF Emissions, E
      <3> QED
        BY <2>4, <3>1, <3>3, <3>4, <3>5
    <2>6. CASE ~Prefix
      <3> DEFINE g == getter[1].n
      <3>1. Skipping(g) /\ getter # <<>>
        BY <1>2, <2>6 DEF Conveyed, TypeOK, Places, Ends
      <3>2. /\ g \in 1..E - Q /\ E = L + 1 + Q
            /\ \A i \in 1..L : got[i] = IF i < g THEN i ELSE i + 1
        BY <3>1 DEF Skipping, E, L
      <3>3. Numbers(getter) = {g}
        <4>1. getter = <<getter[1]>>
          BY <3>1, Facts
        <4>2. DOMAIN getter = {1}
          BY <4>1
        <4> QED
          BY <4>2 DEF Numbers
      <3> HIDE DEF g
      <3>4. \A m : m \in ToSet(got) <=> m \in (1..L + 1) \ {g}
        <4> TAKE m
        <4>1. m \in ToSet(got) <=> \E i \in 1..L : got[i] = m
          BY <2>2 DEF ToSet
        <4>2. ASSUME m \in (1..L + 1) \ {g}
              PROVE  \E i \in 1..L : got[i] = m
          <5>1. CASE m < g
            <6>1. m \in 1..L
              BY <2>1, <3>2, <4>2, <5>1
            <6> QED
              BY <3>2, <5>1, <6>1
          <5>2. CASE ~(m < g)
            <6>1. m - 1 \in 1..L /\ ~(m - 1 < g) /\ m = m - 1 + 1
              BY <2>1, <3>2, <4>2, <5>2
            <6> QED
              BY <3>2, <6>1
          <5> QED
            BY <5>1, <5>2
        <4>3. ASSUME NEW i \in 1..L, got[i] = m
              PROVE  m \in (1..L + 1) \ {g}
          <5>1. got[i] = IF i < g THEN i ELSE i + 1
            BY <3>2
          <5> QED
            BY <2>1, <3>2, <4>3, <5>1
        <4> QED
          BY <4>1, <4>2, <4>3
      <3>5. \A m : m \in Emissions <=> m \in 1..L + 1 \/ m \in E - Q + 1..E
        BY <2>1, <2>3, <3>2 DEF Emissions, E
      <3>6. g \in 1..L + 1
        BY <2>1, <3>2
      <3> QED
        BY <2>4, <3>3, <3>4, <3>5, <3>6
    <2> QED
      BY <2>5, <2>6
  <1> QED
    BY <1>1, <1>2 DEF NothingDropped

(* Deltas are yielded in the order they were emitted, none twice, and until the
   stream ends each is yielded, queued or in the getter's hand. *)
THEOREM Kept == Spec => []NothingDropped
  <1>1. IInv => NothingDropped
    BY KeptFollows
  <1> QED
    BY InvariantHolds, <1>1, PTL

(* A turn that ends with its result lost at most the one delta the get took while
   the bridge was drained. *)
THEOREM LosesOne == Spec => []LossBounded
  <1>1. IInv => LossBounded
    BY DEF IInv
  <1> QED
    BY InvariantHolds, <1>1, PTL

(* The answer the client previews is the beginning of one draft, as long as the
   drain lost nothing and no provider failed after it had begun to answer. *)
THEOREM OnePreview == Spec => []ShownIsOneDraft
  <1>1. IInv => ShownIsOneDraft
    BY DEF IInv, Previewed, ShownIsOneDraft
  <1> QED
    BY InvariantHolds, <1>1, PTL
=============================================================================
