---------------------------- MODULE ClientProofs ----------------------------
(***************************************************************************)
(* Theorems about Client: whenever nothing is on its way, the application  *)
(* is in step with the network task and the server, lists included; and    *)
(* only the character a question named is deleted.  They hold for every    *)
(* number of keys and characters, and for both drivers.                    *)
(***************************************************************************)
EXTENDS Client, Integers, SequenceTheorems, TLAPS

(* The elements of a queue before and after one is added, and before and   *)
(* after the first one is taken.                                           *)
LEMMA OneMore ==
    ASSUME NEW S, NEW q \in Seq(S), NEW m \in S
    PROVE  /\ Append(q, m) \in Seq(S) /\ q \o <<m>> = Append(q, m)
           /\ Len(q) \in Nat /\ Len(Append(q, m)) = Len(q) + 1
           /\ DOMAIN q = 1 .. Len(q) /\ DOMAIN Append(q, m) = 1 .. Len(q) + 1
           /\ \A k \in 1 .. Len(q) : Append(q, m)[k] = q[k]
           /\ Append(q, m)[Len(q) + 1] = m
  <1>1. /\ Append(q, m) \in Seq(S) /\ Len(Append(q, m)) = Len(q) + 1
        /\ \A k \in 1 .. Len(q) : Append(q, m)[k] = q[k]
        /\ Append(q, m)[Len(q) + 1] = m
    BY AppendProperties
  <1>2. q \o <<m>> = Append(q, m)
    BY AppendIsConcat
  <1>3. /\ Len(q) \in Nat /\ DOMAIN q = 1 .. Len(q)
        /\ DOMAIN Append(q, m) = 1 .. Len(Append(q, m))
    BY <1>1, LenProperties
  <1> QED
    BY <1>1, <1>2, <1>3

(* A queue without its first element, which is of the same type *)
LEMMA OneLess ==
    ASSUME NEW S, NEW q \in Seq(S), q # <<>>
    PROVE  /\ Head(q) = q[1] /\ Head(q) \in S /\ Tail(q) \in Seq(S)
           /\ Len(q) \in Nat \ {0} /\ Len(Tail(q)) = Len(q) - 1
           /\ DOMAIN q = 1 .. Len(q) /\ DOMAIN Tail(q) = 1 .. Len(q) - 1
           /\ \A k \in 1 .. Len(q) - 1 : Tail(q)[k] = q[k + 1]
           /\ \A k \in 2 .. Len(q) : k - 1 \in 1 .. Len(q) - 1 /\ Tail(q)[k - 1] = q[k]
  <1> DEFINE r == Tail(q)
  <1>1. /\ Head(q) \in S /\ r \in Seq(S) /\ Len(r) = Len(q) - 1
        /\ \A k \in 1 .. Len(r) : r[k] = q[k + 1]
    BY HeadTailProperties
  <1>2. Len(q) \in Nat \ {0} /\ Head(q) = q[1]
    BY EmptySeq
  <1>3. DOMAIN q = 1 .. Len(q) /\ DOMAIN r = 1 .. Len(q) - 1
    BY <1>1, LenProperties
  <1> HIDE DEF r
  <1>4. \A k \in 1 .. Len(q) - 1 : r[k] = q[k + 1]
    BY <1>1
  <1>5. ASSUME NEW k \in 2 .. Len(q) PROVE k - 1 \in 1 .. Len(q) - 1 /\ r[k - 1] = q[k]
    <2>1. k - 1 \in 1 .. Len(q) - 1 /\ (k - 1) + 1 = k
      BY <1>2
    <2> QED
      BY <1>4, <2>1
  <1> QED
    BY <1>1, <1>2, <1>3, <1>4, <1>5 DEF r

(* The list without a character is a list, and holds no character twice    *)
(* when the list does not.                                                 *)
LEMMA WithoutType ==
    ASSUME NEW S, NEW q \in Seq(S), NEW i
    PROVE  /\ Without(q, i) \in Seq(S)
           /\ ~Twice(q) => ~Twice(Without(q, i))
           /\ \A k \in DOMAIN Without(q, i) : \E j \in DOMAIN q : Without(q, i)[k] = q[j]
  <1>1. CASE ~Contains(q, i)
    BY <1>1 DEF Without
  <1>2. CASE Contains(q, i)
    <2> DEFINE n == CHOOSE k \in DOMAIN q : q[k] = i
               a == SubSeq(q, 1, n - 1)
               b == SubSeq(q, n + 1, Len(q))
    <2>1. n \in 1 .. Len(q) /\ Len(q) \in Nat
      BY <1>2, LenProperties DEF Contains
    <2> HIDE DEF n
    <2>2. \A k \in 1 .. Len(q) : q[k] \in S
      BY ElementOfSeq
    <2>3. /\ a \in Seq(S) /\ Len(a) = n - 1
          /\ \A k \in 1 .. n - 1 : a[k] = q[k]
      <3>1. \A k \in 1 .. n - 1 : q[k] \in S
        BY <2>1, <2>2
      <3>2. /\ a \in Seq(S) /\ Len(a) = IF 1 <= n - 1 THEN n - 1 - 1 + 1 ELSE 0
            /\ \A k \in 1 .. n - 1 - 1 + 1 : a[k] = q[1 + k - 1]
        BY <2>1, <3>1, SubSeqProperties
      <3> HIDE DEF a
      <3> QED
        BY <2>1, <3>2
    <2>4. /\ b \in Seq(S) /\ Len(b) = Len(q) - n
          /\ \A k \in 1 .. Len(q) - n : b[k] = q[n + k]
      <3>1. \A k \in n + 1 .. Len(q) : q[k] \in S
        BY <2>1, <2>2
      <3>2. /\ b \in Seq(S)
            /\ Len(b) = IF n + 1 <= Len(q) THEN Len(q) - (n + 1) + 1 ELSE 0
            /\ \A k \in 1 .. Len(q) - (n + 1) + 1 : b[k] = q[(n + 1) + k - 1]
        BY <2>1, <3>1, SubSeqProperties
      <3> HIDE DEF b
      <3>3. \A k \in 1 .. Len(q) - n : (n + 1) + k - 1 = n + k
        BY <2>1
      <3> QED
        BY <2>1, <3>2, <3>3
    <2> HIDE DEF a, b
    <2> DEFINE r == a \o b
    <2>5. /\ r \in Seq(S) /\ Len(r) = Len(q) - 1
          /\ \A k \in 1 .. Len(q) - 1 : r[k] = IF k < n THEN q[k] ELSE q[k + 1]
      <3>1. /\ r \in Seq(S) /\ Len(r) = Len(a) + Len(b)
            /\ \A k \in 1 .. Len(a) + Len(b) :
                r[k] = IF k <= Len(a) THEN a[k] ELSE b[k - Len(a)]
        BY <2>3, <2>4, ConcatProperties
      <3> HIDE DEF r
      <3>2. ASSUME NEW k \in 1 .. Len(q) - 1
            PROVE  r[k] = IF k < n THEN q[k] ELSE q[k + 1]
        <4>1. CASE k < n
          <5>1. k \in 1 .. n - 1 /\ k \in 1 .. Len(a) + Len(b) /\ k <= Len(a)
            BY <2>1, <2>3, <2>4, <4>1
          <5>2. r[k] = a[k]
            BY <3>1, <5>1
          <5> QED
            BY <2>3, <4>1, <5>1, <5>2
        <4>2. CASE ~(k < n)
          <5>1. k - (n - 1) \in 1 .. Len(q) - n /\ n + (k - (n - 1)) = k + 1
            BY <2>1, <4>2
          <5>2. r[k] = b[k - (n - 1)]
            BY <2>1, <2>3, <2>4, <3>1, <4>2
          <5>3. b[k - (n - 1)] = q[n + (k - (n - 1))]
            BY <2>4, <5>1
          <5> QED
            BY <4>2, <5>1, <5>2, <5>3
        <4> QED
          BY <4>1, <4>2
      <3> QED
        BY <2>1, <2>3, <2>4, <3>1, <3>2
    <2>6. Without(q, i) = r
      BY <1>2 DEF Without, RemoveAt, n, a, b
    <2> HIDE DEF r
    <2>7. DOMAIN r = 1 .. Len(q) - 1 /\ DOMAIN q = 1 .. Len(q)
      BY <2>5, LenProperties
    <2>8. ASSUME NEW k \in DOMAIN r PROVE \E j \in DOMAIN q : r[k] = q[j]
      BY <2>1, <2>5, <2>7, <2>8
    <2>9. ASSUME NEW j \in DOMAIN r, NEW k \in DOMAIN r, j # k, r[j] = r[k] PROVE Twice(q)
      <3> DEFINE At(x) == IF x < n THEN x ELSE x + 1
      <3>1. /\ At(j) \in DOMAIN q /\ At(k) \in DOMAIN q /\ At(j) # At(k)
            /\ r[j] = q[At(j)] /\ r[k] = q[At(k)]
        BY <2>1, <2>5, <2>7, <2>9
      <3> HIDE DEF At
      <3> QED
        BY <2>9, <3>1 DEF Twice
    <2> QED
      BY <2>5, <2>6, <2>8, <2>9 DEF Twice
  <1> QED
    BY <1>1, <1>2
------------------------------------------------------------------------------
(* What a message does to a list, and the lists that a queue of messages   *)
(* leads through, from the one shown to the one it ends with.              *)
Neutral(m) == m.kind \notin {"CharacterList", "CharacterCreated", "CharacterDeleted"}

Effect(m, q) ==
    IF m.kind = "CharacterList" THEN m.list
    ELSE IF m.kind = "CharacterCreated" THEN Append(q, m.id)
    ELSE IF m.kind = "CharacterDeleted" THEN Without(q, m.id) ELSE q

Leads(a, q, b) ==
    \E L \in [0 .. Len(q) -> Seq(Ids)] :
        /\ L[0] = a /\ L[Len(q)] = b
        /\ \A k \in 1 .. Len(q) : L[k] = Effect(q[k], L[k - 1])
        /\ \A k \in 0 .. Len(q) :
            /\ ~Twice(L[k])
            /\ (\A j \in k + 1 .. Len(q) : Neutral(q[j])) => L[k] = b

(* No message leads nowhere. *)
LEMMA LeadsNone ==
    ASSUME NEW a \in Seq(Ids), NEW b
    PROVE  /\ ~Twice(a) => Leads(a, <<>>, a)
           /\ Leads(a, <<>>, b) => a = b
  <1>1. Len(<<>>) = 0
    OBVIOUS
  <1>2. ASSUME ~Twice(a) PROVE Leads(a, <<>>, a)
    <2> DEFINE L == [k \in 0 .. 0 |-> a]
    <2>1. L \in [0 .. 0 -> Seq(Ids)] /\ \A k \in 0 .. 0 : L[k] = a
      OBVIOUS
    <2>2. L[0] = a /\ \A k \in 1 .. 0 : FALSE
      BY <2>1
    <2> HIDE DEF L
    <2> QED
      BY <1>1, <1>2, <2>1, <2>2 DEF Leads
  <1> QED
    BY <1>1, <1>2 DEF Leads

(* One more message leads one list further. *)
LEMMA LeadsMore ==
    ASSUME NEW a, NEW b, NEW q \in Seq(Messages), NEW m \in Messages,
           Leads(a, q, b), Effect(m, b) \in Seq(Ids), ~Twice(Effect(m, b))
    PROVE  Leads(a, Append(q, m), Effect(m, b))
  <1> DEFINE n == Len(q)
             c == Effect(m, b)
             r == Append(q, m)
  <1>1. PICK L \in [0 .. n -> Seq(Ids)] :
            /\ L[0] = a /\ L[n] = b
            /\ \A k \in 1 .. n : L[k] = Effect(q[k], L[k - 1])
            /\ \A k \in 0 .. n :
                /\ ~Twice(L[k])
                /\ (\A j \in k + 1 .. n : Neutral(q[j])) => L[k] = b
    BY DEF Leads
  <1>2. n \in Nat /\ Len(r) = n + 1 /\ r[n + 1] = m /\ \A k \in 1 .. n : r[k] = q[k]
    BY OneMore
  <1>3. Neutral(m) => c = b
    BY DEF Neutral, Effect
  <1> DEFINE M == [k \in 0 .. n + 1 |-> IF k = n + 1 THEN c ELSE L[k]]
  <1>4. M \in [0 .. n + 1 -> Seq(Ids)]
    BY <1>1, <1>2
  <1>5. M[n + 1] = c /\ \A k \in 0 .. n : M[k] = L[k]
    BY <1>2
  <1>c. c \in Seq(Ids) /\ ~Twice(c)
    OBVIOUS
  <1>e. c = Effect(m, b)
    OBVIOUS
  <1> HIDE DEF M, n, c, r
  <1>6. M[0] = a
    BY <1>1, <1>2, <1>5
  <1>7. ASSUME NEW k \in 1 .. n + 1 PROVE M[k] = Effect(r[k], M[k - 1])
    <2>1. CASE k = n + 1
      <3>1. k - 1 = n /\ n \in 0 .. n
        BY <1>2, <2>1
      <3> QED
        BY <1>1, <1>2, <1>5, <1>e, <2>1, <3>1
    <2>2. CASE k # n + 1
      <3>1. k \in 1 .. n /\ k - 1 \in 0 .. n /\ k \in 0 .. n
        BY <1>2, <2>2
      <3> QED
        BY <1>1, <1>2, <1>5, <3>1
    <2> QED
      BY <2>1, <2>2
  <1>8. ASSUME NEW k \in 0 .. n + 1 PROVE ~Twice(M[k])
    <2>1. k \in 0 .. n \/ k = n + 1
      BY <1>2
    <2> QED
      BY <1>1, <1>5, <1>c, <2>1
  <1>9. ASSUME NEW k \in 0 .. n + 1, \A j \in k + 1 .. n + 1 : Neutral(r[j])
        PROVE  M[k] = c
    <2>1. CASE k = n + 1
      BY <1>5, <2>1
    <2>2. CASE k # n + 1
      <3>1. k \in 0 .. n /\ n + 1 \in k + 1 .. n + 1
        BY <1>2, <2>2
      <3>2. \A j \in k + 1 .. n : j \in k + 1 .. n + 1 /\ j \in 1 .. n
        BY <1>2, <3>1
      <3>3. \A j \in k + 1 .. n : Neutral(q[j])
        BY <1>2, <1>9, <3>2
      <3>4. L[k] = b
        BY <1>1, <3>1, <3>3
      <3>5. Neutral(m)
        BY <1>2, <1>9, <3>1
      <3> QED
        BY <1>3, <1>5, <3>1, <3>4, <3>5
    <2> QED
      BY <2>1, <2>2
  <1>10. Leads(a, r, c)
    BY <1>2, <1>4, <1>5, <1>6, <1>7, <1>8, <1>9 DEF Leads
  <1> QED
    BY <1>10 DEF r, c

(* The first message leads to a list of the way, and the rest leads on     *)
(* from there.                                                             *)
LEMMA LeadsLess ==
    ASSUME NEW a, NEW b, NEW q \in Seq(Messages), q # <<>>, Leads(a, q, b)
    PROVE  /\ Leads(Effect(Head(q), a), Tail(q), b)
           /\ Effect(Head(q), a) \in Seq(Ids) /\ ~Twice(Effect(Head(q), a))
  <1> DEFINE n == Len(q)
             c == Effect(Head(q), a)
             r == Tail(q)
  <1>1. PICK L \in [0 .. n -> Seq(Ids)] :
            /\ L[0] = a /\ L[n] = b
            /\ \A k \in 1 .. n : L[k] = Effect(q[k], L[k - 1])
            /\ \A k \in 0 .. n :
                /\ ~Twice(L[k])
                /\ (\A j \in k + 1 .. n : Neutral(q[j])) => L[k] = b
    BY DEF Leads
  <1>2. /\ n \in Nat \ {0} /\ Len(r) = n - 1 /\ Head(q) = q[1]
        /\ \A k \in 1 .. n - 1 : r[k] = q[k + 1]
        /\ \A k \in 2 .. n : k - 1 \in 1 .. n - 1 /\ r[k - 1] = q[k]
    BY OneLess
  <1> DEFINE M == [k \in 0 .. n - 1 |-> L[k + 1]]
  <1>3. \A k \in 0 .. n - 1 : k + 1 \in 0 .. n
    BY <1>2
  <1>4. M \in [0 .. n - 1 -> Seq(Ids)] /\ \A k \in 0 .. n - 1 : M[k] = L[k + 1]
    BY <1>1, <1>3
  <1>e. c = Effect(Head(q), a)
    OBVIOUS
  <1> HIDE DEF M, n, c, r
  <1>5. c = L[1] /\ 1 \in 0 .. n
    <2>1. 1 \in 1 .. n /\ 1 - 1 = 0 /\ 1 \in 0 .. n
      BY <1>2
    <2>2. L[1] = Effect(q[1], L[0])
      BY <1>1, <2>1
    <2> QED
      BY <1>1, <1>2, <1>e, <2>1, <2>2
  <1>6. M[0] = c /\ M[n - 1] = b
    BY <1>1, <1>2, <1>4, <1>5
  <1>7. ASSUME NEW k \in 1 .. n - 1 PROVE M[k] = Effect(r[k], M[k - 1])
    <2>1. k + 1 \in 1 .. n /\ k - 1 \in 0 .. n - 1 /\ k \in 0 .. n - 1
          /\ (k - 1) + 1 = k /\ (k + 1) - 1 = k
      BY <1>2
    <2>2. L[k + 1] = Effect(q[k + 1], L[k])
      BY <1>1, <2>1
    <2>3. M[k] = L[k + 1] /\ M[k - 1] = L[k]
      BY <1>4, <2>1
    <2> QED
      BY <1>2, <2>2, <2>3
  <1>8. ASSUME NEW k \in 0 .. n - 1 PROVE ~Twice(M[k])
    BY <1>1, <1>3, <1>4
  <1>9. ASSUME NEW k \in 0 .. n - 1, \A j \in k + 1 .. n - 1 : Neutral(r[j])
        PROVE  M[k] = b
    <2>1. ASSUME NEW j \in (k + 1) + 1 .. n PROVE Neutral(q[j])
      <3>1. j - 1 \in k + 1 .. n - 1 /\ j \in 2 .. n
        BY <1>2
      <3> QED
        BY <1>2, <1>9, <3>1
    <2>2. k + 1 \in 0 .. n
      BY <1>2
    <2>3. L[k + 1] = b
      BY <1>1, <2>1, <2>2
    <2> QED
      BY <1>4, <2>3
  <1>10. Leads(c, r, b)
    BY <1>2, <1>4, <1>6, <1>7, <1>8, <1>9 DEF Leads
  <1>11. c \in Seq(Ids) /\ ~Twice(c)
    BY <1>1, <1>5
  <1> QED
    BY <1>10, <1>11 DEF r, c

(* Messages that change no list lead back to it. *)
LEMMA LeadsStill ==
    ASSUME NEW a, NEW b, NEW q \in Seq(Messages), Leads(a, q, b),
           \A k \in DOMAIN q : Neutral(q[k])
    PROVE  a = b
  <1>1. Len(q) \in Nat /\ DOMAIN q = 1 .. Len(q)
    BY LenProperties
  <1>2. 0 \in 0 .. Len(q) /\ \A j \in 0 + 1 .. Len(q) : Neutral(q[j])
    BY <1>1
  <1> QED
    BY <1>2 DEF Leads
------------------------------------------------------------------------------
(* Types.                                                                  *)

(* The messages, events and actions of the code *)
LEMMA MessageTypes ==
    /\ \A kind \in Kinds : Plain(kind) \in Messages
    /\ \A kind \in Kinds, i \in Ids \cup {Nobody} : Of(kind, i) \in Messages
    /\ \A cs \in Seq(Ids) : Listing(cs) \in Messages
  <1>1. <<>> \in Seq(Ids)
    BY EmptySeq
  <1>2. \A kind \in Kinds, i \in Ids \cup {Nobody} : Of(kind, i) \in Messages
    BY <1>1 DEF Of, Messages
  <1>3. \A kind \in Kinds : Plain(kind) \in Messages
    BY <1>2 DEF Plain
  <1>4. "CharacterList" \in Kinds
    BY DEF Kinds, Replies
  <1>5. \A cs \in Seq(Ids) : Listing(cs) \in Messages
    BY <1>4 DEF Listing, Messages
  <1> QED
    BY <1>2, <1>3, <1>5

(* Those without a character *)
LEMMA PlainTypes ==
    /\ Plain("CharacterCreateFailed") \in Messages /\ Plain("Rejected") \in Messages
    /\ Plain("Disconnected") \in Messages /\ Plain("RequestCharacterList") \in Messages
    /\ Plain("CreateCharacter") \in Messages /\ Plain("HandshakeComplete") \in Messages
    /\ Plain("Connected") \in Messages /\ Plain("Snapshot") \in Messages
    /\ Plain("SendMove") \in Messages /\ Plain("SendMoveStop") \in Messages
    /\ Plain("SendDisconnect") \in Messages /\ Plain("Reconnect") \in Messages
    /\ Plain("Handshake") \in Messages /\ Plain("CharacterListRequest") \in Messages
    /\ Plain("Disconnect") \in Messages /\ Plain("HandshakeAccepted") \in Messages
    /\ Plain("HandshakeRejected") \in Messages
  <1>1. \A kind \in Kinds : Plain(kind) \in Messages
    BY MessageTypes
  <1> QED
    BY <1>1 DEF Kinds, Replies, Ends, Requests

(* Those with one *)
LEMMA OfTypes ==
    ASSUME NEW i \in Ids \cup {Nobody}
    PROVE  /\ Of("SelectCharacter", i) \in Messages /\ Of("DeleteCharacter", i) \in Messages
           /\ Of("CharacterCreated", i) \in Messages /\ Of("CharacterDeleted", i) \in Messages
  <1>1. \A kind \in Kinds : Of(kind, i) \in Messages
    BY MessageTypes
  <1> QED
    BY <1>1 DEF Kinds, Replies, Requests

(* The cursor of a list is a number. *)
LEMMA ClampedType ==
    ASSUME TypeOK, NEW cs \in Seq(Ids)
    PROVE  /\ Clamped(cs) \in Nat
           /\ cs # <<>> => Clamped(cs) < Len(cs)
           /\ cursor < Len(cs) => Clamped(cs) = cursor
  <1>1. Len(cs) \in Nat /\ (cs # <<>> => Len(cs) > 0) /\ cursor \in Nat
    BY EmptySeq, LenProperties DEF TypeOK
  <1> QED
    BY <1>1 DEF Clamped

(* The types of the application *)
AppType ==
    /\ screen \in Screens /\ listed \in Seq(Ids) /\ cursor \in Nat
    /\ confirm \in BOOLEAN /\ named \in BOOLEAN /\ moving \in BOOLEAN
    /\ entity \in BOOLEAN /\ world \in BOOLEAN
    /\ asked \in Ids \cup {Nobody}

(* An event keeps them. *)
LEMMA ApplyType ==
    ASSUME TypeOK, NEW e \in Messages, Apply(e),
           e.kind = "CharacterCreated" => e.id \in Ids
    PROVE  AppType'
  <1>a. AppType
    BY DEF TypeOK, AppType
  <1>m. e.list \in Seq(Ids)
    BY DEF Messages
  <1>1. CASE e.kind = "HandshakeComplete" /\ HandshakeComplete
    BY <1>a, <1>1 DEF AppType, HandshakeComplete, Screens
  <1>2. CASE e.kind = "CharacterList" /\ CharacterList(e.list)
    BY <1>a, <1>m, <1>2, ClampedType DEF AppType, CharacterList, Selecting
  <1>3. CASE e.kind = "CharacterCreated" /\ CharacterCreated(e.id)
    <2>1. Append(listed, e.id) \in Seq(Ids) /\ Len(listed) \in Nat
      BY <1>a, <1>3, OneMore DEF AppType
    <2> QED
      BY <1>a, <1>3, <2>1 DEF AppType, CharacterCreated, Selecting, Screens
  <1>4. CASE e.kind = "CharacterDeleted" /\ CharacterDeleted(e.id)
    <2>1. Without(listed, e.id) \in Seq(Ids)
      BY <1>a, WithoutType DEF AppType
    <2>2. Clamped(Without(listed, e.id)) \in Nat
      BY <2>1, ClampedType
    <2> QED
      BY <1>a, <1>4, <2>1, <2>2
         DEF AppType, CharacterDeleted, Selecting, ConfirmAfterDelete
  <1>5. CASE \/ e.kind = "CharacterCreateFailed" /\ UNCHANGED <<app, asked>>
             \/ e.kind = "Connected" /\ Connected
             \/ e.kind \in {"Rejected", "Disconnected"} /\ ShowDisconnected
             \/ e.kind = "Snapshot" /\ Snapshot
    BY <1>a, <1>5 DEF AppType, app, Connected, ShowDisconnected, Snapshot, Screens
  <1> QED
    BY <1>1, <1>2, <1>3, <1>4, <1>5 DEF Apply

(* The types of the rest *)
AccountType ==
    /\ owned \in Seq(Ids) /\ nextId \in 1 .. MaxId + 1
    /\ told \in Seq(Ids) /\ stale \in BOOLEAN /\ untold \in 0 .. MaxUntold
RestType ==
    /\ AccountType
    /\ heading \in BOOLEAN /\ failed \in BOOLEAN
    /\ stage \in {"tui", "leaving", "wait", "main", "pause", "over"}
    /\ actions \in Seq(Messages) /\ events \in Seq(Messages)
    /\ toServer \in Seq(Messages) /\ toClient \in Seq(Messages)
    /\ net \in {"start", "greeted", "select", "play", "lost", "quit"}
    /\ conn \in {"none", "handshake", "select", "play", "closed"}
    /\ keys \in 0 .. MaxKeys

(* The account's, while nothing changes it *)
LEMMA SameAccount ==
    ASSUME AccountType, UNCHANGED account
    PROVE  AccountType'
  BY DEF AccountType, account

(* TypeOK says this of the variables, before a step and after it. *)
LEMMA TypeParts ==
    /\ TypeOK <=> AppType /\ RestType
    /\ TypeOK' <=> AppType' /\ RestType'
  BY DEF TypeOK, AppType, RestType, AccountType

(* Every key and line keeps the types. *)
LEMMA PressType ==
    ASSUME TypeOK, EventShape, Terminal \/ Script
    PROVE  TypeOK'
  <1>a. AppType /\ RestType
    BY TypeParts
  <1>b. MaxKeys \in Nat /\ MaxLines \in 0 .. MaxKeys
    BY BoundsAssumption
  <1>s. \A m \in Messages : Append(actions, m) \in Seq(Messages)
    BY <1>a, OneMore DEF RestType
  <1>u. OnCharacter => /\ Of("SelectCharacter", Under) \in Messages
                       /\ Of("DeleteCharacter", Under) \in Messages /\ Under \in Ids
    <2>1. OnCharacter => cursor + 1 \in 1 .. Len(listed)
      BY <1>a, LenProperties DEF AppType, OnCharacter
    <2>2. OnCharacter => Under \in Ids
      BY <1>a, <2>1, ElementOfSeq DEF AppType, Under
    <2> QED
      BY <2>2, OfTypes
  <1>e. ASSUME events # <<>>
        PROVE  /\ Head(events) \in Messages /\ Tail(events) \in Seq(Messages)
               /\ Head(events).kind = "CharacterCreated" => Head(events).id \in Ids
    <2>1. /\ Head(events) \in Messages /\ Tail(events) \in Seq(Messages)
          /\ Head(events) = events[1] /\ 1 \in DOMAIN events
      BY <1>a, <1>e, OneLess DEF RestType
    <2> QED
      BY <2>1 DEF EventShape, Replies, Ends
  <1>1. CASE TuiTakesEvent
    <2>1. AppType'
      BY <1>1, <1>e, ApplyType DEF TuiTakesEvent
    <2>2. RestType'
      BY SameAccount, <1>a, <1>1, <1>e DEF RestType, TuiTakesEvent, netVars, tcp
    <2> QED
      BY <2>1, <2>2, TypeParts
  <1>2. CASE ScriptTakesEvent
    <2>1. AppType'
      BY <1>2, <1>e, ApplyType DEF ScriptTakesEvent
    <2>2. Reaction(Head(events)) \in Seq(Messages)
      <3> DEFINE e == Head(events)
      <3>1. e \in Messages /\ e.list \in Seq(Ids) /\ (e.kind = "CharacterCreated" => e.id \in Ids)
        BY <1>2, <1>e DEF ScriptTakesEvent, Messages
      <3> HIDE DEF e
      <3>2. e.list # <<>> => e.list[1] \in Ids
        BY <3>1, OneLess
      <3>3. <<>> \in Seq(Messages) /\ \A m \in Messages : <<m>> \in Seq(Messages)
        OBVIOUS
      <3>4. /\ Plain("RequestCharacterList") \in Messages /\ Plain("CreateCharacter") \in Messages
            /\ e.list # <<>> => Of("SelectCharacter", e.list[1]) \in Messages
            /\ e.kind = "CharacterCreated" => Of("SelectCharacter", e.id) \in Messages
        BY <3>1, <3>2, PlainTypes, OfTypes
      <3>5. Reaction(e) \in Seq(Messages)
        BY <3>3, <3>4 DEF Reaction
      <3> QED
        BY <3>5 DEF e
    <2>3. actions' \in Seq(Messages)
      BY <1>a, <1>2, <2>2, ConcatProperties DEF RestType, ScriptTakesEvent
    <2>4. RestType'
      BY SameAccount, <1>a, <1>2, <1>e, <2>3 DEF RestType, ScriptTakesEvent, netVars, tcp
    <2> QED
      BY <2>1, <2>4, TypeParts
  <1>r. ASSUME actions' \in Seq(Messages), keys' \in 0 .. MaxKeys,
               stage' \in {"tui", "leaving", "wait", "main", "pause", "over"},
               UNCHANGED <<events, netVars, tcp, account, failed>>
        PROVE  RestType'
    BY SameAccount, <1>a, <1>r DEF RestType, netVars, tcp
  <1>k. ASSUME NEW screens, Key(screens) PROVE keys' \in 0 .. MaxKeys
    BY <1>a, <1>b, <1>k DEF RestType, Key
  <1>q. ASSUME AppType', RestType' PROVE TypeOK'
    BY <1>q, TypeParts
  <1>3. CASE CharSelectUp \/ CharSelectDown \/ CharSelectCreate \/ CreateType \/ CreateCancel
    <2> USE DEF CharSelectUp, CharSelectDown, CharSelectCreate, CreateType, CreateCancel, Key, Nothing
    <2>c. cursor' \in Nat
      BY <1>a, <1>3 DEF AppType
    <2>1. AppType'
      BY <1>a, <1>3, <2>c DEF AppType, Screens
    <2>2. RestType'
      BY SameAccount, <1>a, <1>b, <1>3 DEF RestType, netVars, tcp
    <2> QED
      BY <1>q, <2>1, <2>2
  <1>4. CASE CharSelectConfirm \/ CharSelectDelete
    <2> USE DEF CharSelectConfirm, CharSelectDelete, Key, Send, Nothing
    <2>c. /\ UNCHANGED <<screen, listed, cursor, named, moving, entity, world>>
          /\ confirm' \in BOOLEAN /\ asked' \in Ids \cup {Nobody}
      BY <1>a, <1>u, <1>4 DEF AppType, app
    <2>1. AppType'
      BY <1>a, <2>c DEF AppType
    <2>2. actions' \in Seq(Messages)
      BY <1>a, <1>s, <1>u, <1>4 DEF RestType
    <2>3. RestType'
      <3>1. stage' = stage /\ UNCHANGED <<events, netVars, tcp, account, failed>>
        BY <1>4
      <3>2. stage' \in {"tui", "leaving", "wait", "main", "pause", "over"}
        BY <1>a, <3>1 DEF RestType
      <3>3. keys' \in 0 .. MaxKeys
        BY <1>4, <1>k DEF CharSelectConfirm, CharSelectDelete
      <3> QED
        BY <2>2, <3>1, <3>2, <3>3, <1>r
    <2> QED
      BY <1>q, <2>1, <2>3
  <1>6. CASE CreateConfirm \/ Logout \/ Quit
    <2> USE DEF CreateConfirm, Logout, Quit, Key, Send, Nothing
    <2>1. AppType'
      <3>1. /\ screen' \in Screens
            /\ UNCHANGED <<listed, cursor, confirm, named, moving, entity, world, asked>>
        BY <1>a, <1>6 DEF AppType, app, Screens
      <3> QED
        BY <1>a, <3>1 DEF AppType
    <2>3. actions' \in Seq(Messages)
      BY <1>a, <1>s, <1>6, PlainTypes DEF RestType
    <2>4. stage' \in {"tui", "leaving", "wait", "main", "pause", "over"}
      BY <1>a, <1>6 DEF RestType
    <2>2. RestType'
      <3>1. UNCHANGED <<events, netVars, tcp, account, failed>>
        BY <1>6
      <3>3. keys' \in 0 .. MaxKeys
        BY <1>6, <1>k DEF CreateConfirm, Logout, Quit
      <3> QED
        BY <2>3, <2>4, <3>1, <3>3, <1>r
    <2> QED
      BY <1>q, <2>1, <2>2
  <1>7. ASSUME NEW on \in BOOLEAN, (Key({"Playing"}) /\ Move(on)) \/ (Line /\ Move(on))
        PROVE  TypeOK'
    <2> USE DEF Move, Line, Key, Send
    <2>1. AppType'
      BY <1>a, <1>7 DEF AppType
    <2>2. actions' \in Seq(Messages)
      BY <1>a, <1>s, <1>7, PlainTypes DEF RestType
    <2>3. /\ stage' \in {"tui", "leaving", "wait", "main", "pause", "over"}
          /\ keys' \in 0 .. MaxKeys
          /\ UNCHANGED <<events, netVars, tcp, account, failed>>
      BY <1>a, <1>b, <1>7 DEF RestType
    <2>4. RestType'
      BY <2>2, <2>3, <1>r
    <2> QED
      BY <1>q, <2>1, <2>4
  <1>8. CASE ScriptDisconnect \/ ScriptQuit \/ ScriptWait \/ ScriptWaited \/ TuiExits
    <2> USE DEF ScriptDisconnect, ScriptQuit, ScriptWait, ScriptWaited, TuiExits, Line, Send,
                Nothing, history
    <2>1. AppType'
      <3>1. UNCHANGED <<app, asked>>
        BY <1>8
      <3> QED
        BY <1>a, <3>1 DEF AppType, app
    <2>3. actions' \in Seq(Messages)
      BY <1>a, <1>s, <1>8, PlainTypes DEF RestType
    <2>4. /\ stage' \in {"tui", "leaving", "wait", "main", "pause", "over"}
          /\ keys' \in 0 .. MaxKeys
      BY <1>a, <1>b, <1>8 DEF RestType
    <2>2. RestType'
      <3>1. UNCHANGED <<events, netVars, tcp, account, failed>>
        BY <1>8
      <3> QED
        BY <2>3, <2>4, <3>1, <1>r
    <2> QED
      BY <1>q, <2>1, <2>2
  <1> QED
    BY <1>1, <1>2, <1>3, <1>4, <1>6, <1>7, <1>8 DEF Terminal, Script

(* Every step of the network task keeps the types. *)
LEMMA NetworkType ==
    ASSUME TypeOK, Network
    PROVE  TypeOK'
  <1>a. AppType /\ RestType
    BY TypeParts
  <1>s. \A m \in Messages : /\ events \o <<m>> \in Seq(Messages)
                            /\ Append(toServer, m) \in Seq(Messages)
                            /\ \A n \in Messages : events \o <<n, m>> \in Seq(Messages)
    <2>1. \A m, n \in Messages : <<m>> \in Seq(Messages) /\ <<n, m>> \in Seq(Messages)
      OBVIOUS
    <2> QED
      BY <1>a, <2>1, OneMore, ConcatProperties DEF RestType
  <1>f. events \o <<Plain("Disconnected"), Plain("Disconnected")>> \in Seq(Messages)
    BY <1>s, PlainTypes
  <1>r. toClient # <<>> => Head(toClient) \in Messages /\ Tail(toClient) \in Seq(Messages)
    BY <1>a, OneLess DEF RestType
  <1>h. actions # <<>> => Head(actions) \in Messages /\ Tail(actions) \in Seq(Messages)
    BY <1>a, OneLess DEF RestType
  <1>u. ASSUME UNCHANGED <<app, asked>>, RestType' PROVE TypeOK'
    BY <1>a, <1>u, TypeParts DEF AppType, app
  <1>1. CASE Connect
    <2>1. <<Plain("Handshake"), Plain("CharacterListRequest")>> \in Seq(Messages)
          /\ <<>> \in Seq(Messages)
      BY PlainTypes
    <2>2. RestType'
      BY SameAccount, <1>a, <1>1, <2>1 DEF RestType, Connect, Silent, history
    <2> QED
      BY <1>1, <1>u, <2>2 DEF Connect, history
  <1>2. CASE ConnectFails
    <2>1. <<>> \in Seq(Messages)
      OBVIOUS
    <2>2. RestType'
      BY SameAccount, <1>a, <1>f, <1>2, <2>1 DEF RestType, ConnectFails, Fail, Tell, tcp, history
    <2> QED
      BY <1>2, <1>u, <2>2 DEF ConnectFails, history
  <1>3. CASE ReadFirst
    <2>1. RestType'
      BY SameAccount, <1>a, <1>s, PlainTypes, <1>r, <1>3 DEF RestType, ReadFirst, Tell, history
    <2> QED
      BY <1>3, <1>u, <2>1 DEF ReadFirst, history
  <1>4. CASE ReadInSelection
    <2>1. RestType'
      BY SameAccount, <1>a, <1>s, PlainTypes, <1>r, <1>4 DEF RestType, ReadInSelection, Tell, history
    <2> QED
      BY <1>4, <1>u, <2>1 DEF ReadInSelection, history
  <1>5. CASE ReadSnapshot \/ ReadFails \/ UdpFails \/ ResendFails \/ Abort
    <2>1. RestType'
      BY SameAccount, <1>a, <1>s, PlainTypes, <1>f, <1>5
         DEF RestType, ReadSnapshot, ReadFails, UdpFails, ResendFails, Abort, Tell, Fail,
             netVars, tcp, history
    <2> QED
      BY <1>5, <1>u, <2>1 DEF ReadSnapshot, ReadFails, UdpFails, ResendFails, Abort, history
  <1>6. CASE TakeEnd \/ TakeRequest
    <2>1. RestType'
      BY SameAccount, <1>a, <1>s, PlainTypes, <1>f, <1>h, <1>6
         DEF RestType, TakeEnd, TakeRequest, TakesAction, Write, Silent, Fail, Tell,
             tcp, history
    <2> QED
      BY <1>6, <1>u, <2>1 DEF TakeEnd, TakeRequest, TakesAction, history
  <1>7. CASE TakeMove \/ TakeIgnored
    <2>1. RestType'
      BY SameAccount, <1>a, <1>h, <1>7
         DEF RestType, TakeMove, TakeIgnored, TakesAction, Silent, netVars, tcp, history
    <2> QED
      BY <1>7, <1>u, <2>1 DEF TakeMove, TakeIgnored, TakesAction, history
  <1> QED
    BY <1>1, <1>2, <1>3, <1>4, <1>5, <1>6, <1>7 DEF Network

(* Every step of the server keeps the types. *)
LEMMA ServerType ==
    ASSUME TypeOK, Serve \/ ServerCloses \/ OthersChange
    PROVE  TypeOK'
  <1>a. AppType /\ RestType
    BY TypeParts
  <1>p. /\ \A m \in Messages : Append(toClient, m) \in Seq(Messages)
        /\ Listing(owned) \in Messages
    BY <1>a, MessageTypes, OneMore DEF RestType, AccountType
  <1>t. toServer # <<>> => Head(toServer) \in Messages /\ Tail(toServer) \in Seq(Messages)
    BY <1>a, OneLess DEF RestType
  <1>i. toServer # <<>> => Head(toServer).id \in Ids \cup {Nobody}
    BY <1>t DEF Messages
  <1>o. /\ \A i \in Ids : Append(owned, i) \in Seq(Ids) /\ Append(told, i) \in Seq(Ids)
        /\ \A i : Without(owned, i) \in Seq(Ids) /\ Without(told, i) \in Seq(Ids)
    BY <1>a, OneMore, WithoutType DEF RestType, AccountType
  <1>n. nextId <= MaxId => nextId \in Ids /\ nextId + 1 \in 1 .. MaxId + 1
    BY <1>a, BoundsAssumption DEF RestType, AccountType, Ids
  <1>r. ASSUME InsertRow \/ \E i : DeleteRow(i)
        PROVE  owned' \in Seq(Ids) /\ nextId' \in 1 .. MaxId + 1
    BY <1>a, <1>o, <1>n, <1>r DEF RestType, AccountType, InsertRow, DeleteRow
  <1>v. ASSUME Untold
        PROVE  told' \in Seq(Ids) /\ stale' \in BOOLEAN /\ untold' \in 0 .. MaxUntold
    BY <1>a, <1>v, BoundsAssumption DEF RestType, AccountType, Untold
  <1>u. ASSUME UNCHANGED <<app, asked>>, RestType' PROVE TypeOK'
    BY <1>a, <1>u, TypeParts DEF AppType, app
  <1>1. CASE ServeHandshake
    <2>1. RestType'
      BY SameAccount, <1>a, <1>p, <1>t, <1>1, PlainTypes
         DEF RestType, ServeHandshake, Request, Reply, NoReply, netVars
    <2> QED
      BY <1>1, <1>u, <2>1 DEF ServeHandshake, Request
  <1>8. CASE ServeList
    <2>1. AccountType'
      BY <1>a, <1>8 DEF RestType, AccountType, ServeList
    <2>2. RestType'
      BY <1>a, <1>p, <1>t, <1>8, <2>1 DEF RestType, ServeList, Request, Reply, NoReply, netVars
    <2> QED
      BY <1>8, <1>u, <2>2 DEF ServeList, Request
  <1>2. CASE ServeCreate
    <2>1. AccountType'
      <3>1. CASE InsertRow /\ told' = Append(told, nextId) /\ UNCHANGED <<stale, untold>>
        <4>1. told' \in Seq(Ids)
          BY <1>o, <1>n, <3>1 DEF InsertRow
        <4> QED
          BY <1>a, <1>r, <3>1, <4>1 DEF RestType, AccountType
      <3>2. CASE UNCHANGED account
        BY SameAccount, <1>a, <3>2 DEF RestType
      <3>3. CASE InsertRow /\ Untold
        BY <1>r, <1>v, <3>3 DEF AccountType
      <3> QED
        BY <1>2, <3>1, <3>2, <3>3 DEF ServeCreate
    <2>2. toClient' \in Seq(Messages) /\ failed' \in BOOLEAN
      BY <1>a, <1>p, <1>n, <1>2, PlainTypes, OfTypes DEF RestType, ServeCreate, InsertRow, Reply
    <2>3. RestType'
      BY <1>a, <1>t, <1>2, <2>1, <2>2 DEF RestType, ServeCreate, Request, netVars
    <2> QED
      BY <1>2, <1>u, <2>3 DEF ServeCreate, Request
  <1>3. CASE ServeDelete
    <2> DEFINE i == Head(toServer).id
    <2>1. AccountType'
      <3>1. CASE DeleteRow(i) /\ told' = Without(told, i) /\ UNCHANGED <<stale, untold>>
        BY <1>a, <1>o, <1>r, <3>1 DEF RestType, AccountType
      <3>2. CASE UNCHANGED account
        BY SameAccount, <1>a, <3>2 DEF RestType
      <3>3. CASE DeleteRow(i) /\ Untold
        BY <1>r, <1>v, <3>3 DEF AccountType
      <3> QED
        BY <1>3, <3>1, <3>2, <3>3 DEF ServeDelete
    <2>2. toClient' \in Seq(Messages) /\ failed' \in BOOLEAN
      BY <1>a, <1>p, <1>t, <1>i, <1>3, OfTypes DEF RestType, ServeDelete, Request, Reply, NoReply
    <2>3. RestType'
      BY <1>a, <1>t, <1>3, <2>1, <2>2 DEF RestType, ServeDelete, Request, netVars
    <2> QED
      BY <1>3, <1>u, <2>3 DEF ServeDelete, Request
  <1>6. CASE ServeSelect
    <2>1. RestType'
      BY SameAccount, <1>a, <1>p, <1>t, <1>6, PlainTypes
         DEF RestType, ServeSelect, Request, Reply, netVars
    <2> QED
      BY <1>6, <1>u, <2>1 DEF ServeSelect, Request
  <1>4. CASE ServeInPlay \/ ServeDisconnect
    <2>1. RestType'
      BY SameAccount, <1>a, <1>t, <1>4
         DEF RestType, ServeInPlay, ServeDisconnect, Request, NoReply, netVars
    <2> QED
      BY <1>4, <1>u, <2>1 DEF ServeInPlay, ServeDisconnect, Request
  <1>5. CASE ServerCloses
    <2>1. RestType'
      BY SameAccount, <1>a, <1>5 DEF RestType, ServerCloses, netVars, history
    <2> QED
      BY <1>5, <1>u, <2>1 DEF ServerCloses, history
  <1>7. CASE OthersChange
    <2>1. RestType'
      BY <1>a, <1>r, <1>v, <1>7 DEF RestType, AccountType, OthersChange, netVars, tcp, history
    <2> QED
      BY <1>7, <1>u, <2>1 DEF OthersChange, history
  <1> QED
    BY <1>1, <1>2, <1>3, <1>4, <1>5, <1>6, <1>7, <1>8 DEF Serve
------------------------------------------------------------------------------
(* The events on their way.                                                *)

(* EventShape of a queue of events, a screen and a phase of the network    *)
(* task, one event at a time                                               *)
Chosen(s) == s \in {"CharacterSelect", "CharacterCreate"}
Only(q, k, kinds) == \A j \in 1 .. k - 1 : q[j].kind \in kinds
Some(q, k, kind) == \E j \in 1 .. k - 1 : q[j].kind = kind

Opens(q, s, k) ==
    q[k].kind = "HandshakeComplete" /\ s = "Connecting" /\ Only(q, k, {"Snapshot"})
Answers(q, s, k) ==
    /\ q[k].kind \in Replies \cup {"Connected"}
    /\ Chosen(s) \/ Some(q, k, "HandshakeComplete")
    /\ Only(q, k, Replies \cup {"HandshakeComplete", "Snapshot"})
    /\ q[k].kind = "CharacterCreated" => q[k].id \in Ids
Shows(q, s, k) ==
    /\ q[k].kind = "Snapshot"
    /\ \/ s \in {"Connecting", "Playing"} /\ Only(q, k, {"Snapshot"})
       \/ Some(q, k, "Connected")
    /\ \A j \in 1 .. k - 1 : q[j].kind \notin Ends
Closes(q, n, k) == q[k].kind \in Ends /\ n = "lost"

Fit(q, s, n) ==
    \A k \in DOMAIN q : Opens(q, s, k) \/ Answers(q, s, k) \/ Shows(q, s, k) \/ Closes(q, n, k)

(* EventShape says this of the variables, before a step and after it. *)
LEMMA EventsFit ==
    /\ EventShape <=> Fit(events, screen, net)
    /\ EventShape' <=> Fit(events', screen', net')
  BY DEF EventShape, Fit, Opens, Answers, Shows, Closes, Chosen, Choosing, Only, Some, Before

(* An event that fits in is added. *)
LEMMA FitMore ==
    ASSUME NEW q \in Seq(Messages), NEW m \in Messages, NEW s, NEW n, NEW l,
           Fit(q, s, n), n = "lost" => l = "lost",
           LET r == Append(q, m) IN
           \/ Opens(r, s, Len(q) + 1) \/ Answers(r, s, Len(q) + 1)
           \/ Shows(r, s, Len(q) + 1) \/ Closes(r, l, Len(q) + 1)
    PROVE  Fit(Append(q, m), s, l)
  <1> DEFINE r == Append(q, m)
  <1>1. /\ Len(q) \in Nat /\ DOMAIN q = 1 .. Len(q) /\ DOMAIN r = 1 .. Len(q) + 1
        /\ \A k \in 1 .. Len(q) : r[k] = q[k]
    BY OneMore
  <1>2. \/ Opens(r, s, Len(q) + 1) \/ Answers(r, s, Len(q) + 1)
        \/ Shows(r, s, Len(q) + 1) \/ Closes(r, l, Len(q) + 1)
    OBVIOUS
  <1> HIDE DEF r
  <1>3. ASSUME NEW k \in 1 .. Len(q)
        PROVE  Opens(r, s, k) \/ Answers(r, s, k) \/ Shows(r, s, k) \/ Closes(r, l, k)
    <2>1. r[k] = q[k] /\ \A j \in 1 .. k - 1 : r[j] = q[j]
      BY <1>1
    <2>2. Opens(q, s, k) \/ Answers(q, s, k) \/ Shows(q, s, k) \/ Closes(q, n, k)
      BY <1>1 DEF Fit
    <2>3. \A kinds : Only(q, k, kinds) => Only(r, k, kinds)
      BY <2>1 DEF Only
    <2>4. \A kind : Some(q, k, kind) => Some(r, k, kind)
      BY <2>1 DEF Some
    <2>5. (\A j \in 1 .. k - 1 : q[j].kind \notin Ends) => \A j \in 1 .. k - 1 : r[j].kind \notin Ends
      BY <2>1
    <2> QED
      BY <2>1, <2>2, <2>3, <2>4, <2>5 DEF Opens, Answers, Shows, Closes
  <1>4. Fit(r, s, l)
    <2>1. \A k \in DOMAIN r : k \in 1 .. Len(q) \/ k = Len(q) + 1
      BY <1>1
    <2> QED
      BY <1>2, <1>3, <2>1 DEF Fit
  <1> QED
    BY <1>4 DEF r

(* The first event is applied, and the others fit the screen it leads to. *)
LEMMA FitLess ==
    ASSUME NEW q \in Seq(Messages), q # <<>>, NEW s, NEW t, NEW n, Fit(q, s, n),
           Head(q).kind = "HandshakeComplete" => Chosen(t),
           Head(q).kind \in Replies => (Chosen(s) => Chosen(t)),
           Head(q).kind = "Connected" => t = "Playing",
           Head(q).kind = "Snapshot" => t = s
    PROVE  Fit(Tail(q), t, n)
  <1> DEFINE r == Tail(q)
  <1>1. /\ Len(q) \in Nat \ {0} /\ DOMAIN q = 1 .. Len(q) /\ DOMAIN r = 1 .. Len(q) - 1
        /\ Head(q) = q[1]
        /\ \A k \in 1 .. Len(q) - 1 : r[k] = q[k + 1]
    BY OneLess
  <1>f. \A k \in 1 .. Len(q) : Opens(q, s, k) \/ Answers(q, s, k) \/ Shows(q, s, k) \/ Closes(q, n, k)
    BY <1>1 DEF Fit
  <1> HIDE DEF r
  <1>2. ASSUME NEW k \in DOMAIN r
        PROVE  Opens(r, t, k) \/ Answers(r, t, k) \/ Shows(r, t, k) \/ Closes(r, n, k)
    <2> DEFINE i == k + 1
    <2>1. i \in 1 .. Len(q) /\ r[k] = q[i] /\ 1 \in 1 .. i - 1 /\ 1 \in 1 .. Len(q)
      BY <1>1
    <2>2. \A j \in 1 .. k - 1 : j + 1 \in 1 .. i - 1 /\ r[j] = q[j + 1]
      BY <1>1
    <2>3. \A j \in 1 .. i - 1 : j = 1 \/ (j - 1 \in 1 .. k - 1 /\ r[j - 1] = q[j])
      <3> SUFFICES ASSUME NEW j \in 1 .. i - 1, j # 1
                   PROVE  j - 1 \in 1 .. k - 1 /\ r[j - 1] = q[j]
        OBVIOUS
      <3>1. j - 1 \in 1 .. k - 1 /\ j - 1 \in 1 .. Len(q) - 1 /\ (j - 1) + 1 = j
        BY <1>1
      <3> QED
        BY <1>1, <3>1
    <2>4. Opens(q, s, i) \/ Answers(q, s, i) \/ Shows(q, s, i) \/ Closes(q, n, i)
      BY <1>f, <2>1
    <2>5. Opens(q, s, 1) \/ Answers(q, s, 1) \/ Shows(q, s, 1) \/ Closes(q, n, 1)
      BY <1>f, <2>1
    <2>6. ~Some(q, 1, "HandshakeComplete") /\ ~Some(q, 1, "Connected")
      BY DEF Some
    <2>h. \A j \in 2 .. i - 1 : Opens(q, s, j) \/ Answers(q, s, j) \/ Shows(q, s, j) \/ Closes(q, n, j)
      BY <1>1, <1>f
    <2> HIDE DEF i
    <2>7. \A kinds : Only(q, i, kinds) => Only(r, k, kinds) /\ q[1].kind \in kinds
      BY <2>1, <2>2 DEF Only
    <2>8. \A kind : Some(q, i, kind) => Some(r, k, kind) \/ q[1].kind = kind
      BY <2>3 DEF Some
    <2>9. (\A j \in 1 .. i - 1 : q[j].kind \notin Ends) => \A j \in 1 .. k - 1 : r[j].kind \notin Ends
      BY <2>2
    <2>10. CASE Closes(q, n, i)
      BY <2>1, <2>10 DEF Closes
    <2>11. CASE Opens(q, s, i)
      <3>1. q[1].kind = "Snapshot" /\ Only(r, k, {"Snapshot"})
        BY <2>7, <2>11 DEF Opens
      <3> QED
        BY <1>1, <2>1, <2>11, <3>1 DEF Opens
    <2>12. CASE Answers(q, s, i)
      <3>1. /\ q[1].kind \in Replies \cup {"HandshakeComplete", "Snapshot"}
            /\ Only(r, k, Replies \cup {"HandshakeComplete", "Snapshot"})
        BY <2>7, <2>12 DEF Answers
      <3>2. Chosen(s) \/ Some(r, k, "HandshakeComplete") \/ q[1].kind = "HandshakeComplete"
        BY <2>8, <2>12 DEF Answers
      <3>3. q[1].kind \in Replies => Chosen(s)
        BY <2>5, <2>6 DEF Opens, Answers, Shows, Closes, Replies, Ends
      <3>4. q[1].kind = "Snapshot" => ~Chosen(s)
        BY <2>5, <2>6 DEF Opens, Answers, Shows, Closes, Replies, Ends, Chosen
      <3>5. Chosen(t) \/ Some(r, k, "HandshakeComplete")
        BY <1>1, <3>1, <3>2, <3>3, <3>4
      <3> QED
        BY <2>1, <2>12, <3>1, <3>5 DEF Answers
    <2>13. CASE Shows(q, s, i)
      <3>1. \A j \in 1 .. k - 1 : r[j].kind \notin Ends
        BY <2>9, <2>13 DEF Shows
      <3>2. CASE s \in {"Connecting", "Playing"} /\ Only(q, i, {"Snapshot"})
        <4>1. q[1].kind = "Snapshot" /\ Only(r, k, {"Snapshot"})
          BY <2>7, <3>2
        <4> QED
          BY <1>1, <2>1, <2>13, <3>1, <3>2, <4>1 DEF Shows
      <3>3. CASE Some(r, k, "Connected")
        BY <2>1, <2>13, <3>1, <3>3 DEF Shows
      <3>4. CASE q[1].kind = "Connected"
        <4>1. ASSUME NEW j \in 1 .. k - 1 PROVE r[j].kind \in {"Snapshot"}
          <5>1. j + 1 \in 2 .. i - 1 /\ 1 \in 1 .. (j + 1) - 1 /\ r[j] = q[j + 1]
            BY <1>1, <2>2
          <5>2. ~Only(q, j + 1, {"Snapshot"}) /\ ~Only(q, j + 1, Replies \cup {"HandshakeComplete", "Snapshot"})
            BY <3>4, <5>1 DEF Only, Replies
          <5>3. q[j + 1].kind \notin Ends
            BY <3>1, <5>1
          <5> QED
            BY <2>h, <5>1, <5>2, <5>3 DEF Opens, Answers, Shows, Closes
        <4>2. Only(r, k, {"Snapshot"})
          BY <4>1 DEF Only
        <4> QED
          BY <1>1, <2>1, <2>13, <3>1, <3>4, <4>2 DEF Shows
      <3> QED
        BY <2>8, <2>13, <3>2, <3>3, <3>4 DEF Shows
    <2> QED
      BY <2>4, <2>10, <2>11, <2>12, <2>13
  <1>3. Fit(r, t, n)
    BY <1>2 DEF Fit
  <1> QED
    BY <1>3 DEF r
(* The screen may change within character selection, or by a logout. *)
LEMMA FitScreen ==
    ASSUME NEW q, NEW s, NEW t, NEW n, NEW l, Fit(q, s, n), n = "lost" => l = "lost",
           s = t \/ (Chosen(s) /\ Chosen(t)) \/ (s = "Playing" /\ t = "Connecting")
    PROVE  Fit(q, t, l)
  <1> SUFFICES ASSUME NEW k \in DOMAIN q
               PROVE  Opens(q, t, k) \/ Answers(q, t, k) \/ Shows(q, t, k) \/ Closes(q, l, k)
    BY DEF Fit
  <1>1. Opens(q, s, k) \/ Answers(q, s, k) \/ Shows(q, s, k) \/ Closes(q, n, k)
    BY DEF Fit
  <1>2. /\ s = "Connecting" => t = "Connecting"
        /\ Chosen(s) => Chosen(t)
        /\ s \in {"Connecting", "Playing"} => t \in {"Connecting", "Playing"}
    BY DEF Chosen
  <1>3. Opens(q, s, k) => Opens(q, t, k)
    BY <1>2 DEF Opens
  <1>4. Answers(q, s, k) => Answers(q, t, k)
    BY <1>2 DEF Answers
  <1>5. Shows(q, s, k) => Shows(q, t, k)
    BY <1>2 DEF Shows
  <1>6. Closes(q, n, k) => Closes(q, l, k)
    BY DEF Closes
  <1> QED
    BY <1>1, <1>3, <1>4, <1>5, <1>6

(* Kinds in a queue *)
Has(q, kind) == \E k \in DOMAIN q : q[k].kind = kind

(* A kind is in the longer queue when it was there or is the new one. *)
LEMMA HasMore ==
    ASSUME NEW q \in Seq(Messages), NEW m \in Messages, NEW kind
    PROVE  Has(Append(q, m), kind) <=> Has(q, kind) \/ m.kind = kind
  <1> DEFINE r == Append(q, m)
  <1>1. /\ Len(q) \in Nat /\ DOMAIN q = 1 .. Len(q) /\ DOMAIN r = 1 .. Len(q) + 1
        /\ \A k \in 1 .. Len(q) : r[k] = q[k]
        /\ r[Len(q) + 1] = m
    BY OneMore
  <1> HIDE DEF r
  <1>2. \A k \in 1 .. Len(q) + 1 : k \in 1 .. Len(q) \/ k = Len(q) + 1
    BY <1>1
  <1>3. Len(q) + 1 \in 1 .. Len(q) + 1 /\ \A k \in 1 .. Len(q) : k \in 1 .. Len(q) + 1
    BY <1>1
  <1>4. Has(r, kind) <=> Has(q, kind) \/ m.kind = kind
    BY <1>1, <1>2, <1>3 DEF Has
  <1> QED
    BY <1>4 DEF r

(* A kind is in a queue when it is the first one or in the rest. *)
LEMMA HasLess ==
    ASSUME NEW q \in Seq(Messages), q # <<>>, NEW kind
    PROVE  Has(q, kind) <=> Has(Tail(q), kind) \/ Head(q).kind = kind
  <1> DEFINE r == Tail(q)
  <1>1. /\ Len(q) \in Nat \ {0} /\ DOMAIN q = 1 .. Len(q) /\ DOMAIN r = 1 .. Len(q) - 1
        /\ Head(q) = q[1]
        /\ \A k \in 1 .. Len(q) - 1 : r[k] = q[k + 1]
        /\ \A k \in 2 .. Len(q) : k - 1 \in 1 .. Len(q) - 1 /\ r[k - 1] = q[k]
    BY OneLess
  <1> HIDE DEF r
  <1>2. \A k \in 1 .. Len(q) : k = 1 \/ k \in 2 .. Len(q)
    BY <1>1
  <1>3. 1 \in 1 .. Len(q) /\ \A k \in 1 .. Len(q) - 1 : k + 1 \in 1 .. Len(q)
    BY <1>1
  <1>4. Has(q, kind) <=> Has(r, kind) \/ Head(q).kind = kind
    BY <1>1, <1>2, <1>3 DEF Has
  <1> QED
    BY <1>4 DEF r

(* Coming and Choosing in these terms *)
LEMMA ComingHas ==
    /\ \A kind : Coming(kind) <=> Has(events, kind)
    /\ \A kind : Coming(kind)' <=> Has(events', kind)
    /\ Choosing <=> Chosen(screen)
    /\ Choosing' <=> Chosen(screen')
  BY DEF Coming, Has, Choosing, Chosen

(* The kinds that are on their way, by the screen *)
LEMMA FitHas ==
    ASSUME NEW q \in Seq(Messages), NEW s, NEW n, Fit(q, s, n)
    PROVE  /\ Has(q, "HandshakeComplete") => s = "Connecting"
           /\ Has(q, "Connected") => Chosen(s) \/ Has(q, "HandshakeComplete")
           /\ n # "lost" => \A k \in DOMAIN q : q[k].kind \notin Ends
           /\ n # "lost" /\ ~Has(q, "HandshakeComplete") /\ ~Chosen(s) =>
                \A k \in DOMAIN q : q[k].kind = "Snapshot"
  <1> USE DEF Opens, Answers, Shows, Closes
  <1>1. \A k \in DOMAIN q : q[k].kind = "HandshakeComplete" => s = "Connecting"
    BY DEF Fit, Replies, Ends
  <1>2. DOMAIN q = 1 .. Len(q) /\ Len(q) \in Nat
    BY LenProperties
  <1>3. \A k \in DOMAIN q : Some(q, k, "HandshakeComplete") => Has(q, "HandshakeComplete")
    BY <1>2 DEF Some, Has
  <1> QED
    BY <1>1, <1>3 DEF Fit, Has, Replies, Ends

(* The first event of a queue *)
LEMMA FitHead ==
    ASSUME NEW q \in Seq(Messages), q # <<>>, NEW s, NEW n, Fit(q, s, n)
    PROVE  \/ Head(q).kind = "HandshakeComplete" /\ s = "Connecting"
           \/ /\ Head(q).kind \in Replies \cup {"Connected"} /\ Chosen(s)
              /\ Head(q).kind = "CharacterCreated" => Head(q).id \in Ids
           \/ Head(q).kind = "Snapshot" /\ s \in {"Connecting", "Playing"}
           \/ Head(q).kind \in Ends /\ n = "lost"
  <1>1. Head(q) = q[1] /\ 1 \in DOMAIN q
    BY OneLess
  <1>2. \A kind : ~Some(q, 1, kind)
    BY DEF Some
  <1> QED
    BY <1>1, <1>2 DEF Fit, Opens, Answers, Shows, Closes
------------------------------------------------------------------------------
(* The steps, by what they do to the queues and the screen.                *)

(* A key or a line: it changes nothing but the application, and may add an *)
(* action.                                                                 *)
Idle ==
    /\ UNCHANGED <<actions, moving>>
    /\ screen' = screen \/ (Chosen(screen) /\ Chosen(screen'))
Asks ==
    /\ UNCHANGED <<screen, moving>>
    /\ \E m \in Messages :
        /\ m.kind \in {"CreateCharacter", "DeleteCharacter", "SelectCharacter", "SendDisconnect"}
        /\ actions' = Append(actions, m)
Moves ==
    /\ screen' = screen
    /\ screen = "Playing" \/ stage = "main"
    /\ \E m \in Messages :
        /\ m.kind = (IF moving' THEN "SendMove" ELSE "SendMoveStop")
        /\ actions' = Append(actions, m)
LogsOut ==
    /\ screen = "Playing" /\ screen' = "Connecting" /\ moving' = moving
    /\ stage \in {"tui", "leaving"} /\ stage' = stage
    /\ \E m \in Messages : m.kind = "Reconnect" /\ actions' = Append(actions, m)

Pressed ==
    /\ UNCHANGED <<events, net, heading, toServer, toClient, conn, owned, nextId, told, stale, untold, entity, world>>
    /\ stage' \in {"main", "pause"} => stage \in {"main", "pause"}
    /\ Idle \/ Asks \/ Moves \/ LogsOut

(* An event is applied, and the script may answer with a request. *)
Taken ==
    /\ events # <<>> /\ Apply(Head(events)) /\ events' = Tail(events)
    /\ UNCHANGED <<net, heading, toServer, toClient, conn, owned, nextId, told, stale, untold>>
    /\ stage' \in {"main", "pause"} =>
        stage \in {"main", "pause"} \/ Head(events).kind = "Connected"
    /\ \/ actions' = actions
       \/ /\ stage = "wait"
          /\ \E m \in Messages :
              /\ m.kind \in {"RequestCharacterList", "CreateCharacter", "SelectCharacter"}
              /\ actions' = Append(actions, m)

(* Every key and line of a script does one of these. *)
LEMMA PressedSteps ==
    ASSUME TypeOK, Terminal \/ Script, ~TuiTakesEvent, ~ScriptTakesEvent
    PROVE  Pressed
  <1>a. AppType /\ RestType
    BY TypeParts
  <1>u. OnCharacter => /\ Of("SelectCharacter", Under) \in Messages
                       /\ Of("DeleteCharacter", Under) \in Messages
    <2>1. OnCharacter => cursor + 1 \in 1 .. Len(listed)
      BY <1>a, LenProperties DEF AppType, OnCharacter
    <2>2. OnCharacter => Under \in Ids
      BY <1>a, <2>1, ElementOfSeq DEF AppType, Under
    <2> QED
      BY <2>2, OfTypes
  <1>k. \A kind, i : Of(kind, i).kind = kind /\ Plain(kind).kind = kind
    BY DEF Of, Plain
  <1>1. CASE CharSelectUp \/ CharSelectDown \/ CharSelectCreate \/ CreateType \/ CreateCancel
    BY <1>1 DEF Pressed, Idle, CharSelectUp, CharSelectDown, CharSelectCreate, CreateType,
           CreateCancel, Key, Nothing, Chosen, netVars, tcp, account
  <1>2. CASE CharSelectConfirm \/ CharSelectDelete
    <2>1. /\ UNCHANGED <<events, net, heading, toServer, toClient, conn, owned, nextId, told, stale, untold,
                         entity, world, screen, moving, stage>>
          /\ \/ actions' = actions
             \/ OnCharacter /\ actions' = Append(actions, Of("SelectCharacter", Under))
             \/ OnCharacter /\ actions' = Append(actions, Of("DeleteCharacter", Under))
      BY <1>2 DEF CharSelectConfirm, CharSelectDelete, Key, Send, Nothing, app, netVars, tcp, account
    <2> HIDE DEF OnCharacter, Under
    <2> QED
      BY <1>u, <1>k, <2>1 DEF Pressed, Idle, Asks
  <1>3. CASE CreateConfirm \/ Quit
    BY <1>3, <1>k, PlainTypes
       DEF Pressed, Idle, Asks, CreateConfirm, Quit, Key, Send, Nothing, app, netVars, tcp, account
  <1>4. CASE Logout
    BY <1>4, <1>k, PlainTypes DEF Pressed, LogsOut, Logout, Key, Send, netVars, tcp, account
  <1>5. ASSUME NEW on \in BOOLEAN, (Key({"Playing"}) /\ Move(on)) \/ (Line /\ Move(on))
        PROVE  Pressed
    <2>1. /\ UNCHANGED <<events, net, heading, toServer, toClient, conn, owned, nextId, told, stale, untold,
                         entity, world, screen, stage>>
          /\ screen = "Playing" \/ stage = "main"
          /\ moving' = on
          /\ actions' = Append(actions, Plain(IF on THEN "SendMove" ELSE "SendMoveStop"))
      BY <1>5 DEF Move, Key, Line, Send, netVars, tcp, account
    <2> DEFINE m == Plain(IF on THEN "SendMove" ELSE "SendMoveStop")
    <2>2. m \in Messages /\ m.kind = (IF moving' THEN "SendMove" ELSE "SendMoveStop")
      BY <1>k, <2>1, PlainTypes
    <2> HIDE DEF m
    <2>3. Moves
      BY <2>1, <2>2 DEF Moves, m
    <2> QED
      BY <2>1, <2>3 DEF Pressed
  <1>6. CASE ScriptDisconnect \/ ScriptQuit \/ ScriptWait \/ ScriptWaited \/ TuiExits
    BY <1>6, <1>k, PlainTypes
       DEF Pressed, Idle, Asks, ScriptDisconnect, ScriptQuit, ScriptWait, ScriptWaited, TuiExits,
           Line, Send, Nothing, app, netVars, tcp, account, history
  <1> QED
    BY <1>1, <1>2, <1>3, <1>4, <1>5, <1>6 DEF Terminal, Script

(* Both drivers take an event this way. *)
LEMMA TakenSteps ==
    ASSUME TypeOK, EventShape, TuiTakesEvent \/ ScriptTakesEvent
    PROVE  Taken
  <1>1. CASE TuiTakesEvent
    BY <1>1 DEF TuiTakesEvent, Taken, netVars, tcp, account
  <1>2. CASE ScriptTakesEvent
    <2> DEFINE e == Head(events)
    <2>1. /\ e \in Messages /\ (e.kind = "CharacterCreated" => e.id \in Ids)
          /\ actions \in Seq(Messages)
      <3>1. events \in Seq(Messages) /\ actions \in Seq(Messages) /\ events # <<>>
        BY <1>2, TypeParts DEF RestType, ScriptTakesEvent
      <3>2. e \in Messages
        BY <3>1, OneLess
      <3> QED
        BY <3>1, <3>2, FitHead, EventsFit DEF Replies, Ends
    <2>2. e.list # <<>> => e.list[1] \in Ids
      BY <2>1, OneLess DEF Messages
    <2> HIDE DEF e
    <2> DEFINE Answer == {"RequestCharacterList", "CreateCharacter", "SelectCharacter"}
    <2>3. Reaction(e) = <<>> \/ \E m \in Messages : m.kind \in Answer /\ Reaction(e) = <<m>>
      <3>1. /\ Plain("RequestCharacterList") \in Messages /\ Plain("CreateCharacter") \in Messages
            /\ e.list # <<>> => Of("SelectCharacter", e.list[1]) \in Messages
            /\ e.kind = "CharacterCreated" => Of("SelectCharacter", e.id) \in Messages
        BY <2>1, <2>2, PlainTypes, OfTypes
      <3>2. \A kind, i : Of(kind, i).kind = kind /\ Plain(kind).kind = kind
        BY DEF Of, Plain
      <3> QED
        BY <3>1, <3>2 DEF Reaction
    <2>4. \/ actions \o Reaction(e) = actions
          \/ \E m \in Messages : m.kind \in Answer /\ actions \o Reaction(e) = Append(actions, m)
      <3>1. actions \o <<>> = actions
        BY <2>1, ConcatEmptySeq
      <3>2. \A m \in Messages : actions \o <<m>> = Append(actions, m)
        BY <2>1, OneMore
      <3> QED
        BY <2>3, <3>1, <3>2
    <2>5. /\ events # <<>> /\ Apply(e) /\ events' = Tail(events)
          /\ UNCHANGED <<net, heading, toServer, toClient, conn, owned, nextId, told, stale, untold>>
          /\ actions' = IF stage = "wait" THEN actions \o Reaction(e) ELSE actions
          /\ stage' \in {"main", "pause"} => stage \in {"main", "pause"} \/ e.kind = "Connected"
      BY <1>2 DEF ScriptTakesEvent, netVars, tcp, account, e
    <2> QED
      BY <2>4, <2>5 DEF Taken, e
  <1> QED
    BY <1>1, <1>2

(* Every step is of one of these kinds, or of the network task or the      *)
(* server, which do not touch the application.                             *)
LEMMA StepKinds ==
    ASSUME TypeOK, EventShape, [Next]_vars
    PROVE  \/ UNCHANGED vars \/ Pressed \/ Taken
           \/ Network /\ UNCHANGED <<app, stage, account, asked>>
           \/ /\ Serve \/ ServerCloses \/ OthersChange
              /\ UNCHANGED <<app, stage, actions, events, netVars, asked>>
  <1>1. ASSUME Network PROVE UNCHANGED <<app, stage, account, asked>>
    BY <1>1 DEF Network, Connect, ConnectFails, ReadFirst, ReadInSelection, ReadSnapshot, ReadFails,
           UdpFails, TakeEnd, TakeRequest, TakeMove, TakeIgnored, TakesAction, ResendFails, Abort,
           history
  <1>2. ASSUME Serve \/ ServerCloses \/ OthersChange PROVE UNCHANGED <<app, stage, actions, events, netVars, asked>>
    BY <1>2 DEF Serve, ServeHandshake, ServeList, ServeCreate, ServeDelete, ServeSelect,
           ServeInPlay, ServeDisconnect, Request, ServerCloses, OthersChange, history
  <1> QED
    BY <1>1, <1>2, PressedSteps, TakenSteps DEF Next, Terminal, Script
------------------------------------------------------------------------------
(* EventShape.                                                             *)

(* What an applied event does to the screen *)
LEMMA AppliedScreen ==
    ASSUME NEW e \in Messages, Apply(e)
    PROVE  /\ e.kind = "HandshakeComplete" => screen' = "CharacterSelect"
           /\ (e.kind \in Replies /\ Chosen(screen)) => Chosen(screen')
           /\ e.kind = "Connected" => screen' = "Playing"
           /\ e.kind = "Snapshot" => screen' = screen
           /\ e.kind \in Ends => screen' = "Disconnected"
  BY DEF Apply, HandshakeComplete, CharacterList, CharacterCreated, CharacterDeleted, Connected,
         ShowDisconnected, Snapshot, Selecting, Replies, Ends, Chosen, app

(* The phases of the network task and its report of an end *)
LEMMA FitFail ==
    ASSUME NEW q \in Seq(Messages), NEW s, NEW n, Fit(q, s, n)
    PROVE  /\ Fit(q \o <<Plain("Disconnected"), Plain("Disconnected")>>, s, "lost")
           /\ Fit(q \o <<Plain("Disconnected")>>, s, "lost")
           /\ Fit(q \o <<Plain("Rejected")>>, s, "lost")
  <1> DEFINE d == Plain("Disconnected")
             r == Append(q, d)
  <1>1. /\ d \in Messages /\ d.kind \in Ends
        /\ Plain("Rejected") \in Messages /\ Plain("Rejected").kind \in Ends
    BY PlainTypes DEF Plain, Of, Ends
  <1> HIDE DEF d
  <1>2. ASSUME NEW p \in Seq(Messages), NEW m \in Messages, NEW k, m.kind \in Ends, Fit(p, s, k)
        PROVE  Fit(Append(p, m), s, "lost")
    <2>1. Append(p, m)[Len(p) + 1] = m
      BY OneMore
    <2>2. Closes(Append(p, m), "lost", Len(p) + 1)
      BY <1>2, <2>1 DEF Closes
    <2> QED
      BY <1>2, <2>2, FitMore
  <1>3. r \in Seq(Messages) /\ q \o <<d>> = r /\ q \o <<Plain("Rejected")>> = Append(q, Plain("Rejected"))
    BY <1>1, OneMore
  <1>4. Fit(r, s, "lost") /\ Fit(Append(q, Plain("Rejected")), s, "lost")
    BY <1>1, <1>2
  <1>5. Fit(Append(r, d), s, "lost")
    BY <1>1, <1>2, <1>3, <1>4
  <1>6. q \o <<d, d>> = Append(r, d)
    <2>1. <<d, d>> = <<d>> \o <<d>> /\ <<d>> \in Seq(Messages)
      BY <1>1
    <2>2. q \o (<<d>> \o <<d>>) = (q \o <<d>>) \o <<d>>
      BY <2>1, ConcatAssociative
    <2>3. r \o <<d>> = Append(r, d)
      BY <1>1, <1>3, OneMore
    <2> QED
      BY <1>3, <2>1, <2>2, <2>3
  <1> QED
    BY <1>3, <1>4, <1>5, <1>6 DEF d

(* The queue of events when a session opens, with nothing of it yet *)
LEMMA AwayIsSnapshots ==
    ASSUME TypeOK, EventShape, Away, net # "lost"
    PROVE  \A k \in DOMAIN events : events[k].kind = "Snapshot"
  <1>1. events \in Seq(Messages) /\ Fit(events, screen, net)
    BY TypeParts, EventsFit DEF RestType
  <1>2. ~Has(events, "HandshakeComplete") /\ ~Chosen(screen)
    BY ComingHas DEF Away, Opening
  <1> QED
    BY <1>1, <1>2, FitHas

(* The two events of the first reply *)
LEMMA FitOpening ==
    ASSUME NEW q \in Seq(Messages), NEW n, NEW m \in Messages, m.kind = "CharacterList",
           \A k \in DOMAIN q : q[k].kind = "Snapshot", Fit(q, "Connecting", n), n # "lost"
    PROVE  /\ q \o <<Plain("HandshakeComplete"), m>> =
                Append(Append(q, Plain("HandshakeComplete")), m)
           /\ Fit(q \o <<Plain("HandshakeComplete"), m>>, "Connecting", "select")
  <1> DEFINE h == Plain("HandshakeComplete")
             r == Append(q, h)
             t == Append(r, m)
  <1>1. h \in Messages /\ h.kind = "HandshakeComplete"
    BY PlainTypes DEF Plain, Of
  <1> HIDE DEF h
  <1>2. /\ r \in Seq(Messages) /\ q \o <<h>> = r
        /\ Len(q) \in Nat /\ Len(r) = Len(q) + 1 /\ DOMAIN q = 1 .. Len(q)
        /\ \A k \in 1 .. Len(q) : r[k] = q[k]
        /\ r[Len(q) + 1] = h
    BY <1>1, OneMore
  <1> HIDE DEF r
  <1>3. /\ r \o <<m>> = t /\ \A k \in 1 .. Len(r) : t[k] = r[k]
        /\ t[Len(r) + 1] = m
    BY <1>2, OneMore
  <1>4. q \o <<h, m>> = t
    <2>1. <<h, m>> = <<h>> \o <<m>> /\ <<h>> \in Seq(Messages) /\ <<m>> \in Seq(Messages)
      BY <1>1
    <2>2. q \o (<<h>> \o <<m>>) = (q \o <<h>>) \o <<m>>
      BY <2>1, ConcatAssociative
    <2> QED
      BY <1>2, <1>3, <2>1, <2>2
  <1>5. Only(r, Len(q) + 1, {"Snapshot"})
    BY <1>2 DEF Only
  <1>6. Opens(r, "Connecting", Len(q) + 1)
    BY <1>1, <1>2, <1>5 DEF Opens
  <1>7. Fit(r, "Connecting", "select")
    BY <1>1, <1>6, FitMore DEF r
  <1> HIDE DEF t
  <1>8. /\ Some(t, Len(r) + 1, "HandshakeComplete")
        /\ Only(t, Len(r) + 1, Replies \cup {"HandshakeComplete", "Snapshot"})
    <2>1. \A j \in 1 .. Len(r) + 1 - 1 : j \in 1 .. Len(q) \/ j = Len(q) + 1
      BY <1>2
    <2>2. Len(q) + 1 \in 1 .. Len(r) + 1 - 1 /\ Len(q) + 1 \in 1 .. Len(r)
          /\ \A j \in 1 .. Len(q) : j \in 1 .. Len(r)
      BY <1>2
    <2> QED
      BY <1>1, <1>2, <1>3, <2>1, <2>2 DEF Some, Only
  <1>9. Answers(t, "Connecting", Len(r) + 1)
    BY <1>3, <1>8 DEF Answers, Replies
  <1>10. Fit(t, "Connecting", "select")
    BY <1>2, <1>7, <1>9, FitMore DEF t
  <1> QED
    BY <1>4, <1>10 DEF h, r, t

(* A reply in character selection, or a snapshot in play, is told last. *)
LEMMA FitTold ==
    ASSUME NEW q \in Seq(Messages), NEW s, NEW n, NEW l, NEW m \in Messages, Fit(q, s, n),
           n # "lost", l # "lost",
           \/ /\ m.kind \in Replies \cup {"Connected"}
              /\ m.kind = "CharacterCreated" => m.id \in Ids
              /\ Chosen(s) \/ Has(q, "HandshakeComplete")
              /\ ~Has(q, "Connected")
           \/ /\ m.kind = "Snapshot"
              /\ \/ Has(q, "Connected")
                 \/ s \in {"Connecting", "Playing"} /\ ~Has(q, "HandshakeComplete")
    PROVE  Fit(q \o <<m>>, s, l)
  <1> DEFINE r == Append(q, m)
             i == Len(q) + 1
  <1>1. /\ q \o <<m>> = r /\ Len(q) \in Nat /\ DOMAIN q = 1 .. Len(q)
        /\ \A k \in 1 .. Len(q) : r[k] = q[k]
        /\ r[Len(q) + 1] = m
    BY OneMore
  <1> HIDE DEF r
  <1>2. \A j : j \in 1 .. i - 1 <=> j \in DOMAIN q
    BY <1>1
  <1>3. \A j \in 1 .. i - 1 : r[j] = q[j]
    BY <1>1
  <1>e. \A k \in DOMAIN q : q[k].kind \notin Ends
    BY FitHas
  <1>4. CASE /\ m.kind \in Replies \cup {"Connected"}
             /\ m.kind = "CharacterCreated" => m.id \in Ids
             /\ Chosen(s) \/ Has(q, "HandshakeComplete")
             /\ ~Has(q, "Connected")
    <2>1. ASSUME NEW j \in DOMAIN q PROVE q[j].kind \in Replies \cup {"HandshakeComplete", "Snapshot"}
      <3>1. Opens(q, s, j) \/ Answers(q, s, j) \/ Shows(q, s, j) \/ Closes(q, n, j)
        BY DEF Fit
      <3> QED
        BY <1>4, <3>1 DEF Has, Opens, Answers, Shows, Closes
    <2>2. Chosen(s) \/ Some(r, i, "HandshakeComplete")
      BY <1>2, <1>3, <1>4 DEF Has, Some
    <2>3. Only(r, i, Replies \cup {"HandshakeComplete", "Snapshot"})
      BY <1>2, <1>3, <2>1 DEF Only
    <2>4. Answers(r, s, i)
      BY <1>1, <1>4, <2>2, <2>3 DEF Answers
    <2>5. Fit(r, s, l)
      BY <2>4, FitMore DEF r
    <2> QED
      BY <1>1, <2>5
  <1>5. CASE /\ m.kind = "Snapshot"
             /\ \/ Has(q, "Connected")
                \/ s \in {"Connecting", "Playing"} /\ ~Has(q, "HandshakeComplete")
    <2>1. \A j \in 1 .. i - 1 : r[j].kind \notin Ends
      BY <1>2, <1>3, <1>e
    <2>2. Has(q, "Connected") => Some(r, i, "Connected")
      BY <1>2, <1>3 DEF Has, Some
    <2>3. ~Has(q, "Connected") => s \in {"Connecting", "Playing"} /\ Only(r, i, {"Snapshot"})
      <3> SUFFICES ASSUME ~Has(q, "Connected")
                   PROVE  s \in {"Connecting", "Playing"} /\ Only(r, i, {"Snapshot"})
        OBVIOUS
      <3>1. s \in {"Connecting", "Playing"} /\ ~Has(q, "HandshakeComplete") /\ ~Chosen(s)
        BY <1>5 DEF Chosen
      <3>2. \A k \in DOMAIN q : q[k].kind = "Snapshot"
        BY <3>1, FitHas
      <3> QED
        BY <1>2, <1>3, <3>1, <3>2 DEF Only
    <2>4. Shows(r, s, i)
      BY <1>1, <1>5, <2>1, <2>2, <2>3 DEF Shows
    <2>5. Fit(r, s, l)
      BY <2>4, FitMore DEF r
    <2> QED
      BY <1>1, <2>5
  <1> QED
    BY <1>4, <1>5

(* A reply that is read in character selection, as an event *)
AsEvent(m) ==
    IF m.kind = "HandshakeAccepted" THEN Plain("Connected")
    ELSE IF m.kind = "HandshakeRejected" THEN Plain("Rejected") ELSE m

(* The reply read in character selection, and its event *)
LEMMA ReplyRead ==
    ASSUME TypeOK, StreamShape, net = "select", toClient # <<>>
    PROVE  /\ Head(toClient) \in Messages /\ AsEvent(Head(toClient)) \in Messages
           /\ \/ /\ Head(toClient).kind \in Replies
                 /\ Head(toClient).kind = "CharacterCreated" => Head(toClient).id \in Ids
              \/ Head(toClient).kind \in {"HandshakeAccepted", "HandshakeRejected"}
  <1>1. /\ toClient \in Seq(Messages)
        /\ Head(toClient) \in Messages /\ Head(toClient) = toClient[1] /\ 1 \in DOMAIN toClient
    BY TypeParts, OneLess DEF RestType
  <1> QED
    BY <1>1, PlainTypes DEF AsEvent, StreamShape

(* No step puts an event out of place. *)
LEMMA EventStep ==
    ASSUME TypeOK, EventShape, PhaseShape, StreamShape, [Next]_vars
    PROVE  EventShape'
  <1>q. events \in Seq(Messages) /\ Fit(events, screen, net)
    BY TypeParts, EventsFit DEF RestType
  <1>u. ASSUME UNCHANGED <<events, screen>>, net = "lost" => net' = "lost" PROVE EventShape'
    BY <1>q, <1>u, FitScreen, EventsFit
  <1>1. CASE UNCHANGED vars
    BY <1>1, <1>u DEF vars, app, netVars
  <1>2. CASE Pressed
    <2>1. \/ screen' = screen \/ (Chosen(screen) /\ Chosen(screen'))
          \/ (screen = "Playing" /\ screen' = "Connecting")
      BY <1>2 DEF Pressed, Idle, Asks, Moves, LogsOut
    <2>2. events' = events /\ net' = net
      BY <1>2 DEF Pressed
    <2> QED
      BY <1>q, <2>1, <2>2, FitScreen, EventsFit
  <1>3. CASE Taken
    <2>1. events # <<>> /\ Apply(Head(events)) /\ events' = Tail(events) /\ net' = net
      BY <1>3 DEF Taken
    <2>2. Head(events) \in Messages
      BY <1>q, <2>1, OneLess
    <2>3. Fit(Tail(events), screen', net)
      BY <1>q, <2>1, <2>2, AppliedScreen, FitLess DEF Chosen
    <2> QED
      BY <2>1, <2>3, EventsFit
  <1>4. CASE Network /\ UNCHANGED <<app, stage, account, asked>>
    <2>s. screen' = screen
      BY <1>4 DEF app
    <2>n. Running => net # "lost"
      BY DEF Running
    <2>1. CASE Fail /\ Running
      BY <1>q, <2>s, <2>1, FitFail, EventsFit DEF Fail, Tell
    <2>2. CASE ReadFirst
      <3>1. CASE Head(toClient).kind = "CharacterList"
        <4>1. net = "greeted" /\ net' = "select" /\ toClient # <<>>
              /\ events' = events \o <<Plain("HandshakeComplete"), Head(toClient)>>
          BY <2>2, <3>1 DEF ReadFirst, Tell
        <4>2. screen = "Connecting" /\ Away
          BY <4>1 DEF PhaseShape, Running
        <4>3. Head(toClient) \in Messages
          BY <4>1, TypeParts, OneLess DEF RestType
        <4> QED
          BY <1>q, <2>s, <3>1, <4>1, <4>2, <4>3, AwayIsSnapshots, FitOpening, EventsFit
      <3>2. CASE Head(toClient).kind # "CharacterList"
        <4>1. net' = "lost" /\ events' = events \o <<Plain("Rejected")>>
          BY <2>2, <3>2 DEF ReadFirst, Tell
        <4> QED
          BY <1>q, <2>s, <4>1, FitFail, EventsFit
      <3> QED
        BY <3>1, <3>2
    <2>3. CASE ReadInSelection
      <3> DEFINE m == Head(toClient)
      <3>1. /\ net = "select" /\ toClient # <<>> /\ events' = events \o <<AsEvent(m)>>
            /\ net' = IF m.kind = "HandshakeAccepted" THEN "play"
                      ELSE IF m.kind = "HandshakeRejected" THEN "lost" ELSE net
        BY <2>3 DEF ReadInSelection, Tell, AsEvent
      <3>2. /\ m \in Messages /\ AsEvent(m) \in Messages
            /\ \/ m.kind \in Replies /\ (m.kind = "CharacterCreated" => m.id \in Ids)
               \/ m.kind \in {"HandshakeAccepted", "HandshakeRejected"}
        BY <3>1, ReplyRead
      <3>3. Opening /\ ~Coming("Connected")
        BY <3>1 DEF PhaseShape, Running
      <3>4. (Chosen(screen) \/ Has(events, "HandshakeComplete")) /\ ~Has(events, "Connected")
        BY <3>3, ComingHas DEF Opening
      <3> HIDE DEF m
      <3>5. CASE m.kind = "HandshakeRejected"
        <4>1. net' = "lost" /\ events' = events \o <<Plain("Rejected")>>
          BY <3>1, <3>5 DEF AsEvent
        <4> QED
          BY <1>q, <2>s, <4>1, FitFail, EventsFit
      <3>6. CASE m.kind # "HandshakeRejected"
        <4>1. /\ AsEvent(m).kind \in Replies \cup {"Connected"}
              /\ AsEvent(m).kind = "CharacterCreated" => AsEvent(m).id \in Ids
          BY <3>2, <3>6 DEF AsEvent, Plain, Of
        <4>2. net # "lost" /\ net' # "lost"
          BY <3>1, <3>6
        <4>3. Fit(events \o <<AsEvent(m)>>, screen, net')
          BY <1>q, <3>2, <3>4, <4>1, <4>2, FitTold
        <4> QED
          BY <2>s, <3>1, <4>3, EventsFit
      <3> QED
        BY <3>5, <3>6
    <2>4. CASE ReadSnapshot
      <3>1. net = "play" /\ net' = "play" /\ events' = events \o <<Plain("Snapshot")>>
        BY <2>4 DEF ReadSnapshot, Tell, netVars
      <3>2. \/ Has(events, "Connected")
            \/ screen \in {"Connecting", "Playing"} /\ ~Has(events, "HandshakeComplete")
        BY <3>1, ComingHas DEF PhaseShape, Running, Away, Opening
      <3>3. Plain("Snapshot") \in Messages /\ Plain("Snapshot").kind = "Snapshot"
        BY PlainTypes DEF Plain, Of
      <3>4. Fit(events \o <<Plain("Snapshot")>>, screen, "play")
        BY <1>q, <3>1, <3>2, <3>3, FitTold
      <3> QED
        BY <2>s, <3>1, <3>4, EventsFit
    <2>5. CASE ReadFails
      <3>1. \/ Fail /\ Running
            \/ net' = "lost" /\ events' = events \o <<Plain("Disconnected")>>
        BY <2>5 DEF ReadFails, Tell, Running
      <3> QED
        BY <1>q, <2>s, <2>1, <3>1, FitFail, EventsFit
    <2>6. CASE ConnectFails \/ TakeRequest
      <3>1. (Fail /\ Running) \/ UNCHANGED <<events, net>>
        BY <2>6 DEF ConnectFails, TakeRequest, TakesAction, Running, Silent
      <3> QED
        BY <1>u, <2>s, <2>1, <3>1
    <2>7. CASE Connect \/ UdpFails \/ TakeEnd \/ TakeMove \/ TakeIgnored \/ ResendFails \/ Abort
      <3>1. events' = events /\ net # "lost"
        BY <2>7 DEF Connect, UdpFails, TakeEnd, TakeMove, TakeIgnored, ResendFails, Abort,
               TakesAction, Silent, Running
      <3> QED
        BY <1>u, <2>s, <3>1
    <2> QED
      BY <1>4, <2>2, <2>3, <2>4, <2>5, <2>6, <2>7 DEF Network
  <1>5. CASE /\ Serve \/ ServerCloses \/ OthersChange
             /\ UNCHANGED <<app, stage, actions, events, netVars, asked>>
    BY <1>5, <1>u DEF app, netVars
  <1> QED
    BY <1>1, <1>2, <1>3, <1>4, <1>5, StepKinds
------------------------------------------------------------------------------
(* PhaseShape and ActionShape.                                             *)

(* Movements and logouts in a queue of actions *)
Still(q) == \A k \in DOMAIN q : ~IsMove(q[k])
LastSays(q, on) ==
    \A k \in DOMAIN q :
        /\ IsMove(q[k])
        /\ \A j \in DOMAIN q : j > k => ~IsMove(q[j])
        => on = (q[k].kind = "SendMove")
Once(q) == \A j, k \in DOMAIN q : q[j].kind = "Reconnect" /\ q[k].kind = "Reconnect" => j = k

(* An action is added. *)
LEMMA ActionsMore ==
    ASSUME NEW q \in Seq(Messages), NEW m \in Messages, NEW on
    PROVE  /\ Still(Append(q, m)) <=> Still(q) /\ ~IsMove(m)
           /\ LastSays(q, on) /\ ~IsMove(m) => LastSays(Append(q, m), on)
           /\ IsMove(m) => LastSays(Append(q, m), m.kind = "SendMove")
           /\ Once(q) /\ (m.kind = "Reconnect" => ~Has(q, "Reconnect")) => Once(Append(q, m))
  <1> DEFINE r == Append(q, m)
  <1>1. /\ Len(q) \in Nat /\ DOMAIN q = 1 .. Len(q) /\ DOMAIN r = 1 .. Len(q) + 1
        /\ \A k \in 1 .. Len(q) : r[k] = q[k]
        /\ r[Len(q) + 1] = m
    BY OneMore
  <1> HIDE DEF r
  <1>2. \A k \in 1 .. Len(q) + 1 : k \in 1 .. Len(q) \/ k = Len(q) + 1
    BY <1>1
  <1>3. Len(q) + 1 \in 1 .. Len(q) + 1 /\ \A k \in 1 .. Len(q) : k \in 1 .. Len(q) + 1 /\ Len(q) + 1 > k
    BY <1>1
  <1>4. Still(r) <=> Still(q) /\ ~IsMove(m)
    BY <1>1, <1>2, <1>3 DEF Still
  <1>5. LastSays(q, on) /\ ~IsMove(m) => LastSays(r, on)
    <2> SUFFICES ASSUME LastSays(q, on), ~IsMove(m), NEW k \in DOMAIN r, IsMove(r[k]),
                        \A j \in DOMAIN r : j > k => ~IsMove(r[j])
                 PROVE  on = (r[k].kind = "SendMove")
      BY DEF LastSays
    <2>1. k \in DOMAIN q /\ r[k] = q[k]
      BY <1>1, <1>2
    <2>2. \A j \in DOMAIN q : j > k => ~IsMove(q[j])
      BY <1>1, <1>3
    <2> QED
      BY <2>1, <2>2 DEF LastSays
  <1>6. IsMove(m) => LastSays(r, m.kind = "SendMove")
    <2> SUFFICES ASSUME IsMove(m), NEW k \in DOMAIN r, IsMove(r[k]),
                        \A j \in DOMAIN r : j > k => ~IsMove(r[j])
                 PROVE  k = Len(q) + 1
      BY <1>1 DEF LastSays
    <2> QED
      BY <1>1, <1>2, <1>3
  <1>7. Once(q) /\ (m.kind = "Reconnect" => ~Has(q, "Reconnect")) => Once(r)
    BY <1>1, <1>2 DEF Once, Has
  <1> QED
    BY <1>4, <1>5, <1>6, <1>7 DEF r

(* The first action is taken. *)
LEMMA ActionsLess ==
    ASSUME NEW q \in Seq(Messages), q # <<>>, NEW on
    PROVE  /\ Still(q) <=> Still(Tail(q)) /\ ~IsMove(Head(q))
           /\ LastSays(q, on) => LastSays(Tail(q), on)
           /\ LastSays(q, on) /\ IsMove(Head(q)) /\ Still(Tail(q)) => on = (Head(q).kind = "SendMove")
           /\ Once(q) => Once(Tail(q))
           /\ Once(q) /\ Head(q).kind = "Reconnect" => ~Has(Tail(q), "Reconnect")
  <1> DEFINE r == Tail(q)
  <1>1. /\ Len(q) \in Nat \ {0} /\ DOMAIN q = 1 .. Len(q) /\ DOMAIN r = 1 .. Len(q) - 1
        /\ Head(q) = q[1]
        /\ \A k \in 1 .. Len(q) - 1 : r[k] = q[k + 1]
        /\ \A k \in 2 .. Len(q) : k - 1 \in 1 .. Len(q) - 1 /\ r[k - 1] = q[k]
    BY OneLess
  <1> HIDE DEF r
  <1>2. \A k \in 1 .. Len(q) : k = 1 \/ k \in 2 .. Len(q)
    BY <1>1
  <1>3. 1 \in 1 .. Len(q) /\ \A k \in 1 .. Len(q) - 1 : k + 1 \in 1 .. Len(q) /\ k + 1 # 1
    BY <1>1
  <1>4. Still(q) <=> Still(r) /\ ~IsMove(Head(q))
    BY <1>1, <1>2, <1>3 DEF Still
  <1>5. LastSays(q, on) => LastSays(r, on)
    <2> SUFFICES ASSUME LastSays(q, on), NEW k \in DOMAIN r, IsMove(r[k]),
                        \A j \in DOMAIN r : j > k => ~IsMove(r[j])
                 PROVE  on = (r[k].kind = "SendMove")
      BY DEF LastSays
    <2>1. k \in 1 .. Len(q) - 1 /\ k + 1 \in DOMAIN q /\ r[k] = q[k + 1]
      BY <1>1, <1>3
    <2>2. ASSUME NEW j \in DOMAIN q, j > k + 1 PROVE ~IsMove(q[j])
      <3>1. j \in 2 .. Len(q) /\ j - 1 > k
        BY <1>1, <2>1, <2>2
      <3> QED
        BY <1>1, <3>1
    <2> QED
      BY <2>1, <2>2 DEF LastSays
  <1>6. LastSays(q, on) /\ IsMove(Head(q)) /\ Still(r) => on = (Head(q).kind = "SendMove")
    <2> SUFFICES ASSUME LastSays(q, on), IsMove(Head(q)), Still(r)
                 PROVE  on = (q[1].kind = "SendMove")
      BY <1>1
    <2>1. 1 \in DOMAIN q /\ IsMove(q[1])
      BY <1>1
    <2>2. \A j \in DOMAIN q : j > 1 => ~IsMove(q[j])
      BY <1>1, <1>2 DEF Still
    <2> QED
      BY <2>1, <2>2 DEF LastSays
  <1>7. Once(q) => Once(r)
    <2> SUFFICES ASSUME Once(q), NEW j \in DOMAIN r, NEW k \in DOMAIN r,
                        r[j].kind = "Reconnect", r[k].kind = "Reconnect"
                 PROVE  j = k
      BY DEF Once
    <2>1. j + 1 \in DOMAIN q /\ k + 1 \in DOMAIN q /\ r[j] = q[j + 1] /\ r[k] = q[k + 1]
      BY <1>1, <1>3
    <2>2. j + 1 = k + 1
      BY <2>1 DEF Once
    <2> QED
      BY <1>1, <2>2
  <1>8. Once(q) /\ Head(q).kind = "Reconnect" => ~Has(r, "Reconnect")
    BY <1>1, <1>3 DEF Once, Has
  <1> QED
    BY <1>4, <1>5, <1>6, <1>7, <1>8 DEF r

(* The two invariants, by the queues *)
Open == Chosen(screen) \/ Has(events, "HandshakeComplete")
Far == ~Open /\ ~Has(events, "Connected")

Phase ==
    /\ net \in {"start", "greeted"} => screen = "Connecting" /\ Far
    /\ net = "select" => Open /\ ~Has(events, "Connected")
    /\ net = "play" =>
        \/ Open /\ Has(events, "Connected")
        \/ screen = "Playing" /\ Far
        \/ screen = "Connecting" /\ Far /\ Has(actions, "Reconnect")
Calm == Chosen(screen) => ~entity /\ ~world /\ ~moving
InWorld ==
    /\ screen = "Playing" => entity
    /\ stage \in {"main", "pause"} => screen \in {"Playing", "Disconnected"}
Steady ==
    /\ net = "greeted" \/ (net \in {"select", "play"} /\ Open) => Still(actions) /\ ~heading
    /\ net = "play" /\ ~Open =>
        /\ Still(actions) => moving = heading
        /\ LastSays(actions, moving)
Leaving ==
    net \in {"start", "greeted", "select", "play"} =>
        /\ Has(actions, "Reconnect") => net = "play" /\ screen = "Connecting" /\ Far
        /\ Once(actions)

(* The two invariants in parts, before a step and after it *)
LEMMA PhaseParts ==
    ASSUME TypeOK, TypeOK'
    PROVE  /\ PhaseShape <=> Phase /\ Calm /\ InWorld
           /\ PhaseShape' <=> Phase' /\ Calm' /\ InWorld'
           /\ ActionShape <=> Steady /\ Leaving
           /\ ActionShape' <=> Steady' /\ Leaving'
  <1>1. net \in {"start", "greeted", "select", "play", "lost", "quit"}
        /\ net' \in {"start", "greeted", "select", "play", "lost", "quit"}
    BY DEF TypeOK
  <1>2. Opening <=> Open
    BY ComingHas DEF Opening, Open
  <1>3. Away <=> Far
    BY <1>2, ComingHas DEF Away, Far
  <1>4. Opening' <=> Open'
    BY ComingHas DEF Opening, Open
  <1>5. Away' <=> Far'
    BY <1>4, ComingHas DEF Away, Far
  <1>6. PhaseShape <=> Phase /\ Calm /\ InWorld
    BY <1>2, <1>3, ComingHas DEF PhaseShape, Phase, Calm, InWorld, Running, Has
  <1>7. PhaseShape' <=> Phase' /\ Calm' /\ InWorld'
    BY <1>4, <1>5, ComingHas DEF PhaseShape, Phase, Calm, InWorld, Running, Has
  <1>8. ActionShape <=> Steady /\ Leaving
    BY <1>1, <1>2, <1>3 DEF ActionShape, Steady, Leaving, Running, Has, Once, NoMoves, LastMove, Still, LastSays
  <1>9. ActionShape' <=> Steady' /\ Leaving'
    BY <1>1, <1>4, <1>5 DEF ActionShape, Steady, Leaving, Running, Has, Once, NoMoves, LastMove, Still, LastSays
  <1> QED
    BY <1>6, <1>7, <1>8, <1>9

(* What a key does to the two invariants *)
LEMMA PressedPhase ==
    ASSUME TypeOK, TypeOK', EventShape, PhaseShape, ActionShape, Pressed
    PROVE  PhaseShape' /\ ActionShape'
  <1>q. /\ actions \in Seq(Messages) /\ events \in Seq(Messages) /\ Fit(events, screen, net)
        /\ moving \in BOOLEAN /\ moving' \in BOOLEAN
    BY TypeParts, EventsFit DEF RestType, AppType
  <1>p. Phase /\ Calm /\ InWorld /\ Steady /\ Leaving
    BY PhaseParts
  <1>u. /\ events' = events /\ net' = net /\ heading' = heading /\ entity' = entity /\ world' = world
        /\ stage' \in {"main", "pause"} => stage \in {"main", "pause"}
    BY DEF Pressed
  <1>h. /\ Has(events, "HandshakeComplete") => screen = "Connecting"
        /\ Has(events, "Connected") => Open
    BY <1>q, FitHas DEF Open
  <1>g. screen = "Playing" => ~Open /\ Far
    BY <1>h DEF Open, Far, Chosen
  <1>n. net \in {"start", "greeted", "select", "play", "lost", "quit"}
    BY DEF TypeOK
  <1>1. CASE Idle
    <2>1. actions' = actions /\ moving' = moving /\ Open' = Open /\ Far' = Far
          /\ Chosen(screen') = Chosen(screen)
          /\ (screen' = screen \/ Chosen(screen'))
      BY <1>1, <1>u DEF Idle, Open, Far
    <2>2. Chosen(screen') => screen' \notin {"Connecting", "Playing", "Disconnected"}
      BY DEF Chosen
    <2>3. Phase' /\ Leaving'
      BY <1>p, <1>u, <2>1, <2>2 DEF Phase, Leaving, Far, Open
    <2>4. Calm' /\ Steady'
      BY <1>p, <1>u, <2>1 DEF Calm, Steady
    <2>5. InWorld'
      BY <1>p, <1>u, <1>1 DEF InWorld, Idle, Chosen
    <2> QED
      BY <2>3, <2>4, <2>5, PhaseParts
  <1>2. CASE Asks
    <2>1. PICK m \in Messages :
            /\ m.kind \in {"CreateCharacter", "DeleteCharacter", "SelectCharacter", "SendDisconnect"}
            /\ actions' = Append(actions, m)
      BY <1>2 DEF Asks
    <2>2. screen' = screen /\ moving' = moving /\ Open' = Open /\ Far' = Far
      BY <1>2, <1>u DEF Asks, Open, Far
    <2>3. ~IsMove(m) /\ m.kind # "Reconnect"
      BY <2>1 DEF IsMove
    <2>4. /\ Still(actions') <=> Still(actions)
          /\ \A on : LastSays(actions, on) => LastSays(actions', on)
          /\ Once(actions) => Once(actions')
          /\ Has(actions', "Reconnect") <=> Has(actions, "Reconnect")
      BY <1>q, <2>1, <2>3, ActionsMore, HasMore
    <2>5. Phase' /\ Leaving'
      BY <1>p, <1>u, <2>2, <2>4 DEF Phase, Leaving
    <2>6. Calm' /\ Steady' /\ InWorld'
      BY <1>p, <1>u, <2>2, <2>4 DEF Calm, Steady, InWorld
    <2> QED
      BY <2>5, <2>6, PhaseParts
  <1>3. CASE Moves
    <2>1. PICK m \in Messages :
            /\ m.kind = (IF moving' THEN "SendMove" ELSE "SendMoveStop")
            /\ actions' = Append(actions, m)
      BY <1>3 DEF Moves
    <2>2. screen' = screen /\ Open' = Open /\ Far' = Far
      BY <1>3, <1>u DEF Moves, Open, Far
    <2>3. screen \in {"Playing", "Disconnected"}
      BY <1>3, <1>p DEF Moves, InWorld
    <2>4. IsMove(m) /\ m.kind # "Reconnect" /\ moving' = (m.kind = "SendMove")
      BY <1>q, <2>1 DEF IsMove
    <2>5. /\ LastSays(actions', moving') /\ ~Still(actions')
          /\ Once(actions) => Once(actions')
          /\ Has(actions', "Reconnect") <=> Has(actions, "Reconnect")
      BY <1>q, <2>1, <2>4, ActionsMore, HasMore
    <2>6. ~Open /\ net # "greeted"
      BY <1>h, <1>p, <2>3 DEF Open, Chosen, Phase
    <2>7. Phase' /\ Leaving'
      BY <1>p, <1>u, <2>2, <2>5 DEF Phase, Leaving
    <2>8. Steady'
      BY <1>u, <2>2, <2>5, <2>6 DEF Steady
    <2>9. Calm' /\ InWorld'
      BY <1>p, <1>u, <2>2, <2>3 DEF Calm, InWorld, Chosen
    <2> QED
      BY <2>7, <2>8, <2>9, PhaseParts
  <1>4. CASE LogsOut
    <2>1. PICK m \in Messages : m.kind = "Reconnect" /\ actions' = Append(actions, m)
      BY <1>4 DEF LogsOut
    <2>2. screen = "Playing" /\ screen' = "Connecting" /\ moving' = moving /\ Far /\ ~Open
      BY <1>4, <1>g DEF LogsOut
    <2>3. Far' /\ ~Open'
      BY <1>u, <2>2 DEF Far, Open, Chosen
    <2>4. ~IsMove(m)
      BY <2>1 DEF IsMove
    <2>5. net \in {"play", "lost", "quit"}
      BY <1>n, <1>p, <2>2 DEF Phase, Far
    <2>6. net = "play" => ~Has(actions, "Reconnect") /\ Once(actions)
      BY <1>p, <2>2 DEF Leaving
    <2>7. /\ Still(actions') <=> Still(actions)
          /\ \A on : LastSays(actions, on) => LastSays(actions', on)
          /\ net = "play" => Once(actions')
          /\ Has(actions', "Reconnect")
      BY <1>q, <2>1, <2>4, <2>6, ActionsMore, HasMore
    <2>8. Phase' /\ Leaving'
      BY <1>u, <2>2, <2>3, <2>5, <2>7 DEF Phase, Leaving
    <2>9. Steady'
      BY <1>p, <1>u, <2>2, <2>3, <2>5, <2>7 DEF Steady
    <2>10. Calm' /\ InWorld'
      BY <1>p, <1>u, <1>4, <2>2 DEF Calm, InWorld, Chosen, LogsOut
    <2> QED
      BY <2>8, <2>9, <2>10, PhaseParts
  <1> QED
    BY <1>1, <1>2, <1>3, <1>4 DEF Pressed

(* What an applied event does to the fields that the invariants speak of *)
LEMMA AppliedFields ==
    ASSUME NEW e \in Messages, Apply(e)
    PROVE  /\ e.kind = "HandshakeComplete" => ~entity' /\ ~world' /\ ~moving'
           /\ e.kind \in Replies => UNCHANGED <<entity, world, moving>>
           /\ e.kind = "Connected" => entity' /\ moving' = moving
           /\ e.kind = "Snapshot" => entity' = entity /\ moving' = moving
  BY DEF Apply, HandshakeComplete, CharacterList, CharacterCreated, CharacterDeleted, Connected,
         Snapshot, Selecting, Replies, ShowDisconnected, app

(* What the next event does to them *)
LEMMA TakenPhase ==
    ASSUME TypeOK, TypeOK', EventShape, EventShape', PhaseShape, ActionShape, Taken
    PROVE  PhaseShape' /\ ActionShape'
  <1> DEFINE e == Head(events)
  <1>q. /\ actions \in Seq(Messages) /\ events \in Seq(Messages) /\ Fit(events, screen, net)
        /\ events' \in Seq(Messages) /\ Fit(events', screen', net')
    BY TypeParts, EventsFit DEF RestType
  <1>p. Phase /\ Calm /\ InWorld /\ Steady /\ Leaving
    BY PhaseParts
  <1>u. /\ events # <<>> /\ Apply(e) /\ events' = Tail(events)
        /\ net' = net /\ heading' = heading
        /\ stage' \in {"main", "pause"} => stage \in {"main", "pause"} \/ e.kind = "Connected"
    BY DEF Taken
  <1>e. e \in Messages
    BY <1>q, <1>u, OneLess
  <1>f. \/ e.kind = "HandshakeComplete" /\ screen = "Connecting"
        \/ e.kind \in Replies \cup {"Connected"} /\ Chosen(screen)
        \/ e.kind = "Snapshot" /\ screen \in {"Connecting", "Playing"}
        \/ e.kind \in Ends /\ net = "lost"
    BY <1>q, <1>u, FitHead
  <1>s. /\ e.kind = "HandshakeComplete" => screen' = "CharacterSelect"
        /\ (e.kind \in Replies /\ Chosen(screen)) => Chosen(screen')
        /\ e.kind = "Connected" => screen' = "Playing"
        /\ e.kind = "Snapshot" => screen' = screen
        /\ e.kind \in Ends => screen' = "Disconnected"
    BY <1>e, <1>u, AppliedScreen
  <1>d. /\ e.kind = "HandshakeComplete" => ~entity' /\ ~world' /\ ~moving'
        /\ e.kind \in Replies => UNCHANGED <<entity, world, moving>>
        /\ e.kind = "Connected" => entity' /\ moving' = moving
        /\ e.kind = "Snapshot" => entity' = entity /\ moving' = moving
    BY <1>e, <1>u, AppliedFields
  <1>h. \A kind : Has(events, kind) <=> Has(events', kind) \/ e.kind = kind
    BY <1>q, <1>u, HasLess
  <1>k. /\ Has(events, "HandshakeComplete") => screen = "Connecting"
        /\ Has(events', "HandshakeComplete") => screen' = "Connecting"
        /\ Has(events', "Connected") => Open'
    BY <1>q, FitHas DEF Open
  <1>a. /\ Still(actions') <=> Still(actions)
        /\ \A on : LastSays(actions, on) => LastSays(actions', on)
        /\ Once(actions) => Once(actions')
        /\ Has(actions', "Reconnect") <=> Has(actions, "Reconnect")
    <2>1. CASE actions' = actions
      BY <2>1
    <2>2. ASSUME NEW m \in Messages, actions' = Append(actions, m),
                 m.kind \in {"RequestCharacterList", "CreateCharacter", "SelectCharacter"}
          PROVE  /\ Still(actions') <=> Still(actions)
                 /\ \A on : LastSays(actions, on) => LastSays(actions', on)
                 /\ Once(actions) => Once(actions')
                 /\ Has(actions', "Reconnect") <=> Has(actions, "Reconnect")
      <3>1. ~IsMove(m) /\ m.kind # "Reconnect"
        BY <2>2 DEF IsMove
      <3> QED
        BY <1>q, <2>2, <3>1, ActionsMore, HasMore
    <2> QED
      BY <2>1, <2>2 DEF Taken
  <1>n. net \in {"start", "greeted", "select", "play", "lost", "quit"}
    BY DEF TypeOK
  <1> HIDE DEF e
  <1>c. \A s : Chosen(s) => s \notin {"Connecting", "Playing", "Disconnected"}
    BY DEF Chosen
  <1>z. Chosen("CharacterSelect") /\ ~Chosen("Playing") /\ ~Chosen("Disconnected") /\ ~Chosen("Connecting")
    BY DEF Chosen
  <1>1. CASE e.kind = "Snapshot"
    <2>1. screen' = screen /\ ~Chosen(screen)
      BY <1>1, <1>f, <1>s, <1>c DEF Replies, Ends
    <2>2. /\ Has(events', "HandshakeComplete") <=> Has(events, "HandshakeComplete")
          /\ Has(events', "Connected") <=> Has(events, "Connected")
      BY <1>1, <1>h
    <2>3. (Open' <=> Open) /\ (Far' <=> Far)
      BY <2>1, <2>2 DEF Open, Far
    <2>4. entity' = entity /\ moving' = moving
      BY <1>1, <1>d
    <2>5. Phase' /\ Leaving'
      BY <1>p, <1>u, <1>a, <2>1, <2>2, <2>3 DEF Phase, Leaving
    <2>6. Steady'
      BY <1>p, <1>u, <1>a, <2>3, <2>4 DEF Steady
    <2>7. Calm' /\ InWorld'
      BY <1>p, <1>u, <1>1, <2>1, <2>4 DEF Calm, InWorld
    <2> QED
      BY <2>5, <2>6, <2>7, PhaseParts
  <1>2. CASE e.kind = "Connected"
    <2>1. screen' = "Playing" /\ Chosen(screen) /\ ~Has(events, "HandshakeComplete") /\ Open
      BY <1>2, <1>f, <1>s, <1>k, <1>c DEF Replies, Ends, Open
    <2>2. ~Open' /\ Far'
      BY <1>k, <1>z, <2>1 DEF Open, Far
    <2>3. Has(events, "Connected")
      BY <1>2, <1>h
    <2>4. net \in {"play", "lost", "quit"}
      BY <1>n, <1>p, <2>1, <2>3 DEF Phase, Far
    <2>5. Phase' /\ Leaving'
      BY <1>p, <1>u, <1>a, <1>c, <2>1, <2>2, <2>4 DEF Phase, Leaving
    <2>6. ~moving /\ moving' = moving /\ entity'
      BY <1>p, <1>d, <1>2, <2>1 DEF Calm
    <2>7. net = "play" => Still(actions) /\ ~heading
      BY <1>p, <2>1 DEF Steady
    <2>8. moving \in BOOLEAN /\ heading \in BOOLEAN
      BY TypeParts DEF AppType, RestType
    <2>9. Still(actions) => LastSays(actions, moving)
      BY DEF Still, LastSays
    <2>10. Steady'
      BY <1>u, <1>a, <2>2, <2>4, <2>6, <2>7, <2>8, <2>9 DEF Steady
    <2>11. Calm' /\ InWorld'
      BY <1>z, <2>1, <2>6 DEF Calm, InWorld
    <2> QED
      BY <2>5, <2>10, <2>11, PhaseParts
  <1>3. CASE e.kind = "HandshakeComplete" \/ e.kind \in Replies
    <2>1. /\ Chosen(screen') /\ Open' /\ Open
          /\ e.kind \notin {"Connected", "Snapshot"} /\ e.kind \notin Ends
      BY <1>3, <1>f, <1>s, <1>z, <1>h DEF Replies, Ends, Open
    <2>2. Has(events', "Connected") <=> Has(events, "Connected")
      BY <1>h, <2>1
    <2>3. ~Far /\ net \notin {"start", "greeted"}
      BY <1>p, <2>1 DEF Phase, Far
    <2>4. net \in {"select", "play"} => ~Has(actions, "Reconnect")
      BY <1>p, <2>3 DEF Leaving
    <2>5. net = "play" => Has(events, "Connected")
      BY <1>p, <2>1 DEF Phase, Far
    <2>6. Phase' /\ Leaving'
      BY <1>p, <1>u, <1>a, <2>1, <2>2, <2>3, <2>4, <2>5 DEF Phase, Leaving
    <2>7. Steady'
      BY <1>p, <1>u, <1>a, <2>1, <2>3 DEF Steady
    <2>8. ~entity' /\ ~world' /\ ~moving'
      BY <1>p, <1>3, <1>d, <1>f DEF Calm, Replies, Ends
    <2>9. Calm' /\ screen' # "Playing"
      BY <1>c, <2>1, <2>8 DEF Calm
    <2>10. stage' \in {"main", "pause"} => FALSE
      <3>1. stage' \in {"main", "pause"} => screen \in {"Playing", "Disconnected"}
        BY <1>u, <1>p, <2>1 DEF InWorld
      <3> QED
        BY <1>3, <1>f, <1>c, <2>1, <3>1
    <2> QED
      BY <2>6, <2>7, <2>9, <2>10, PhaseParts DEF InWorld
  <1>4. CASE e.kind \in Ends
    <2>1. screen' = "Disconnected" /\ net = "lost"
      BY <1>4, <1>f, <1>s DEF Ends, Replies
    <2>2. Phase' /\ Leaving' /\ Steady'
      BY <1>u, <2>1 DEF Phase, Leaving, Steady
    <2> QED
      BY <1>z, <2>1, <2>2, PhaseParts DEF Calm, InWorld
  <1> QED
    BY <1>1, <1>2, <1>3, <1>4, <1>f

(* What a step of the network task does to them *)
LEMMA NetworkPhase ==
    ASSUME TypeOK, TypeOK', EventShape, PhaseShape, ActionShape, StreamShape,
           Network, UNCHANGED <<app, stage, account, asked>>
    PROVE  PhaseShape' /\ ActionShape'
  <1>q. /\ actions \in Seq(Messages) /\ events \in Seq(Messages)
        /\ moving \in BOOLEAN /\ heading \in BOOLEAN
    BY TypeParts DEF RestType, AppType
  <1>p. Phase /\ Calm /\ InWorld /\ Steady /\ Leaving
    BY PhaseParts
  <1>u. UNCHANGED <<screen, entity, world, moving, stage>>
    BY DEF app
  <1>c. Calm' /\ InWorld'
    BY <1>p, <1>u DEF Calm, InWorld
  <1>l. ASSUME net' \in {"lost", "quit"} PROVE PhaseShape' /\ ActionShape'
    BY <1>c, <1>l, PhaseParts DEF Phase, Steady, Leaving
  <1>e. <<>> \in Seq(Messages) /\ ~Has(<<>>, "Reconnect") /\ Once(<<>>) /\ Still(<<>>)
    BY DEF Has, Once, Still
  <1>t. ASSUME actions # <<>>, actions' = Tail(actions)
        PROVE  /\ Still(actions) <=> Still(actions') /\ ~IsMove(Head(actions))
               /\ \A on : LastSays(actions, on) => LastSays(actions', on)
               /\ Once(actions) => Once(actions')
               /\ Has(actions, "Reconnect") <=>
                    Has(actions', "Reconnect") \/ Head(actions).kind = "Reconnect"
    BY <1>q, <1>t, ActionsLess, HasLess
  <1>1. CASE Connect
    <2>1. /\ net = "start" /\ net' = "greeted" /\ actions' = <<>> /\ ~heading' /\ events' = events
      BY <1>1 DEF Connect, Silent
    <2>2. Far' = Far
      BY <1>u, <2>1 DEF Far, Open
    <2>3. Phase' /\ Leaving' /\ Steady'
      BY <1>p, <1>u, <1>e, <2>1, <2>2 DEF Phase, Leaving, Steady
    <2> QED
      BY <1>c, <2>3, PhaseParts
  <1>2. CASE ConnectFails \/ ReadFails \/ UdpFails \/ ResendFails \/ Abort
    BY <1>2, <1>l DEF ConnectFails, ReadFails, UdpFails, ResendFails, Abort, Fail
  <1>3. CASE ReadFirst
    <2>1. CASE Head(toClient).kind = "CharacterList"
      <3>1. /\ net = "greeted" /\ net' = "select" /\ toClient # <<>>
            /\ actions' = actions /\ heading' = heading
            /\ events' = events \o <<Plain("HandshakeComplete"), Head(toClient)>>
        BY <1>3, <2>1 DEF ReadFirst, Tell
      <3>2. screen = "Connecting" /\ Far
        BY <1>p, <3>1 DEF Phase
      <3>3. /\ Head(toClient) \in Messages
            /\ Plain("HandshakeComplete") \in Messages
            /\ Plain("HandshakeComplete").kind = "HandshakeComplete"
        BY <3>1, TypeParts, OneLess, PlainTypes DEF RestType, Plain, Of
      <3> DEFINE r == Append(events, Plain("HandshakeComplete"))
      <3>4. events' = Append(r, Head(toClient)) /\ r \in Seq(Messages)
        <4>1. Away
          BY <3>1 DEF PhaseShape, Running
        <4>2. Fit(events, "Connecting", net)
          BY <3>2, EventsFit
        <4>3. events' = Append(r, Head(toClient))
          BY <1>q, <2>1, <3>1, <3>3, <4>1, <4>2, AwayIsSnapshots, FitOpening
        <4> QED
          BY <1>q, <3>3, <4>3, OneMore
      <3>5. \A kind : Has(r, kind) <=> Has(events, kind) \/ kind = "HandshakeComplete"
        BY <1>q, <3>3, HasMore
      <3> HIDE DEF r
      <3>6. \A kind : Has(events', kind) <=> Has(r, kind) \/ kind = "CharacterList"
        BY <2>1, <3>3, <3>4, HasMore
      <3>7. Open' /\ ~Has(events', "Connected")
        BY <3>2, <3>5, <3>6 DEF Open, Far
      <3>8. Phase' /\ Leaving' /\ Steady'
        BY <1>p, <3>1, <3>7 DEF Phase, Leaving, Steady
      <3> QED
        BY <1>c, <3>8, PhaseParts
    <2>2. CASE Head(toClient).kind # "CharacterList"
      BY <1>3, <1>l, <2>2 DEF ReadFirst
    <2> QED
      BY <2>1, <2>2
  <1>4. CASE ReadInSelection
    <2> DEFINE m == Head(toClient)
    <2>1. /\ net = "select" /\ toClient # <<>> /\ events' = events \o <<AsEvent(m)>>
          /\ net' = IF m.kind = "HandshakeAccepted" THEN "play"
                    ELSE IF m.kind = "HandshakeRejected" THEN "lost" ELSE net
          /\ actions' = actions /\ heading' = heading
      BY <1>4 DEF ReadInSelection, Tell, AsEvent
    <2>2. /\ AsEvent(m) \in Messages
          /\ m.kind \in Replies \cup {"HandshakeAccepted", "HandshakeRejected"}
      BY <2>1, ReplyRead
    <2> HIDE DEF m
    <2>3. events' = Append(events, AsEvent(m))
      BY <1>q, <2>1, <2>2, OneMore
    <2>4. \A kind : Has(events', kind) <=> Has(events, kind) \/ AsEvent(m).kind = kind
      BY <1>q, <2>2, <2>3, HasMore
    <2>5. Open /\ ~Has(events, "Connected") /\ ~Has(actions, "Reconnect") /\ Once(actions)
          /\ Still(actions) /\ ~heading
      BY <1>p, <2>1 DEF Phase, Leaving, Steady
    <2>6. Open'
      BY <1>u, <2>4, <2>5 DEF Open
    <2>7. CASE m.kind = "HandshakeAccepted"
      <3>1. net' = "play" /\ Has(events', "Connected")
        BY <2>1, <2>4, <2>7 DEF AsEvent, Plain, Of
      <3>2. Phase' /\ Leaving' /\ Steady'
        BY <2>1, <2>5, <2>6, <3>1 DEF Phase, Leaving, Steady
      <3> QED
        BY <1>c, <3>2, PhaseParts
    <2>8. CASE m.kind = "HandshakeRejected"
      BY <1>l, <2>1, <2>8
    <2>9. CASE m.kind \in Replies
      <3>1. net' = "select" /\ AsEvent(m) = m
        BY <2>1, <2>9 DEF AsEvent, Replies
      <3>2. ~Has(events', "Connected")
        BY <2>4, <2>5, <2>9, <3>1 DEF Replies
      <3>3. Phase' /\ Leaving' /\ Steady'
        BY <2>1, <2>5, <2>6, <3>1, <3>2 DEF Phase, Leaving, Steady
      <3> QED
        BY <1>c, <3>3, PhaseParts
    <2> QED
      BY <2>2, <2>7, <2>8, <2>9
  <1>5. CASE ReadSnapshot
    <2>1. /\ net = "play" /\ net' = "play" /\ events' = events \o <<Plain("Snapshot")>>
          /\ actions' = actions /\ heading' = heading
      BY <1>5 DEF ReadSnapshot, Tell, netVars
    <2>2. Plain("Snapshot") \in Messages /\ Plain("Snapshot").kind = "Snapshot"
      BY PlainTypes DEF Plain, Of
    <2>3. events' = Append(events, Plain("Snapshot"))
      BY <1>q, <2>1, <2>2, OneMore
    <2>4. \A kind : Has(events', kind) <=> Has(events, kind) \/ kind = "Snapshot"
      BY <1>q, <2>2, <2>3, HasMore
    <2>5. (Open' <=> Open) /\ (Far' <=> Far)
      BY <1>u, <2>4 DEF Open, Far
    <2>6. Phase' /\ Leaving'
      BY <1>p, <1>u, <2>1, <2>4, <2>5 DEF Phase, Leaving
    <2>7. Steady'
      BY <1>p, <1>u, <2>1, <2>5 DEF Steady
    <2> QED
      BY <1>c, <2>6, <2>7, PhaseParts
  <1>6. CASE TakeEnd
    <2>1. /\ actions # <<>> /\ actions' = Tail(actions) /\ events' = events
          /\ net \in {"select", "play"}
          /\ net' = IF Head(actions).kind = "Reconnect" THEN "start" ELSE "quit"
      BY <1>6 DEF TakeEnd, TakesAction, Silent
    <2>2. CASE Head(actions).kind = "Reconnect"
      <3>1. Has(actions, "Reconnect")
        BY <1>t, <2>1, <2>2
      <3>2. net = "play" /\ screen = "Connecting" /\ Far /\ Once(actions)
        BY <1>p, <2>1, <3>1 DEF Leaving
      <3>3. ~Has(actions', "Reconnect") /\ Once(actions')
        BY <1>q, <2>1, <2>2, <3>2, ActionsLess
      <3>4. Far'
        BY <1>u, <2>1, <3>2 DEF Far, Open
      <3>5. Phase' /\ Leaving' /\ Steady'
        BY <1>u, <2>1, <2>2, <3>2, <3>3, <3>4 DEF Phase, Leaving, Steady
      <3> QED
        BY <1>c, <3>5, PhaseParts
    <2>3. CASE Head(actions).kind # "Reconnect"
      BY <1>l, <2>1, <2>3
    <2> QED
      BY <2>2, <2>3
  <1>7. CASE TakeRequest \/ TakeMove \/ TakeIgnored
    <2>1. /\ actions # <<>> /\ actions' = Tail(actions) /\ net \in {"select", "play"}
          /\ Head(actions).kind \in Requests \cup {"SendMove", "SendMoveStop"}
          /\ net' \in {"lost", "quit"} \/ (net' = net /\ events' = events)
          /\ heading' = IF net = "play" /\ IsMove(Head(actions))
                        THEN Head(actions).kind = "SendMove" ELSE heading
      <3>1. CASE TakeRequest
        BY <3>1 DEF TakeRequest, TakesAction, Silent, Fail, IsMove, Requests
      <3>2. CASE TakeMove
        BY <3>2 DEF TakeMove, TakesAction, Silent, IsMove
      <3>3. CASE TakeIgnored
        BY <3>3 DEF TakeIgnored, TakesAction, Silent, IsMove, Requests, netVars
      <3> QED
        BY <1>7, <3>1, <3>2, <3>3
    <2>2. CASE net' \in {"lost", "quit"}
      BY <1>l, <2>2
    <2>3. CASE net' = net /\ events' = events
      <3>1. (Open' <=> Open) /\ (Far' <=> Far)
            /\ \A kind : Has(events', kind) <=> Has(events, kind)
        BY <1>u, <2>3 DEF Open, Far
      <3>2. /\ Still(actions) <=> Still(actions') /\ ~IsMove(Head(actions))
            /\ \A on : LastSays(actions, on) => LastSays(actions', on)
            /\ Once(actions) => Once(actions')
            /\ Has(actions, "Reconnect") <=> Has(actions', "Reconnect")
        BY <1>t, <2>1 DEF Requests
      <3>3. Phase' /\ Leaving'
        BY <1>p, <1>u, <2>1, <2>3, <3>1, <3>2 DEF Phase, Leaving
      <3>4. CASE Open
        <4>1. Still(actions) /\ ~heading
          BY <1>p, <2>1, <3>4 DEF Steady
        <4>2. Still(actions') /\ ~heading'
          BY <2>1, <3>2, <4>1
        <4>3. Steady'
          BY <2>1, <2>3, <3>1, <3>4, <4>2 DEF Steady
        <4> QED
          BY <1>c, <3>3, <4>3, PhaseParts
      <3>5. CASE ~Open
        <4>1. net = "play"
          BY <1>p, <2>1, <3>5 DEF Phase
        <4>2. (Still(actions) => moving = heading) /\ LastSays(actions, moving)
          BY <1>p, <3>5, <4>1 DEF Steady
        <4>3. Still(actions') => moving' = heading'
          <5>1. CASE IsMove(Head(actions))
            <6>1. Still(actions') => moving = (Head(actions).kind = "SendMove")
              BY <1>q, <2>1, <4>2, <5>1, ActionsLess
            <6> QED
              BY <1>u, <2>1, <4>1, <5>1, <6>1
          <5>2. CASE ~IsMove(Head(actions))
            BY <1>u, <2>1, <3>2, <4>2, <5>2
          <5> QED
            BY <5>1, <5>2
        <4>4. LastSays(actions', moving')
          BY <1>u, <3>2, <4>2
        <4>5. Steady'
          BY <2>3, <3>1, <3>5, <4>1, <4>3, <4>4 DEF Steady
        <4> QED
          BY <1>c, <3>3, <4>5, PhaseParts
      <3> QED
        BY <3>4, <3>5
    <2> QED
      BY <2>1, <2>2, <2>3
  <1> QED
    BY <1>1, <1>2, <1>3, <1>4, <1>5, <1>6, <1>7 DEF Network

(* No step breaks them. *)
LEMMA PhaseStep ==
    ASSUME TypeOK, TypeOK', EventShape, EventShape', PhaseShape, ActionShape, StreamShape, [Next]_vars
    PROVE  PhaseShape' /\ ActionShape'
  <1>1. ASSUME UNCHANGED <<app, stage, actions, events, netVars>> PROVE PhaseShape' /\ ActionShape'
    BY <1>1 DEF app, netVars, PhaseShape, ActionShape, Running, Opening, Away, Choosing, Coming,
           NoMoves, LastMove
  <1> QED
    BY <1>1, PressedPhase, TakenPhase, NetworkPhase, StepKinds DEF vars
------------------------------------------------------------------------------
(* The stream: what may be in it during the character selection, from the  *)
(* server and to it.                                                       *)
Replied(q, c, k) ==
    \/ /\ q[k].kind \in Replies
       /\ q[k].kind = "CharacterCreated" => q[k].id \in Ids
       /\ c = "play" => k < Len(q)
    \/ q[k].kind = "HandshakeAccepted" /\ c # "select" /\ k = Len(q)
    \/ q[k].kind = "HandshakeRejected" /\ c = "closed" /\ k = Len(q)
AllReplied(q, c) == \A k \in DOMAIN q : Replied(q, c, k)
Requested(q) == \A k \in DOMAIN q : q[k].kind \in Requests

(* The phases of the session, each with its stream *)
Greets(s, t, c, o) ==
    /\ \/ c = "handshake" /\ t = <<>> /\ s = <<Plain("Handshake"), Plain("CharacterListRequest")>>
       \/ c = "select" /\ s = <<Plain("CharacterListRequest")>> /\ t = <<>>
       \/ c = "select" /\ s = <<>>
       \/ c = "closed"
    /\ t \in {<<>>, <<Listing(o)>>, <<Plain("HandshakeRejected")>>}
Selects(s, t, c) ==
    /\ c \in {"select", "play", "closed"}
    /\ c # "closed" => Requested(s)
    /\ c = "play" => t # <<>>
    /\ AllReplied(t, c)
Stream(n, s, t, c, o) ==
    /\ n = "start" => c \in {"none", "play", "closed"}
    /\ n = "greeted" => Greets(s, t, c, o)
    /\ n = "select" => Selects(s, t, c)
    /\ n = "play" => c \in {"play", "closed"} /\ t = <<>>

(* StreamShape says this of the variables. *)
LEMMA StreamParts ==
    /\ StreamShape <=> Stream(net, toServer, toClient, conn, told)
    /\ StreamShape' <=> Stream(net', toServer', toClient', conn', told')
  BY DEF StreamShape, Stream, Greets, Selects, AllReplied, Replied, Requested

(* The first reply is taken, and what it was is known. *)
LEMMA RepliedLess ==
    ASSUME NEW q \in Seq(Messages), q # <<>>, NEW c, AllReplied(q, c)
    PROVE  /\ AllReplied(Tail(q), c)
           /\ Head(q).kind \in {"HandshakeAccepted", "HandshakeRejected"} =>
                Tail(q) = <<>> /\ c # "select"
           /\ Head(q).kind = "HandshakeRejected" => c = "closed"
           /\ c = "play" /\ Head(q).kind \notin {"HandshakeAccepted", "HandshakeRejected"} =>
                Tail(q) # <<>>
  <1> DEFINE r == Tail(q)
             n == Len(q)
  <1>1. /\ Head(q) = q[1] /\ n \in Nat \ {0} /\ r \in Seq(Messages) /\ Len(r) = n - 1
        /\ DOMAIN q = 1 .. n /\ DOMAIN r = 1 .. n - 1
        /\ \A k \in 1 .. n - 1 : r[k] = q[k + 1]
    BY OneLess
  <1>2. 1 \in DOMAIN q
    BY <1>1
  <1>3. Replied(q, c, 1)
    BY <1>2 DEF AllReplied
  <1>e. (r = <<>> <=> n = 1)
    BY <1>1, EmptySeq
  <1> HIDE DEF r
  <1>4. ASSUME NEW k \in DOMAIN r PROVE Replied(r, c, k)
    <2>1. k + 1 \in DOMAIN q /\ r[k] = q[k + 1] /\ (k + 1 < n => k < Len(r)) /\ (k + 1 = n => k = Len(r))
      BY <1>1
    <2>2. Replied(q, c, k + 1)
      BY <2>1 DEF AllReplied
    <2> HIDE DEF n
    <2> QED
      BY <2>1, <2>2 DEF Replied, n
  <1>5. /\ q[1].kind \in {"HandshakeAccepted", "HandshakeRejected"} => n = 1 /\ c # "select"
        /\ q[1].kind = "HandshakeRejected" => c = "closed"
        /\ q[1].kind \notin {"HandshakeAccepted", "HandshakeRejected"} => (c = "play" => 1 < n)
    BY <1>3 DEF Replied, Replies
  <1> QED
    BY <1>1, <1>4, <1>5, <1>e DEF AllReplied, r

(* One more reply: of the selection, or the one that ends it. *)
LEMMA RepliedMore ==
    ASSUME NEW q \in Seq(Messages), AllReplied(q, "select"), NEW m \in Messages, NEW c,
           \/ /\ m.kind \in Replies /\ c = "select"
              /\ m.kind = "CharacterCreated" => m.id \in Ids
           \/ m.kind = "HandshakeAccepted" /\ c = "play"
           \/ m.kind = "HandshakeRejected" /\ c = "closed"
    PROVE  AllReplied(Append(q, m), c) /\ Append(q, m) # <<>>
  <1> DEFINE r == Append(q, m)
             n == Len(q)
  <1>1. /\ n \in Nat /\ Len(r) = n + 1 /\ DOMAIN q = 1 .. n /\ DOMAIN r = 1 .. n + 1
        /\ r[n + 1] = m /\ \A k \in 1 .. n : r[k] = q[k]
    BY OneMore
  <1>2. r # <<>>
    BY <1>1, EmptySeq
  <1> HIDE DEF r
  <1>3. ASSUME NEW k \in DOMAIN r PROVE Replied(r, c, k)
    <2>1. CASE k = n + 1
      BY <1>1, <2>1 DEF Replied
    <2>2. CASE k # n + 1
      <3>1. k \in DOMAIN q /\ r[k] = q[k] /\ k < Len(r)
        BY <1>1, <2>2
      <3>2. Replied(q, "select", k)
        BY <3>1 DEF AllReplied
      <3>3. q[k].kind \in Replies /\ (q[k].kind = "CharacterCreated" => q[k].id \in Ids)
        BY <1>1, <3>1, <3>2 DEF Replied
      <3> QED
        BY <3>1, <3>3 DEF Replied
    <2> QED
      BY <2>1, <2>2
  <1> QED
    BY <1>2, <1>3 DEF AllReplied, r

(* A closed connection brings what was sent. *)
LEMMA RepliedClosed ==
    ASSUME NEW q, NEW c, AllReplied(q, c)
    PROVE  AllReplied(q, "closed")
  BY DEF AllReplied, Replied

(* Requests in a queue *)
LEMMA RequestedQueues ==
    ASSUME NEW q \in Seq(Messages), Requested(q)
    PROVE  /\ q # <<>> => Head(q).kind \in Requests /\ Requested(Tail(q))
           /\ \A m \in Messages : m.kind \in Requests => Requested(Append(q, m))
  <1>1. ASSUME q # <<>> PROVE Head(q).kind \in Requests /\ Requested(Tail(q))
    <2>1. /\ Head(q) = q[1] /\ Len(q) \in Nat \ {0}
          /\ DOMAIN q = 1 .. Len(q) /\ DOMAIN Tail(q) = 1 .. Len(q) - 1
          /\ \A k \in 1 .. Len(q) - 1 : Tail(q)[k] = q[k + 1]
      BY <1>1, OneLess
    <2>2. 1 \in DOMAIN q /\ \A k \in DOMAIN Tail(q) : k + 1 \in DOMAIN q
      BY <2>1
    <2> QED
      BY <2>1, <2>2 DEF Requested
  <1>2. ASSUME NEW m \in Messages, m.kind \in Requests PROVE Requested(Append(q, m))
    <2>1. /\ Len(q) \in Nat /\ DOMAIN q = 1 .. Len(q)
          /\ DOMAIN Append(q, m) = 1 .. Len(q) + 1 /\ Append(q, m)[Len(q) + 1] = m
          /\ \A k \in 1 .. Len(q) : Append(q, m)[k] = q[k]
      BY OneMore
    <2>2. \A k \in DOMAIN Append(q, m) : k \in DOMAIN q \/ k = Len(q) + 1
      BY <2>1
    <2> QED
      BY <1>2, <2>1, <2>2 DEF Requested
  <1> QED
    BY <1>1, <1>2

(* StreamShape is kept by every step. *)
LEMMA StreamStep ==
    ASSUME TypeOK, EventShape, ActionShape, StreamShape, [Next]_vars
    PROVE  StreamShape'
  <1>q. /\ toServer \in Seq(Messages) /\ toClient \in Seq(Messages) /\ actions \in Seq(Messages)
        /\ owned \in Seq(Ids) /\ told \in Seq(Ids)
        /\ net \in {"start", "greeted", "select", "play", "lost", "quit"}
    BY TypeParts DEF RestType, AccountType
  <1>p. Stream(net, toServer, toClient, conn, told)
    BY StreamParts
  <1>u. ASSUME UNCHANGED <<toServer, toClient, conn, told>>, net' = net \/ net' \in {"lost", "quit"}
        PROVE StreamShape'
    BY <1>p, <1>u, StreamParts DEF Stream
  <1>l. ASSUME net' \in {"lost", "quit"} PROVE StreamShape'
    BY <1>l, StreamParts DEF Stream
  <1>1. CASE UNCHANGED vars
    BY <1>1, <1>u DEF vars, netVars, tcp, account
  <1>2. CASE Pressed \/ Taken
    BY <1>2, <1>u DEF Pressed, Taken
  <1>3. CASE Network /\ UNCHANGED <<app, stage, account, asked>>
    <2>o. told' = told
      BY <1>3 DEF account
    <2>1. CASE Connect
      <3>1. /\ net' = "greeted" /\ conn' = "handshake" /\ toClient' = <<>>
            /\ toServer' = <<Plain("Handshake"), Plain("CharacterListRequest")>>
        BY <2>1 DEF Connect
      <3> QED
        BY <3>1, StreamParts DEF Stream, Greets
    <2>2. CASE ReadFirst
      <3>1. /\ net = "greeted" /\ toClient # <<>> /\ toClient' = Tail(toClient)
            /\ net' \in {"select", "lost"} /\ UNCHANGED <<toServer, conn>>
        BY <2>2 DEF ReadFirst
      <3>2. Greets(toServer, toClient, conn, told)
        BY <1>p, <3>1 DEF Stream
      <3>3. Tail(toClient) = <<>>
        BY <3>1, <3>2 DEF Greets
      <3>4. conn = "closed" \/ (conn = "select" /\ toServer = <<>>)
        BY <3>1, <3>2 DEF Greets
      <3>5. AllReplied(<<>>, conn) /\ Requested(<<>>)
        BY DEF AllReplied, Requested
      <3>6. Selects(toServer', toClient', conn')
        BY <3>1, <3>3, <3>4, <3>5 DEF Selects
      <3> QED
        BY <1>l, <3>1, <3>6, StreamParts DEF Stream
    <2>3. CASE ReadInSelection
      <3> DEFINE m == Head(toClient)
      <3>1. /\ net = "select" /\ toClient # <<>> /\ toClient' = Tail(toClient)
            /\ UNCHANGED <<toServer, conn>>
            /\ net' = IF m.kind = "HandshakeAccepted" THEN "play"
                      ELSE IF m.kind = "HandshakeRejected" THEN "lost" ELSE net
        BY <2>3 DEF ReadInSelection
      <3>2. Selects(toServer, toClient, conn)
        BY <1>p, <3>1 DEF Stream
      <3>3. /\ AllReplied(Tail(toClient), conn)
            /\ m.kind = "HandshakeAccepted" => Tail(toClient) = <<>> /\ conn # "select"
            /\ conn = "play" /\ m.kind \notin {"HandshakeAccepted", "HandshakeRejected"} =>
                 Tail(toClient) # <<>>
        BY <1>q, <3>1, <3>2, RepliedLess DEF Selects
      <3> HIDE DEF m
      <3>4. CASE m.kind = "HandshakeAccepted"
        <4>1. net' = "play" /\ conn' \in {"play", "closed"} /\ toClient' = <<>>
          BY <3>1, <3>2, <3>3, <3>4 DEF Selects
        <4> QED
          BY <4>1, StreamParts DEF Stream
      <3>5. CASE m.kind = "HandshakeRejected"
        BY <1>l, <3>1, <3>5
      <3>6. CASE m.kind \notin {"HandshakeAccepted", "HandshakeRejected"}
        <4>1. net' = "select" /\ Selects(toServer', toClient', conn')
          BY <3>1, <3>2, <3>3, <3>6 DEF Selects
        <4> QED
          BY <4>1, StreamParts DEF Stream
      <3> QED
        BY <3>4, <3>5, <3>6
    <2>4. CASE ReadSnapshot
      BY <1>u, <2>o, <2>4 DEF ReadSnapshot, netVars, tcp
    <2>5. CASE ConnectFails \/ ReadFails \/ UdpFails \/ ResendFails \/ Abort
      BY <1>l, <2>5 DEF ConnectFails, ReadFails, UdpFails, ResendFails, Abort, Fail
    <2>6. CASE TakeEnd
      <3>1. /\ net \in {"select", "play"} /\ actions # <<>>
            /\ net' = IF Head(actions).kind = "Reconnect" THEN "start" ELSE "quit"
            /\ conn' = conn
        BY <2>6 DEF TakeEnd, TakesAction, Write
      <3>2. CASE Head(actions).kind = "Reconnect"
        <4>1. 1 \in DOMAIN actions /\ actions[1].kind = "Reconnect"
          BY <1>q, <3>1, <3>2, OneLess
        <4>2. net = "play"
          BY <3>1, <4>1 DEF ActionShape, Running
        <4>3. conn \in {"play", "closed"}
          BY <1>p, <4>2 DEF Stream
        <4> QED
          BY <3>1, <3>2, <4>3, StreamParts DEF Stream
      <3> QED
        BY <1>l, <3>1, <3>2
    <2>7. CASE TakeRequest
      <3>1. CASE UNCHANGED tcp
        BY <1>u, <2>o, <2>7, <3>1 DEF TakeRequest, Fail, tcp
      <3>2. CASE Write(Head(actions)) /\ UNCHANGED net
        <4>1. /\ net = "select" /\ net' = net /\ actions # <<>> /\ Head(actions).kind \in Requests
              /\ toServer' = IF conn = "closed" THEN toServer ELSE Append(toServer, Head(actions))
              /\ UNCHANGED <<toClient, conn>>
          BY <2>7, <3>2 DEF TakeRequest, TakesAction, Write
        <4>2. Selects(toServer, toClient, conn) /\ Head(actions) \in Messages
          BY <1>p, <1>q, <4>1, OneLess DEF Stream
        <4>3. conn # "closed" => Requested(toServer')
          BY <1>q, <4>1, <4>2, RequestedQueues DEF Selects
        <4>4. Selects(toServer', toClient', conn')
          BY <4>1, <4>2, <4>3 DEF Selects
        <4> QED
          BY <4>1, <4>4, StreamParts DEF Stream
      <3> QED
        BY <2>7, <3>1, <3>2 DEF TakeRequest
    <2>8. CASE TakeMove \/ TakeIgnored
      BY <1>u, <2>o, <2>8 DEF TakeMove, TakeIgnored, netVars, tcp
    <2> QED
      BY <1>3, <2>1, <2>2, <2>3, <2>4, <2>5, <2>6, <2>7, <2>8 DEF Network
  <1>4. CASE /\ Serve \/ ServerCloses \/ OthersChange
             /\ UNCHANGED <<app, stage, actions, events, netVars, asked>>
    <2>n. net' = net
      BY <1>4 DEF netVars
    <2>g. net = "greeted" => Greets(toServer, toClient, conn, told)
      BY <1>p DEF Stream
    <2>s. net = "select" => Selects(toServer, toClient, conn)
      BY <1>p DEF Stream
    <2>1. CASE conn' = "closed" /\ UNCHANGED <<toClient, told>>
      <3>1. net = "greeted" => Greets(toServer', toClient', conn', told')
        BY <2>g, <2>1 DEF Greets
      <3>2. net = "select" => Selects(toServer', toClient', conn')
        BY <2>s, <2>1, RepliedClosed DEF Selects
      <3> QED
        BY <1>p, <2>n, <2>1, <3>1, <3>2, StreamParts DEF Stream
    <2>2. CASE ServeHandshake
      <3>1. /\ conn = "handshake" /\ toServer # <<>> /\ toServer' = Tail(toServer) /\ told' = told
            /\ \/ conn' = "select" /\ toClient' = toClient
               \/ conn' = "closed" /\ toClient' = Append(toClient, Plain("HandshakeRejected"))
        BY <2>2 DEF ServeHandshake, Request, Reply, NoReply, account
      <3>2. net \in {"greeted", "lost", "quit"}
        BY <1>p, <1>q, <3>1 DEF Stream, Selects
      <3>3. ASSUME net = "greeted" PROVE Greets(toServer', toClient', conn', told')
        <4>1. toClient = <<>> /\ toServer = <<Plain("Handshake"), Plain("CharacterListRequest")>>
          BY <2>g, <3>1, <3>3 DEF Greets
        <4>2. Tail(toServer) = <<Plain("CharacterListRequest")>>
          BY <4>1
        <4>3. Append(toClient, Plain("HandshakeRejected")) = <<Plain("HandshakeRejected")>>
          BY <4>1
        <4> QED
          BY <3>1, <4>1, <4>2, <4>3 DEF Greets
      <3> QED
        BY <1>l, <2>n, <3>2, <3>3, StreamParts DEF Stream
    <2>3. CASE Serve /\ conn = "select" /\ net = "greeted"
      <3>1. toServer = <<Plain("CharacterListRequest")>> /\ toClient = <<>>
        <4>1. toServer # <<>>
          BY <2>3 DEF Serve, ServeHandshake, ServeList, ServeCreate, ServeDelete, ServeSelect,
                 ServeInPlay, ServeDisconnect, Request
        <4> QED
          BY <2>g, <2>3, <4>1 DEF Greets
      <3>2. Head(toServer).kind = "CharacterListRequest" /\ Tail(toServer) = <<>>
        BY <3>1 DEF Plain, Of
      <3>3. ServeList
        BY <2>3, <3>2 DEF Serve, ServeHandshake, ServeCreate, ServeDelete, ServeSelect,
               ServeInPlay, ServeDisconnect, Request
      <3>4. /\ toServer' = Tail(toServer) /\ conn' = conn
            /\ \/ toClient' = toClient /\ told' = told
               \/ toClient' = Append(toClient, Listing(owned)) /\ told' = owned
        BY <3>3 DEF ServeList, Request, Reply, NoReply, account
      <3>5. Append(<<>>, Listing(owned)) = <<Listing(owned)>>
        OBVIOUS
      <3>6. Greets(toServer', toClient', conn', told')
        BY <2>3, <3>1, <3>2, <3>4, <3>5 DEF Greets
      <3> QED
        BY <2>n, <2>3, <3>6, StreamParts DEF Stream
    <2>4. CASE Serve /\ conn = "select" /\ net = "select"
      <3>1. /\ Requested(toServer) /\ AllReplied(toClient, "select")
            /\ toServer # <<>> /\ toServer' = Tail(toServer)
        <4>1. toServer # <<>> /\ toServer' = Tail(toServer)
          BY <2>4 DEF Serve, ServeHandshake, ServeList, ServeCreate, ServeDelete, ServeSelect,
                 ServeInPlay, ServeDisconnect, Request
        <4> QED
          BY <2>s, <2>4, <4>1 DEF Selects
      <3>2. Head(toServer).kind \in Requests /\ Requested(toServer')
        BY <1>q, <3>1, RequestedQueues
      <3>3. \/ toClient' = toClient /\ conn' = conn
            \/ \E m \in Messages :
                /\ toClient' = Append(toClient, m)
                /\ \/ /\ m.kind \in Replies /\ conn' = "select"
                      /\ m.kind = "CharacterCreated" => m.id \in Ids
                   \/ m.kind = "HandshakeAccepted" /\ conn' = "play"
                   \/ m.kind = "HandshakeRejected" /\ conn' = "closed"
        <4>1. CASE ServeList
          <5>1. Listing(owned) \in Messages /\ Listing(owned).kind = "CharacterList"
            BY <1>q, MessageTypes DEF Listing
          <5> QED
            BY <2>4, <4>1, <5>1 DEF ServeList, Reply, NoReply, Replies
        <4>2. CASE ServeCreate
          <5>1. nextId <= MaxId => nextId \in Ids
            BY TypeParts, BoundsAssumption DEF RestType, AccountType, Ids
          <5>2. /\ nextId <= MaxId => Of("CharacterCreated", nextId) \in Messages
                /\ Plain("CharacterCreateFailed") \in Messages
            BY <5>1, PlainTypes, OfTypes
          <5> QED
            BY <2>4, <4>2, <5>1, <5>2 DEF ServeCreate, InsertRow, Reply, Replies, Plain, Of
        <4>3. CASE ServeDelete
          <5>1. Head(toServer) \in Messages
            BY <1>q, <3>1, OneLess
          <5>2. Of("CharacterDeleted", Head(toServer).id) \in Messages
            BY <5>1, OfTypes DEF Messages
          <5> QED
            BY <2>4, <4>3, <5>2 DEF ServeDelete, Reply, NoReply, Replies, Of
        <4>4. CASE ServeSelect
          BY <2>4, <4>4, PlainTypes DEF ServeSelect, Reply, Replies, Plain, Of
        <4>5. ~ServeHandshake /\ ~ServeInPlay /\ ~ServeDisconnect
          BY <2>4, <3>2 DEF ServeHandshake, ServeInPlay, ServeDisconnect, Request, Requests
        <4> QED
          BY <2>4, <4>1, <4>2, <4>3, <4>4, <4>5 DEF Serve
      <3>4. CASE toClient' = toClient /\ conn' = conn
        <4>1. Selects(toServer', toClient', conn')
          BY <2>4, <3>1, <3>2, <3>4 DEF Selects
        <4> QED
          BY <2>n, <2>4, <4>1, StreamParts DEF Stream
      <3>5. ASSUME NEW m \in Messages, toClient' = Append(toClient, m),
                   \/ /\ m.kind \in Replies /\ conn' = "select"
                      /\ m.kind = "CharacterCreated" => m.id \in Ids
                   \/ m.kind = "HandshakeAccepted" /\ conn' = "play"
                   \/ m.kind = "HandshakeRejected" /\ conn' = "closed"
            PROVE  StreamShape'
        <4>1. AllReplied(toClient', conn') /\ toClient' # <<>>
          BY <1>q, <3>1, <3>5, RepliedMore
        <4>2. Selects(toServer', toClient', conn')
          BY <3>2, <3>5, <4>1 DEF Selects
        <4> QED
          BY <2>n, <2>4, <4>2, StreamParts DEF Stream
      <3> QED
        BY <3>3, <3>4, <3>5
    <2>5. CASE ServeInPlay
      <3>1. conn = "play" /\ UNCHANGED <<toClient, conn, told>> /\ toServer # <<>> /\ toServer' = Tail(toServer)
        BY <2>5 DEF ServeInPlay, Request, NoReply, account
      <3>2. net # "greeted"
        BY <2>g, <3>1 DEF Greets
      <3>3. net = "select" => Selects(toServer', toClient', conn')
        BY <1>q, <2>s, <3>1, RequestedQueues DEF Selects
      <3> QED
        BY <1>p, <2>n, <3>1, <3>2, <3>3, StreamParts DEF Stream
    <2>6. CASE ServeDisconnect \/ ServerCloses
      BY <2>1, <2>6 DEF ServeDisconnect, ServerCloses, NoReply, account
    <2>7. CASE Serve /\ conn = "select" /\ net \notin {"greeted", "select"}
      <3>1. net \in {"lost", "quit"}
        BY <1>p, <1>q, <2>7 DEF Stream
      <3> QED
        BY <1>l, <2>n, <3>1
    <2>9. CASE OthersChange
      BY <1>u, <2>n, <2>9 DEF OthersChange, Untold, tcp
    <2>8. ServeList \/ ServeCreate \/ ServeDelete \/ ServeSelect => conn = "select"
      BY DEF ServeList, ServeCreate, ServeDelete, ServeSelect, Request
    <2> QED
      BY <1>4, <2>2, <2>3, <2>4, <2>5, <2>6, <2>7, <2>8, <2>9 DEF Serve
  <1> QED
    BY <1>1, <1>2, <1>3, <1>4, StepKinds
------------------------------------------------------------------------------
(* The lists.  The application's list leads, by the events on their way and *)
(* then by the replies on theirs, to the list the server has told of.      *)
(* (TLC cannot enumerate the lists on the way: the runs check what follows *)
(* from it.)                                                               *)
ListsFollow ==
    \E mid \in Seq(Ids) :
        /\ Leads(listed, events, mid)
        /\ net \in {"select", "play"} => Leads(mid, toClient, told)

(* The lists at both ends, and a queue that gets one message that changes  *)
(* no list *)
LEMMA LeadsFacts ==
    ASSUME NEW a, NEW b, NEW q \in Seq(Messages), Leads(a, q, b)
    PROVE  /\ a \in Seq(Ids) /\ b \in Seq(Ids) /\ ~Twice(a) /\ ~Twice(b)
           /\ \A m \in Messages : Neutral(m) =>
                Leads(a, Append(q, m), b) /\ Leads(a, q \o <<m>>, b)
  <1>1. Len(q) \in Nat /\ 0 \in 0 .. Len(q) /\ Len(q) \in 0 .. Len(q)
    BY LenProperties
  <1>2. a \in Seq(Ids) /\ b \in Seq(Ids) /\ ~Twice(a) /\ ~Twice(b)
    BY <1>1 DEF Leads
  <1>3. ASSUME NEW m \in Messages, Neutral(m)
        PROVE  Leads(a, Append(q, m), b) /\ Leads(a, q \o <<m>>, b)
    <2>1. Effect(m, b) = b
      BY <1>3 DEF Neutral, Effect
    <2>2. Leads(a, Append(q, m), Effect(m, b))
      BY <1>2, <2>1, LeadsMore
    <2>3. q \o <<m>> = Append(q, m)
      BY OneMore
    <2> QED
      BY <2>1, <2>2, <2>3
  <1> QED
    BY <1>2, <1>3

(* An applied event changes the application's list by its effect. *)
LEMMA AppliedList ==
    ASSUME NEW e \in Messages, Apply(e)
    PROVE  /\ listed' = Effect(e, listed)
           /\ e.kind = "HandshakeComplete" => ~confirm'
           /\ e.kind = "CharacterDeleted" => ~confirm'
           /\ confirm' => confirm
           /\ e.kind \notin {"CharacterList", "CharacterCreated", "CharacterDeleted"} =>
                UNCHANGED <<listed, cursor, asked>>
  BY DEF Apply, Effect, HandshakeComplete, CharacterList, CharacterCreated, CharacterDeleted, Connected,
         Snapshot, Selecting, ShowDisconnected, ConfirmAfterDelete, app

(* The cursor and the question, as ListShape and InStep have them *)
OnList == listed # <<>> => cursor < Len(listed)
About == (listed # <<>> /\ asked = Under) \/ (asked = Nobody /\ untold # 0)
Question == confirm => stage \in {"tui", "leaving", "over"} /\ About

(* What a key or a line of a script does to the list: nothing; the cursor  *)
(* stays on it, and the question is about the character under the cursor,  *)
(* or about none.                                                          *)
LEMMA PressedList ==
    ASSUME TypeOK, OnList, Question, Terminal \/ Script, ~TuiTakesEvent, ~ScriptTakesEvent
    PROVE  /\ listed' = listed /\ OnList' /\ Question' /\ (AtTerminal' => AtTerminal)
  <1>a. listed \in Seq(Ids) /\ cursor \in Nat /\ Len(listed) \in Nat /\ confirm \in BOOLEAN
    BY TypeParts, LenProperties DEF AppType
  <1>n. untold' = untold
    BY PressedSteps DEF Pressed
  <1>u. ASSUME UNCHANGED <<listed, cursor, confirm, asked>>,
               \/ stage' = stage
               \/ stage \in {"tui", "leaving"} /\ stage' \in {"leaving", "over"}
               \/ stage \in {"main", "pause"} /\ stage' \in {"main", "pause", "over"}
        PROVE  /\ listed' = listed /\ OnList' /\ Question' /\ (AtTerminal' => AtTerminal)
    BY <1>n, <1>u DEF OnList, Question, About, AtTerminal, Under
  <1>1. CASE CharSelectUp \/ CharSelectDown
    <2>1. listed' = listed /\ ~confirm' /\ stage' = stage
      BY <1>1 DEF CharSelectUp, CharSelectDown
    <2>2. listed # <<>> => cursor' < Len(listed)
      BY <1>a, <1>1 DEF CharSelectUp, CharSelectDown, OnList
    <2> QED
      BY <2>1, <2>2 DEF OnList, Question, AtTerminal
  <1>2. CASE CharSelectDelete
    <2>1. /\ listed' = listed /\ cursor' = cursor /\ stage' = stage /\ stage \in {"tui", "leaving"}
          /\ asked' = IF OnCharacter THEN Under ELSE asked
          /\ confirm' => listed # <<>> \/ confirm
      BY <1>a, <1>2 DEF CharSelectDelete, Key
    <2>2. listed # <<>> => asked' = Under
      BY <2>1 DEF OnCharacter, OnList
    <2>3. Under' = Under
      BY <2>1 DEF Under
    <2>4. ~OnCharacter => asked' = asked
      BY <2>1
    <2>5. listed = <<>> => ~OnCharacter
      BY <1>a DEF OnCharacter
    <2>6. ASSUME confirm' PROVE About'
      <3>1. CASE listed # <<>>
        BY <2>1, <2>2, <2>3, <3>1 DEF About
      <3>2. CASE listed = <<>>
        BY <1>n, <2>1, <2>4, <2>5, <2>6, <3>2 DEF About, Question
      <3> QED
        BY <3>1, <3>2
    <2> QED
      BY <2>1, <2>6 DEF OnList, Question, AtTerminal
  <1>3. CASE \/ CharSelectConfirm \/ CharSelectCreate \/ CreateType \/ CreateConfirm \/ CreateCancel
             \/ Logout \/ Quit \/ TuiExits
    <2>1. /\ UNCHANGED <<listed, cursor, confirm, asked>>
          /\ stage' = stage \/ (stage \in {"tui", "leaving"} /\ stage' \in {"leaving", "over"})
      BY <1>3 DEF CharSelectConfirm, CharSelectCreate, CreateType, CreateConfirm, CreateCancel,
             Logout, Quit, TuiExits, Key, app, history
    <2> QED
      BY <1>u, <2>1
  <1>4. CASE ScriptDisconnect \/ ScriptQuit \/ ScriptWait \/ ScriptWaited
    <2>1. /\ UNCHANGED <<listed, cursor, confirm, asked>>
          /\ stage \in {"main", "pause"} /\ stage' \in {"main", "pause", "over"}
      BY <1>4 DEF ScriptDisconnect, ScriptQuit, ScriptWait, ScriptWaited, Line, app, history
    <2> QED
      BY <1>u, <2>1
  <1>5. ASSUME NEW on \in BOOLEAN, (Key({"Playing"}) /\ Move(on)) \/ (Line /\ Move(on))
        PROVE  /\ listed' = listed /\ OnList' /\ Question' /\ (AtTerminal' => AtTerminal)
    BY <1>5, <1>u DEF Move
  <1> QED
    BY <1>1, <1>2, <1>3, <1>4, <1>5 DEF Terminal, Script

(* At the terminal, a list comes before any reply and is the one shown,    *)
(* while the client misses no change.                                      *)
FirstLists(l, q, u) ==
    \A k \in DOMAIN q : q[k].kind = "CharacterList" =>
        (u = 0 => l \in {<<>>, q[k].list}) /\ Only(q, k, {"HandshakeComplete", "Snapshot"})

(* The next event leaves the cursor on the list, and the question on the   *)
(* character it is about: a creation moves both, and a list that differs   *)
(* leaves a question about none.                                           *)
LEMMA TakenList ==
    ASSUME TypeOK, EventShape, OnList, Question, AtTerminal => FirstLists(listed, events, untold),
           TuiTakesEvent \/ ScriptTakesEvent
    PROVE  /\ listed' = Effect(Head(events), listed) /\ OnList' /\ Question'
           /\ (AtTerminal' => AtTerminal)
  <1> DEFINE e == Head(events)
  <1>q. events \in Seq(Messages) /\ events # <<>>
    BY TypeParts DEF RestType, TuiTakesEvent, ScriptTakesEvent
  <1>e. e \in Messages /\ e = events[1] /\ 1 \in DOMAIN events
    BY <1>q, OneLess
  <1>a. /\ listed \in Seq(Ids) /\ cursor \in Nat /\ Len(listed) \in Nat
        /\ confirm \in BOOLEAN /\ e.list \in Seq(Ids)
    BY <1>e, TypeParts, LenProperties DEF AppType, Messages
  <1>d. e.kind = "CharacterCreated" => e.id \in Ids
    BY <1>q, FitHead, EventsFit DEF Replies, Ends
  <1>n. untold' = untold
    BY TakenSteps DEF Taken
  <1>s. /\ Apply(e)
        /\ \/ stage = "tui" /\ stage' = stage
           \/ stage \in {"wait", "main", "pause"} /\ ~AtTerminal'
    BY DEF TuiTakesEvent, ScriptTakesEvent, AtTerminal
  <1> HIDE DEF e
  <1>1. /\ listed' = Effect(e, listed)
        /\ e.kind = "HandshakeComplete" => ~confirm'
        /\ e.kind = "CharacterDeleted" => ~confirm'
        /\ confirm' => confirm
        /\ e.kind \notin {"CharacterList", "CharacterCreated", "CharacterDeleted"} =>
             UNCHANGED <<listed, cursor, asked>>
    BY <1>e, <1>s, AppliedList
  <1>2. AtTerminal' => AtTerminal
    BY <1>s DEF AtTerminal
  <1>3. OnList'
    <2>1. CASE e.kind = "CharacterList"
      <3>1. listed' = e.list /\ cursor' = Clamped(e.list)
        BY <1>s, <2>1 DEF Apply, CharacterList
      <3>2. e.list # <<>> => Clamped(e.list) < Len(e.list)
        BY <1>a, ClampedType
      <3> QED
        BY <3>1, <3>2 DEF OnList
    <2>2. CASE e.kind = "CharacterCreated"
      <3>1. listed' = Append(listed, e.id) /\ cursor' = Len(listed)
        BY <1>s, <2>2 DEF Apply, CharacterCreated
      <3>2. Len(Append(listed, e.id)) = Len(listed) + 1
        BY <1>a, <1>d, <2>2, OneMore
      <3>3. Len(listed') = Len(listed) + 1
        BY <3>1, <3>2
      <3> QED
        BY <1>a, <3>1, <3>3 DEF OnList
    <2>3. CASE e.kind = "CharacterDeleted"
      <3>1. listed' = Without(listed, e.id) /\ cursor' = Clamped(Without(listed, e.id))
        BY <1>s, <2>3 DEF Apply, CharacterDeleted
      <3>2. Without(listed, e.id) \in Seq(Ids)
        BY <1>a, WithoutType
      <3>3. Without(listed, e.id) # <<>> => Clamped(Without(listed, e.id)) < Len(Without(listed, e.id))
        BY <3>2, ClampedType
      <3> QED
        BY <3>1, <3>3 DEF OnList
    <2>4. CASE e.kind \notin {"CharacterList", "CharacterCreated", "CharacterDeleted"}
      BY <1>1, <2>4 DEF OnList
    <2> QED
      BY <2>1, <2>2, <2>3, <2>4
  <1>4. ASSUME confirm' PROVE stage' \in {"tui", "leaving", "over"} /\ About'
    <2>1. stage = "tui" /\ stage' = stage /\ confirm /\ About
      BY <1>1, <1>4, <1>s DEF Question
    <2>2. CASE e.kind = "CharacterList"
      <3>1. /\ listed' = e.list /\ cursor' = Clamped(e.list)
            /\ asked' = IF OnCharacter' /\ Under' = asked THEN asked ELSE Nobody
        BY <1>s, <2>1, <2>2 DEF Apply, CharacterList
      <3>2. OnCharacter' => listed' # <<>>
        <4>1. listed' \in Seq(Ids) /\ cursor' \in Nat
          BY <1>a, <3>1, ClampedType
        <4> QED
          BY <4>1, EmptySeq DEF OnCharacter
      <3>3. ASSUME untold = 0 PROVE OnCharacter' /\ Under' = asked
        <4>1. listed # <<>> /\ asked = Under /\ cursor < Len(listed)
          BY <2>1, <3>3 DEF About, OnList
        <4>2. listed' = listed
          BY <1>e, <2>1, <2>2, <3>1, <3>3, <4>1 DEF FirstLists, AtTerminal
        <4>3. cursor' = cursor
          BY <1>a, <3>1, <4>1, <4>2, ClampedType
        <4> QED
          BY <4>1, <4>2, <4>3 DEF OnCharacter, Under
      <3> HIDE DEF OnCharacter, Under
      <3> QED
        BY <1>n, <2>1, <3>1, <3>2, <3>3 DEF About
    <2>3. CASE e.kind = "CharacterCreated"
      <3>1. listed' = Append(listed, e.id) /\ cursor' = Len(listed) /\ asked' = e.id
        BY <1>s, <2>1, <2>3 DEF Apply, CharacterCreated
      <3>2. Append(listed, e.id)[Len(listed) + 1] = e.id /\ Len(Append(listed, e.id)) = Len(listed) + 1
        BY <1>a, <1>d, <2>3, OneMore
      <3>3. Append(listed, e.id) # <<>>
        BY <1>a, <3>2, EmptySeq
      <3>4. Under' = Append(listed, e.id)[Len(listed) + 1]
        BY <3>1 DEF Under
      <3> QED
        BY <2>1, <3>1, <3>2, <3>3, <3>4 DEF About
    <2>4. CASE e.kind \notin {"CharacterList", "CharacterCreated"}
      <3>1. UNCHANGED <<listed, cursor, asked>>
        BY <1>1, <1>4, <2>4
      <3> QED
        BY <1>n, <2>1, <3>1 DEF About, Under
    <2> QED
      BY <2>2, <2>3, <2>4
  <1> QED
    BY <1>1, <1>2, <1>3, <1>4 DEF Question, e

(* ListShape, in parts *)
Fresh(q, n) == ~Twice(q) /\ \A k \in DOMAIN q : q[k] < n
OwnedShape == Fresh(owned, nextId) /\ Fresh(told, nextId)
Abreast == (~stale => told = owned) /\ (untold = 0 => ~stale)
Outset == untold = 0 /\ net \in {"start", "greeted"} => listed \in {<<>>, owned}
OneList ==
    AtTerminal =>
        /\ FirstLists(listed, events, untold)
        /\ ~Has(actions, "RequestCharacterList")
        /\ net = "select" =>
            /\ ~Has(toClient, "CharacterList")
            /\ conn # "closed" => ~Has(toServer, "RequestCharacterList")

(* These are the parts, before a step and after it. *)
LEMMA ListParts ==
    /\ ListShape <=> ~Twice(listed) /\ OwnedShape /\ Abreast /\ Outset /\ Question /\ OneList
    /\ ListShape' <=> ~Twice(listed') /\ OwnedShape' /\ Abreast' /\ Outset' /\ Question' /\ OneList'
  <1>1. ListShape <=> ~Twice(listed) /\ OwnedShape /\ Abreast /\ Outset /\ Question /\ OneList
    BY DEF ListShape, OwnedShape, Fresh, Abreast, Outset, Question, About, OneList, FirstLists, Has, Before, Only
  <1>2. ListShape' <=> ~Twice(listed') /\ OwnedShape' /\ Abreast' /\ Outset' /\ Question' /\ OneList'
    BY DEF ListShape, OwnedShape, Fresh, Abreast, Outset, Question, About, OneList, FirstLists, Has, Before, Only
  <1> QED
    BY <1>1, <1>2

(* The lists to come, when the first event is taken *)
LEMMA FirstLess ==
    ASSUME NEW l, NEW u, NEW q \in Seq(Messages), q # <<>>, FirstLists(l, q, u)
    PROVE  FirstLists(Effect(Head(q), l), Tail(q), u)
  <1> DEFINE r == Tail(q)
             n == Len(q)
  <1>1. /\ Head(q) = q[1] /\ n \in Nat \ {0} /\ DOMAIN q = 1 .. n /\ DOMAIN r = 1 .. n - 1
        /\ \A k \in 1 .. n - 1 : r[k] = q[k + 1]
    BY OneLess
  <1> HIDE DEF r, n
  <1>2. ASSUME NEW k \in DOMAIN r, r[k].kind = "CharacterList"
        PROVE  /\ u = 0 => Effect(q[1], l) \in {<<>>, r[k].list}
               /\ Only(r, k, {"HandshakeComplete", "Snapshot"})
    <2>1. k + 1 \in DOMAIN q /\ r[k] = q[k + 1] /\ 1 \in 1 .. (k + 1) - 1
      BY <1>1
    <2>2. (u = 0 => l \in {<<>>, r[k].list}) /\ Only(q, k + 1, {"HandshakeComplete", "Snapshot"})
      BY <1>2, <2>1 DEF FirstLists
    <2>3. q[1].kind \in {"HandshakeComplete", "Snapshot"}
      BY <2>1, <2>2 DEF Only
    <2>4. Effect(q[1], l) = l
      BY <2>3 DEF Effect
    <2>5. \A j \in 1 .. k - 1 : j + 1 \in 1 .. (k + 1) - 1 /\ r[j] = q[j + 1]
      BY <1>1
    <2>6. Only(r, k, {"HandshakeComplete", "Snapshot"})
      BY <2>2, <2>5 DEF Only
    <2> QED
      BY <2>2, <2>4, <2>6
  <1> QED
    BY <1>1, <1>2 DEF FirstLists, r

(* The lists to come, when an event that is no list comes last, and when a *)
(* session opens *)
LEMMA FirstMore ==
    ASSUME NEW l, NEW u, NEW q \in Seq(Messages), FirstLists(l, q, u), NEW m \in Messages,
           \/ m.kind # "CharacterList"
           \/ /\ u = 0 => l \in {<<>>, m.list}
              /\ \A k \in DOMAIN q : q[k].kind \in {"HandshakeComplete", "Snapshot"}
    PROVE  FirstLists(l, Append(q, m), u)
  <1> DEFINE r == Append(q, m)
             n == Len(q)
  <1>1. /\ n \in Nat /\ DOMAIN q = 1 .. n /\ DOMAIN r = 1 .. n + 1
        /\ r[n + 1] = m /\ \A k \in 1 .. n : r[k] = q[k]
    BY OneMore
  <1> HIDE DEF r, n
  <1>2. ASSUME NEW k \in DOMAIN r, r[k].kind = "CharacterList"
        PROVE  /\ u = 0 => l \in {<<>>, r[k].list}
               /\ Only(r, k, {"HandshakeComplete", "Snapshot"})
    <2>1. \A j \in 1 .. k - 1 : j \in DOMAIN q /\ r[j] = q[j]
      BY <1>1
    <2>2. CASE k = n + 1
      <3>1. /\ u = 0 => l \in {<<>>, r[k].list}
            /\ \A j \in DOMAIN q : q[j].kind \in {"HandshakeComplete", "Snapshot"}
        BY <1>1, <1>2, <2>2
      <3> QED
        BY <2>1, <3>1 DEF Only
    <2>3. CASE k # n + 1
      <3>1. k \in DOMAIN q /\ r[k] = q[k]
        BY <1>1, <2>3
      <3>2. (u = 0 => l \in {<<>>, q[k].list}) /\ Only(q, k, {"HandshakeComplete", "Snapshot"})
        BY <1>2, <3>1 DEF FirstLists
      <3> QED
        BY <2>1, <3>1, <3>2 DEF Only
    <2> QED
      BY <2>2, <2>3
  <1> QED
    BY <1>2 DEF FirstLists, r

(* Lists of ids below the next one, with that one appended, and with one   *)
(* taken out *)
LEMMA FreshMore ==
    ASSUME NEW q \in Seq(Ids), NEW n \in Ids, Fresh(q, n)
    PROVE  Fresh(Append(q, n), n + 1) /\ Fresh(q, n + 1)
  <1> DEFINE r == Append(q, n)
             l == Len(q)
  <1>1. /\ l \in Nat /\ DOMAIN q = 1 .. l /\ DOMAIN r = 1 .. l + 1
        /\ r[l + 1] = n /\ \A k \in 1 .. l : r[k] = q[k]
    BY OneMore
  <1>2. n \in Nat /\ \A k \in 1 .. l : q[k] \in Nat /\ q[k] < n
    <2>1. \A k \in 1 .. l : q[k] \in Ids
      BY ElementOfSeq
    <2>2. Ids \subseteq Nat
      BY BoundsAssumption DEF Ids
    <2> QED
      BY <1>1, <2>1, <2>2 DEF Fresh
  <1> HIDE DEF r, l
  <1>3. ASSUME NEW k \in 1 .. l + 1 PROVE r[k] < n + 1
    <2>1. CASE k = l + 1
      BY <1>1, <1>2, <2>1
    <2>2. CASE k # l + 1
      <3>1. k \in 1 .. l
        BY <1>1, <2>2
      <3> QED
        BY <1>1, <1>2, <3>1
    <2> QED
      BY <2>1, <2>2
  <1>4. ASSUME NEW j \in 1 .. l + 1, NEW k \in 1 .. l + 1, j # k PROVE r[j] # r[k]
    <2>1. CASE j # l + 1 /\ k # l + 1
      <3>1. j \in 1 .. l /\ k \in 1 .. l
        BY <1>1, <2>1
      <3> QED
        BY <1>1, <1>4, <3>1 DEF Fresh, Twice
    <2>2. CASE j = l + 1
      <3>1. k \in 1 .. l
        BY <1>1, <1>4, <2>2
      <3> QED
        BY <1>1, <1>2, <2>2, <3>1
    <2>3. CASE k = l + 1
      <3>1. j \in 1 .. l
        BY <1>1, <1>4, <2>3
      <3> QED
        BY <1>1, <1>2, <2>3, <3>1
    <2> QED
      BY <2>1, <2>2, <2>3
  <1>5. Fresh(r, n + 1)
    BY <1>1, <1>3, <1>4 DEF Fresh, Twice
  <1>6. \A k \in DOMAIN q : q[k] < n + 1
    BY <1>1, <1>2
  <1> QED
    BY <1>5, <1>6 DEF Fresh, r

LEMMA FreshLess ==
    ASSUME NEW q \in Seq(Ids), NEW n, NEW i, Fresh(q, n)
    PROVE  Fresh(Without(q, i), n)
  <1>1. /\ ~Twice(Without(q, i))
        /\ \A k \in DOMAIN Without(q, i) : \E j \in DOMAIN q : Without(q, i)[k] = q[j]
    BY WithoutType DEF Fresh
  <1> QED
    BY <1>1 DEF Fresh

(* What the statements do to the account *)
LEMMA Statements ==
    ASSUME TypeOK, OwnedShape
    PROVE  /\ InsertRow =>
                /\ nextId \in Ids /\ nextId' = nextId + 1 /\ owned' = Append(owned, nextId)
                /\ Fresh(owned', nextId') /\ Fresh(told, nextId')
                /\ Fresh(Append(told, nextId), nextId')
           /\ \A i : DeleteRow(i) =>
                /\ nextId' = nextId /\ owned' = Without(owned, i)
                /\ Fresh(owned', nextId') /\ Fresh(told, nextId') /\ Fresh(Without(told, i), nextId')
           /\ Untold => untold' # 0 /\ told' = told /\ stale' = TRUE
  <1>q. /\ owned \in Seq(Ids) /\ told \in Seq(Ids)
        /\ nextId \in 1 .. MaxId + 1 /\ untold \in Nat
    BY TypeParts, BoundsAssumption DEF RestType, AccountType
  <1>1. ASSUME InsertRow
        PROVE  /\ nextId \in Ids /\ nextId' = nextId + 1 /\ owned' = Append(owned, nextId)
               /\ Fresh(owned', nextId') /\ Fresh(told, nextId')
               /\ Fresh(Append(told, nextId), nextId')
    <2>1. nextId \in Ids /\ nextId' = nextId + 1 /\ owned' = Append(owned, nextId)
      BY <1>q, <1>1, BoundsAssumption DEF InsertRow, Ids
    <2> QED
      BY <1>q, <2>1, FreshMore DEF OwnedShape
  <1>2. ASSUME NEW i, DeleteRow(i)
        PROVE  /\ nextId' = nextId /\ owned' = Without(owned, i)
               /\ Fresh(owned', nextId') /\ Fresh(told, nextId') /\ Fresh(Without(told, i), nextId')
    <2>1. nextId' = nextId /\ owned' = Without(owned, i)
      BY <1>2 DEF DeleteRow
    <2> QED
      BY <1>q, <2>1, FreshLess DEF OwnedShape
  <1>3. ASSUME Untold PROVE untold' # 0 /\ told' = told /\ stale' = TRUE
    BY <1>q, <1>3 DEF Untold
  <1> QED
    BY <1>1, <1>2, <1>3

(* What the server does to the list it has told of, it tells, and a list   *)
(* in the selection only when it was asked for one.                        *)
LEMMA ServedList ==
    ASSUME TypeOK, StreamShape, OwnedShape, Abreast, Serve \/ ServerCloses \/ OthersChange
    PROVE  /\ OwnedShape' /\ Abreast'
           /\ untold' = 0 => untold = 0
           /\ untold' = 0 /\ net \in {"start", "greeted"} => owned' = owned
           /\ net = "play" => UNCHANGED <<toClient, told>>
           /\ toServer' = toServer \/ (toServer # <<>> /\ toServer' = Tail(toServer))
           /\ conn = "closed" => UNCHANGED <<conn, toServer, toClient>>
           /\ \/ UNCHANGED <<toClient, told>>
              \/ \E m \in Messages :
                    /\ toClient' = Append(toClient, m) /\ told' = Effect(m, told)
                    /\ net = "select" /\ m.kind = "CharacterList" =>
                         toServer # <<>> /\ Head(toServer).kind = "RequestCharacterList"
  <1>q. /\ toServer \in Seq(Messages) /\ toClient \in Seq(Messages)
        /\ owned \in Seq(Ids) /\ told \in Seq(Ids)
    BY TypeParts DEF RestType, AccountType
  <1>p. Stream(net, toServer, toClient, conn, told)
    BY StreamParts
  <1>t. /\ toServer' = toServer \/ (toServer # <<>> /\ toServer' = Tail(toServer))
        /\ conn = "closed" => UNCHANGED <<conn, toServer, toClient>>
    BY DEF Serve, ServeHandshake, ServeList, ServeCreate, ServeDelete, ServeSelect,
           ServeInPlay, ServeDisconnect, Request, ServerCloses, OthersChange, tcp
  <1>n. ASSUME conn = "select", toServer # <<>>
        PROVE  /\ net \notin {"start", "play"}
               /\ net = "greeted" => Head(toServer).kind = "CharacterListRequest"
               /\ net = "select" => Head(toServer).kind \in Requests
    <2>1. net = "greeted" => toServer = <<Plain("CharacterListRequest")>>
      BY <1>p, <1>n DEF Stream, Greets
    <2>2. net = "select" => Requested(toServer)
      BY <1>p, <1>n DEF Stream, Selects
    <2> QED
      BY <1>p, <1>q, <1>n, <2>1, <2>2, RequestedQueues DEF Stream, Plain, Of
  <1>s. \A kind, i : Of(kind, i).kind = kind /\ Plain(kind).kind = kind
    BY DEF Of, Plain
  <1>a. UNCHANGED account => OwnedShape' /\ Abreast' /\ UNCHANGED <<owned, told, untold>>
    BY DEF account, OwnedShape, Abreast
  <1>1. CASE ServeList
    <2>1. /\ conn = "select" /\ toServer # <<>> /\ UNCHANGED <<owned, nextId, untold>>
          /\ Head(toServer).kind \in {"CharacterListRequest", "RequestCharacterList"}
          /\ \/ UNCHANGED <<toClient, told, stale>>
             \/ toClient' = Append(toClient, Listing(owned)) /\ told' = owned /\ stale' = FALSE
      BY <1>1 DEF ServeList, Request, Reply, NoReply
    <2>2. Listing(owned) \in Messages /\ Effect(Listing(owned), told) = owned
      BY <1>q, MessageTypes DEF Listing, Effect
    <2>3. net = "select" => Head(toServer).kind = "RequestCharacterList"
      BY <1>n, <2>1 DEF Requests
    <2>4. net # "play"
      BY <1>n, <2>1
    <2>5. OwnedShape' /\ Abreast'
      BY <2>1 DEF OwnedShape, Abreast
    <2> QED
      BY <1>t, <2>1, <2>2, <2>3, <2>4, <2>5
  <1>2. CASE ServeCreate
    <2>1. /\ conn = "select" /\ toServer # <<>> /\ Head(toServer).kind = "CreateCharacter"
          /\ \/ /\ InsertRow /\ told' = Append(told, nextId) /\ UNCHANGED <<stale, untold>>
                /\ toClient' = Append(toClient, Of("CharacterCreated", nextId))
             \/ /\ UNCHANGED account \/ (InsertRow /\ Untold)
                /\ toClient' = Append(toClient, Plain("CharacterCreateFailed"))
      BY <1>2 DEF ServeCreate, Request, Reply
    <2>2. net \notin {"start", "greeted", "play"}
      BY <1>n, <2>1
    <2>3. CASE /\ UNCHANGED account \/ (InsertRow /\ Untold)
               /\ toClient' = Append(toClient, Plain("CharacterCreateFailed"))
      <3>1. /\ Plain("CharacterCreateFailed") \in Messages
            /\ Effect(Plain("CharacterCreateFailed"), told) = told
            /\ Plain("CharacterCreateFailed").kind # "CharacterList"
        BY <1>s, PlainTypes DEF Effect
      <3>2. OwnedShape' /\ Abreast' /\ told' = told /\ (untold' = 0 => untold = 0)
        BY <1>a, <2>3, Statements DEF OwnedShape, Abreast
      <3> QED
        BY <1>t, <2>2, <2>3, <3>1, <3>2
    <2>4. CASE /\ InsertRow /\ told' = Append(told, nextId) /\ UNCHANGED <<stale, untold>>
               /\ toClient' = Append(toClient, Of("CharacterCreated", nextId))
      <3> DEFINE m == Of("CharacterCreated", nextId)
      <3>1. /\ nextId \in Ids /\ owned' = Append(owned, nextId)
            /\ Fresh(owned', nextId') /\ Fresh(told', nextId')
        BY <2>4, Statements
      <3>2. m \in Messages /\ m.kind = "CharacterCreated" /\ m.id = nextId
        BY <3>1, OfTypes DEF Of
      <3>3. Effect(m, told) = told'
        BY <2>4, <3>2 DEF Effect
      <3>4. OwnedShape' /\ Abreast'
        BY <2>4, <3>1 DEF OwnedShape, Abreast
      <3> QED
        BY <1>t, <2>2, <2>4, <3>2, <3>3, <3>4
    <2> QED
      BY <2>1, <2>3, <2>4
  <1>3. CASE ServeDelete
    <2> DEFINE i == Head(toServer).id
               m == Of("CharacterDeleted", i)
    <2>1. /\ conn = "select" /\ toServer # <<>> /\ Head(toServer).kind = "DeleteCharacter"
          /\ \/ /\ DeleteRow(i) /\ told' = Without(told, i) /\ UNCHANGED <<stale, untold>>
                /\ toClient' = Append(toClient, m)
             \/ /\ UNCHANGED account \/ (DeleteRow(i) /\ Untold)
                /\ toClient' = toClient
      BY <1>3 DEF ServeDelete, Request, Reply, NoReply
    <2>2. net \notin {"start", "greeted", "play"}
      BY <1>n, <2>1
    <2>3. m \in Messages /\ m.kind = "CharacterDeleted" /\ m.id = i
      <3>1. Head(toServer) \in Messages
        BY <1>q, <2>1, OneLess
      <3>2. i \in Ids \cup {Nobody}
        BY <3>1 DEF Messages
      <3> QED
        BY <3>2, OfTypes DEF Of
    <2> HIDE DEF m, i
    <2>4. Effect(m, told) = Without(told, i)
      BY <2>3 DEF Effect
    <2>5. CASE /\ UNCHANGED account \/ (DeleteRow(i) /\ Untold)
               /\ toClient' = toClient
      <3>1. OwnedShape' /\ Abreast' /\ told' = told /\ (untold' = 0 => untold = 0)
        BY <1>a, <2>5, Statements DEF OwnedShape, Abreast
      <3> QED
        BY <1>t, <2>2, <2>5, <3>1
    <2>6. CASE /\ DeleteRow(i) /\ told' = Without(told, i) /\ UNCHANGED <<stale, untold>>
               /\ toClient' = Append(toClient, m)
      <3>1. owned' = Without(owned, i) /\ Fresh(owned', nextId') /\ Fresh(told', nextId')
        BY <2>6, Statements
      <3>2. OwnedShape' /\ Abreast'
        BY <2>6, <3>1 DEF OwnedShape, Abreast
      <3> QED
        BY <1>t, <2>2, <2>3, <2>4, <2>6, <3>2
    <2> QED
      BY <2>1, <2>5, <2>6
  <1>4. CASE ServeHandshake
    <2>1. /\ conn = "handshake" /\ UNCHANGED account
          /\ toClient' = toClient \/ toClient' = Append(toClient, Plain("HandshakeRejected"))
      BY <1>4 DEF ServeHandshake, Request, Reply, NoReply
    <2>2. net # "play"
      BY <1>p, <2>1 DEF Stream
    <2>3. /\ Plain("HandshakeRejected") \in Messages /\ Effect(Plain("HandshakeRejected"), told) = told
          /\ Plain("HandshakeRejected").kind # "CharacterList"
      BY <1>s, PlainTypes DEF Effect
    <2> QED
      BY <1>a, <1>t, <2>1, <2>2, <2>3
  <1>5. CASE ServeSelect
    <2>1. /\ conn = "select" /\ toServer # <<>> /\ UNCHANGED account
          /\ \E kind \in {"HandshakeAccepted", "HandshakeRejected", "CharacterCreateFailed"} :
                toClient' = Append(toClient, Plain(kind))
      BY <1>5 DEF ServeSelect, Request, Reply
    <2>2. net # "play"
      BY <1>n, <2>1
    <2>3. \A kind \in {"HandshakeAccepted", "HandshakeRejected", "CharacterCreateFailed"} :
            /\ Plain(kind) \in Messages /\ Effect(Plain(kind), told) = told
            /\ Plain(kind).kind # "CharacterList"
      BY <1>s, PlainTypes DEF Effect
    <2> QED
      BY <1>a, <1>t, <2>1, <2>2, <2>3
  <1>6. CASE ServeInPlay \/ ServeDisconnect \/ ServerCloses
    <2>1. UNCHANGED account /\ toClient' = toClient
      BY <1>6 DEF ServeInPlay, ServeDisconnect, ServerCloses, NoReply
    <2> QED
      BY <1>a, <1>t, <2>1
  <1>7. CASE OthersChange
    <2>1. (InsertRow \/ \E i : DeleteRow(i)) /\ Untold /\ toClient' = toClient
      BY <1>7 DEF OthersChange, tcp
    <2>2. OwnedShape' /\ Abreast' /\ told' = told /\ untold' # 0
      BY <2>1, Statements DEF OwnedShape, Abreast
    <2> QED
      BY <1>t, <2>1, <2>2
  <1> QED
    BY <1>1, <1>2, <1>3, <1>4, <1>5, <1>6, <1>7 DEF Serve

(* No event is more than a snapshot before a session opens. *)
LEMMA OnlySnapshots ==
    ASSUME TypeOK, EventShape, PhaseShape, net \in {"start", "greeted"}
    PROVE  \A k \in DOMAIN events : events[k].kind = "Snapshot"
  BY AwayIsSnapshots DEF PhaseShape, Running

(* What a key does to the lists *)
LEMMA PressedLists ==
    ASSUME TypeOK, OnList, ListShape, ListsFollow,
           Terminal \/ Script, ~TuiTakesEvent, ~ScriptTakesEvent
    PROVE  OnList' /\ ListShape' /\ ListsFollow'
  <1>l. ~Twice(listed) /\ OwnedShape /\ Abreast /\ Outset /\ Question /\ OneList
    BY ListParts
  <1>1. listed' = listed /\ OnList' /\ Question' /\ (AtTerminal' => AtTerminal)
    BY <1>l, PressedList
  <1>p. Pressed
    BY PressedSteps
  <1>2. UNCHANGED <<events, net, toServer, toClient, conn, owned, nextId, told, stale, untold>>
    BY <1>p DEF Pressed
  <1>3. ListsFollow'
    BY <1>1, <1>2 DEF ListsFollow
  <1>4. ~Twice(listed') /\ OwnedShape' /\ Abreast' /\ Outset'
    BY <1>l, <1>1, <1>2 DEF OwnedShape, Abreast, Outset
  <1>5. Has(actions', "RequestCharacterList") => Has(actions, "RequestCharacterList")
    <2>1. \/ actions' = actions
          \/ \E m \in Messages : m.kind # "RequestCharacterList" /\ actions' = Append(actions, m)
      BY <1>p DEF Pressed, Idle, Asks, Moves, LogsOut
    <2>2. actions \in Seq(Messages)
      BY TypeParts DEF RestType
    <2> QED
      BY <2>1, <2>2, HasMore
  <1>6. OneList'
    BY <1>l, <1>1, <1>2, <1>5 DEF OneList
  <1> QED
    BY <1>1, <1>3, <1>4, <1>6, ListParts

(* What the next event does to them *)
LEMMA TakenLists ==
    ASSUME TypeOK, EventShape, PhaseShape, OnList, ListShape, ListsFollow,
           TuiTakesEvent \/ ScriptTakesEvent
    PROVE  OnList' /\ ListShape' /\ ListsFollow'
  <1> DEFINE e == Head(events)
  <1>l. ~Twice(listed) /\ OwnedShape /\ Abreast /\ Outset /\ Question /\ OneList
    BY ListParts
  <1>1. listed' = Effect(e, listed) /\ OnList' /\ Question' /\ (AtTerminal' => AtTerminal)
    BY <1>l, TakenList DEF OneList
  <1>p. Taken
    BY TakenSteps
  <1>2. /\ UNCHANGED <<net, toServer, toClient, conn, owned, nextId, told, stale, untold>>
        /\ events # <<>> /\ events' = Tail(events) /\ events \in Seq(Messages)
    BY <1>p, TypeParts DEF Taken, RestType
  <1>e. e = events[1] /\ 1 \in DOMAIN events
    BY <1>2, OneLess
  <1> HIDE DEF e
  <1>3. PICK mid \in Seq(Ids) :
            /\ Leads(listed, events, mid)
            /\ net \in {"select", "play"} => Leads(mid, toClient, told)
    BY DEF ListsFollow
  <1>4. Leads(Effect(e, listed), Tail(events), mid) /\ ~Twice(Effect(e, listed))
    BY <1>2, <1>3, LeadsLess DEF e
  <1>5. ListsFollow'
    BY <1>1, <1>2, <1>3, <1>4 DEF ListsFollow
  <1>6. ~Twice(listed') /\ OwnedShape' /\ Abreast'
    BY <1>l, <1>1, <1>2, <1>4 DEF OwnedShape, Abreast
  <1>7. Outset'
    <2>1. net \in {"start", "greeted"} => e.kind = "Snapshot"
      BY <1>e, OnlySnapshots
    <2>2. net \in {"start", "greeted"} => listed' = listed
      BY <1>1, <2>1 DEF Effect
    <2> QED
      BY <1>l, <1>2, <2>2 DEF Outset
  <1>8. OneList'
    <2>1. AtTerminal => FirstLists(listed', events', untold)
      BY <1>l, <1>1, <1>2, FirstLess DEF OneList, e
    <2>2. AtTerminal => actions' = actions
      BY <1>p DEF Taken, AtTerminal
    <2> QED
      BY <1>l, <1>1, <1>2, <2>1, <2>2 DEF OneList
  <1> QED
    BY <1>1, <1>5, <1>6, <1>7, <1>8, ListParts

(* What the server does to them *)
LEMMA ServedLists ==
    ASSUME TypeOK, StreamShape, OnList, ListShape, ListsFollow, Serve \/ ServerCloses \/ OthersChange,
           UNCHANGED <<app, stage, actions, events, netVars, asked>>
    PROVE  OnList' /\ ListShape' /\ ListsFollow'
  <1>l. ~Twice(listed) /\ OwnedShape /\ Abreast /\ Outset /\ Question /\ OneList
    BY ListParts
  <1>u. UNCHANGED <<listed, cursor, confirm, stage, actions, events, net, asked>>
    BY DEF app, netVars
  <1>q. toClient \in Seq(Messages) /\ toServer \in Seq(Messages) /\ told \in Seq(Ids)
    BY TypeParts DEF RestType, AccountType
  <1>1. /\ OwnedShape' /\ Abreast'
        /\ untold' = 0 => untold = 0
        /\ untold' = 0 /\ net \in {"start", "greeted"} => owned' = owned
        /\ net = "play" => UNCHANGED <<toClient, told>>
        /\ toServer' = toServer \/ (toServer # <<>> /\ toServer' = Tail(toServer))
        /\ conn = "closed" => UNCHANGED <<conn, toServer, toClient>>
        /\ \/ UNCHANGED <<toClient, told>>
           \/ \E m \in Messages :
                 /\ toClient' = Append(toClient, m) /\ told' = Effect(m, told)
                 /\ net = "select" /\ m.kind = "CharacterList" =>
                      toServer # <<>> /\ Head(toServer).kind = "RequestCharacterList"
    BY <1>l, ServedList
  <1>2. OnList' /\ Question' /\ ~Twice(listed') /\ Outset' /\ (AtTerminal' => AtTerminal)
    BY <1>l, <1>u, <1>1 DEF OnList, Question, About, Under, Outset, AtTerminal
  <1>3. PICK mid \in Seq(Ids) :
            /\ Leads(listed, events, mid)
            /\ net \in {"select", "play"} => Leads(mid, toClient, told)
    BY DEF ListsFollow
  <1>4. net \in {"select", "play"} => Leads(mid, toClient', told')
    <2>1. CASE UNCHANGED <<toClient, told>>
      BY <1>3, <2>1
    <2>2. ASSUME NEW m \in Messages, toClient' = Append(toClient, m), told' = Effect(m, told),
                 net \in {"select", "play"}
          PROVE  Leads(mid, toClient', told')
      <3>1. told' \in Seq(Ids) /\ ~Twice(told')
        <4>2. TypeOK'
          BY ServerType
        <4> QED
          BY <1>1, <4>2, TypeParts DEF RestType, AccountType, OwnedShape, Fresh
      <3> QED
        BY <1>q, <1>3, <2>2, <3>1, LeadsMore
    <2> QED
      BY <1>1, <2>1, <2>2
  <1>5. ListsFollow'
    BY <1>3, <1>4, <1>u DEF ListsFollow
  <1>6. OneList'
    <2>1. AtTerminal /\ net = "select" /\ conn # "closed" => ~Has(toServer, "RequestCharacterList")
      BY <1>l, <1>1 DEF OneList
    <2>2. Has(toServer', "RequestCharacterList") => Has(toServer, "RequestCharacterList")
      BY <1>q, <1>1, HasLess
    <2>3. toServer # <<>> /\ Head(toServer).kind = "RequestCharacterList" =>
            Has(toServer, "RequestCharacterList")
      BY <1>q, HasLess
    <2>4. AtTerminal /\ net = "select" => ~Has(toClient', "CharacterList")
      <3>1. AtTerminal /\ net = "select" => ~Has(toClient, "CharacterList")
        BY <1>l DEF OneList
      <3>2. ASSUME NEW m \in Messages, toClient' = Append(toClient, m), m.kind # "CharacterList"
            PROVE  Has(toClient', "CharacterList") <=> Has(toClient, "CharacterList")
        BY <1>q, <3>2, HasMore
      <3> QED
        BY <1>1, <2>1, <2>3, <3>1, <3>2
    <2>5. AtTerminal => FirstLists(listed, events, untold')
      BY <1>l, <1>1 DEF OneList, FirstLists
    <2> QED
      BY <1>l, <1>u, <1>1, <1>2, <2>1, <2>2, <2>4, <2>5 DEF OneList
  <1> QED
    BY <1>1, <1>2, <1>5, <1>6, ListParts

(* What the network task does to them *)
LEMMA NetworkLists ==
    ASSUME TypeOK, EventShape, PhaseShape, ActionShape, StreamShape, OnList, ListShape, ListsFollow,
           Network, UNCHANGED <<app, stage, account, asked>>
    PROVE  OnList' /\ ListShape' /\ ListsFollow'
  <1>l. ~Twice(listed) /\ OwnedShape /\ Abreast /\ Outset /\ Question /\ OneList
    BY ListParts
  <1>u. UNCHANGED <<listed, cursor, confirm, stage, owned, nextId, told, stale, untold, asked>>
    BY DEF app, account
  <1>q. /\ toClient \in Seq(Messages) /\ toServer \in Seq(Messages) /\ told \in Seq(Ids)
        /\ events \in Seq(Messages) /\ actions \in Seq(Messages)
        /\ net \in {"start", "greeted", "select", "play", "lost", "quit"}
    BY TypeParts DEF RestType, AccountType
  <1>p. Stream(net, toServer, toClient, conn, told)
    BY StreamParts
  <1>s. \A kind, i : Of(kind, i).kind = kind /\ Plain(kind).kind = kind
    BY DEF Of, Plain
  <1>2. OnList' /\ Question' /\ ~Twice(listed') /\ OwnedShape' /\ Abreast'
        /\ (AtTerminal' <=> AtTerminal)
    BY <1>l, <1>u DEF OnList, Question, About, Under, OwnedShape, Abreast, AtTerminal
  <1>3. PICK mid \in Seq(Ids) :
            /\ Leads(listed, events, mid)
            /\ net \in {"select", "play"} => Leads(mid, toClient, told)
    BY DEF ListsFollow
  <1>z. ASSUME NEW b \in Seq(Ids), Leads(listed, events', b),
               net' \in {"select", "play"} => Leads(b, toClient', told),
               AtTerminal => FirstLists(listed, events', untold),
               AtTerminal => (Has(actions', "RequestCharacterList") => Has(actions, "RequestCharacterList")),
               AtTerminal /\ net' = "select" =>
                  /\ ~Has(toClient', "CharacterList")
                  /\ conn' # "closed" => ~Has(toServer', "RequestCharacterList"),
               net' = "start" => (untold = 0 => listed = owned) \/ net = "start",
               net' = "greeted" => net \in {"start", "greeted"}
        PROVE  OnList' /\ ListShape' /\ ListsFollow'
    <2>1. ListsFollow'
      BY <1>u, <1>z DEF ListsFollow
    <2>2. Outset'
      BY <1>l, <1>u, <1>z DEF Outset
    <2>3. OneList'
      BY <1>l, <1>u, <1>2, <1>z DEF OneList
    <2> QED
      BY <1>2, <2>1, <2>2, <2>3, ListParts
  (* Messages that are no lists, after the events *)
  <1>n. ASSUME NEW m \in Messages, Neutral(m)
        PROVE  /\ Leads(listed, events \o <<m>>, mid) /\ Leads(listed, events \o <<m, m>>, mid)
               /\ AtTerminal => FirstLists(listed, events \o <<m>>, untold)
               /\ AtTerminal => FirstLists(listed, events \o <<m, m>>, untold)
    <2> DEFINE r == Append(events, m)
    <2>1. r \in Seq(Messages) /\ events \o <<m>> = r /\ r \o <<m>> = Append(r, m)
      BY <1>q, OneMore
    <2>2. events \o <<m, m>> = r \o <<m>>
      <3>1. <<m, m>> = <<m>> \o <<m>> /\ <<m>> \in Seq(Messages)
        OBVIOUS
      <3>2. events \o (<<m>> \o <<m>>) = (events \o <<m>>) \o <<m>>
        BY <1>q, <3>1, ConcatAssociative
      <3> QED
        BY <2>1, <3>1, <3>2
    <2>3. m.kind # "CharacterList"
      BY <1>n DEF Neutral
    <2> HIDE DEF r
    <2>4. Leads(listed, r, mid)
      BY <1>q, <1>3, <1>n, LeadsFacts DEF r
    <2>5. Leads(listed, r \o <<m>>, mid)
      BY <1>n, <2>1, <2>4, LeadsFacts
    <2>6. AtTerminal => FirstLists(listed, r, untold)
      BY <1>l, <1>q, <2>3, FirstMore DEF OneList, r
    <2>7. AtTerminal => FirstLists(listed, Append(r, m), untold)
      BY <2>1, <2>3, <2>6, FirstMore
    <2> QED
      BY <2>1, <2>2, <2>4, <2>5, <2>6, <2>7
  <1>o. /\ Plain("Disconnected") \in Messages /\ Neutral(Plain("Disconnected"))
        /\ Plain("Rejected") \in Messages /\ Neutral(Plain("Rejected"))
        /\ Plain("Snapshot") \in Messages /\ Neutral(Plain("Snapshot"))
    BY <1>s, PlainTypes DEF Neutral
  <1>a. actions # <<>> => (Has(Tail(actions), "RequestCharacterList") => Has(actions, "RequestCharacterList"))
    BY <1>q, HasLess
  <1>b. ~Has(<<>>, "RequestCharacterList") /\ ~Has(<<>>, "CharacterList")
    BY DEF Has
  <1>c. AtTerminal /\ net = "select" =>
            /\ ~Has(toClient, "CharacterList")
            /\ conn # "closed" => ~Has(toServer, "RequestCharacterList")
    BY <1>l DEF OneList
  <1>d. AtTerminal => FirstLists(listed, events, untold)
    BY <1>l DEF OneList
  <1>f. ASSUME Fail, actions' = actions \/ (actions # <<>> /\ actions' = Tail(actions)) \/ actions' = <<>>
        PROVE  OnList' /\ ListShape' /\ ListsFollow'
    BY <1>a, <1>b, <1>f, <1>n, <1>o, <1>z DEF Fail, Tell
  <1>e. ASSUME UNCHANGED <<events, toClient, conn>>,
               toServer' = toServer \/ net' # "select",
               actions' = actions \/ (actions # <<>> /\ actions' = Tail(actions)),
               net' \in {net, "lost", "quit"}
        PROVE  OnList' /\ ListShape' /\ ListsFollow'
    BY <1>3, <1>a, <1>c, <1>d, <1>e, <1>z
  <1>4. CASE Connect
    <2>1. /\ net = "start" /\ net' = "greeted" /\ actions' = <<>> /\ events' = events
      BY <1>4 DEF Connect, Silent
    <2> QED
      BY <1>3, <1>b, <1>d, <1>z, <2>1
  <1>5. CASE ConnectFails
    BY <1>5, <1>f DEF ConnectFails
  <1>6. CASE ReadFirst
    <2> DEFINE m == Head(toClient)
               h == Plain("HandshakeComplete")
               r == Append(events, h)
    <2>1. net = "greeted" /\ toClient # <<>> /\ toClient' = Tail(toClient)
          /\ UNCHANGED <<actions, toServer, conn>>
      BY <1>6 DEF ReadFirst
    <2>2. CASE m.kind # "CharacterList"
      <3>1. net' = "lost" /\ events' = events \o <<Plain("Rejected")>>
        BY <1>6, <2>2 DEF ReadFirst, Tell
      <3> QED
        BY <1>n, <1>o, <1>z, <2>1, <3>1
    <2>3. CASE m.kind = "CharacterList"
      <3>1. net' = "select" /\ events' = events \o <<h, m>>
        BY <1>6, <2>3 DEF ReadFirst, Tell
      <3>2. Greets(toServer, toClient, conn, told)
        BY <1>p, <2>1 DEF Stream
      <3>3. m = Listing(told) /\ toClient' = <<>>
        <4>1. toClient \in {<<Listing(told)>>, <<Plain("HandshakeRejected")>>}
          BY <2>1, <3>2 DEF Greets
        <4>2. toClient = <<Listing(told)>>
          BY <1>s, <2>3, <4>1
        <4> QED
          BY <2>1, <4>2
      <3>4. conn # "closed" => toServer = <<>>
        BY <2>1, <3>2 DEF Greets
      <3>5. m \in Messages /\ m.list = told /\ Effect(m, listed) = told
        <4>1. Listing(told) \in Messages
          BY <1>q, MessageTypes
        <4>2. Listing(told).kind = "CharacterList" /\ Listing(told).list = told
          BY DEF Listing
        <4>3. Effect(Listing(told), listed) = told
          BY <4>2 DEF Effect
        <4> QED
          BY <3>3, <4>1, <4>2, <4>3
      <3>6. \A k \in DOMAIN events : events[k].kind = "Snapshot"
        BY <2>1, OnlySnapshots
      <3>7. listed = mid
        BY <1>q, <1>3, <3>6, LeadsStill DEF Neutral
      <3>8. h \in Messages /\ h.kind = "HandshakeComplete" /\ Neutral(h)
        BY <1>s, PlainTypes DEF Neutral
      <3>9. /\ r \in Seq(Messages) /\ DOMAIN r = 1 .. Len(events) + 1 /\ DOMAIN events = 1 .. Len(events)
            /\ r[Len(events) + 1] = h /\ \A k \in 1 .. Len(events) : r[k] = events[k]
            /\ Len(events) \in Nat
        BY <1>q, <3>8, OneMore
      <3>c. Fit(events, "Connecting", "greeted")
        <4>1. screen = "Connecting"
          BY <2>1 DEF PhaseShape, Running
        <4> QED
          BY <2>1, <4>1, EventsFit
      <3>10. events \o <<h, m>> = Append(r, m)
        BY <1>q, <2>3, <3>5, <3>6, <3>c, FitOpening
      <3> HIDE DEF m, h, r
      <3>11. \A k \in DOMAIN r : r[k].kind \in {"HandshakeComplete", "Snapshot"}
        <4>1. \A k \in DOMAIN r : k \in 1 .. Len(events) \/ k = Len(events) + 1
          BY <3>9
        <4> QED
          BY <3>6, <3>8, <3>9, <4>1
      <3>12. Leads(listed, r, listed)
        BY <1>q, <1>3, <3>7, <3>8, LeadsFacts DEF r
      <3>13. Leads(listed, Append(r, m), told)
        BY <1>q, <1>l, <3>5, <3>9, <3>12, LeadsMore DEF OwnedShape, Fresh
      <3>14. Leads(told, <<>>, told)
        BY <1>q, <1>l, LeadsNone DEF OwnedShape, Fresh
      <3>15. AtTerminal => FirstLists(listed, Append(r, m), untold)
        <4>1. AtTerminal => FirstLists(listed, r, untold)
          BY <1>q, <1>d, <3>8, FirstMore DEF r
        <4>2. untold = 0 => listed \in {<<>>, m.list}
          BY <1>l, <2>1, <3>5 DEF Outset, Abreast
        <4> QED
          BY <3>5, <3>9, <3>11, <4>1, <4>2, FirstMore
      <3> QED
        BY <1>b, <1>q, <1>z, <2>1, <3>1, <3>3, <3>4, <3>10, <3>13, <3>14, <3>15
    <2> QED
      BY <2>2, <2>3
  <1>7. CASE ReadInSelection
    <2> DEFINE m == Head(toClient)
               e == AsEvent(m)
               c == Effect(m, mid)
    <2>1. /\ net = "select" /\ toClient # <<>> /\ toClient' = Tail(toClient)
          /\ events' = events \o <<e>> /\ UNCHANGED <<actions, toServer, conn>>
          /\ net' \in {"play", "lost", "select"}
      BY <1>7 DEF ReadInSelection, Tell, AsEvent
    <2>2. m \in Messages /\ e \in Messages
      BY <2>1, ReplyRead
    <2>3. Effect(e, mid) = c /\ (e.kind = "CharacterList" <=> m.kind = "CharacterList")
      BY <1>s DEF AsEvent, Effect
    <2>4. Leads(c, Tail(toClient), told) /\ c \in Seq(Ids) /\ ~Twice(c)
      BY <1>q, <1>3, <2>1, LeadsLess
    <2>5. \A kind : Has(toClient, kind) <=> Has(Tail(toClient), kind) \/ m.kind = kind
      BY <1>q, <2>1, HasLess
    <2>6. events \o <<e>> = Append(events, e)
      BY <1>q, <2>2, OneMore
    <2> HIDE DEF m, e, c
    <2>7. Leads(listed, Append(events, e), c)
      BY <1>q, <1>3, <2>2, <2>3, <2>4, LeadsMore
    <2>8. AtTerminal => FirstLists(listed, Append(events, e), untold)
      BY <1>q, <1>c, <1>d, <2>1, <2>2, <2>3, <2>5, FirstMore
    <2> QED
      BY <1>c, <1>z, <2>1, <2>4, <2>5, <2>6, <2>7, <2>8
  <1>8. CASE ReadSnapshot
    <2>1. /\ net = "play" /\ net' = "play" /\ events' = events \o <<Plain("Snapshot")>>
          /\ UNCHANGED <<toClient, actions>>
      BY <1>8 DEF ReadSnapshot, Tell, netVars, tcp
    <2> QED
      BY <1>3, <1>n, <1>o, <1>z, <2>1
  <1>9. CASE ReadFails
    <2>1. actions' = actions /\ (Fail \/ (net' = "lost" /\ events' = events \o <<Plain("Disconnected")>>))
      BY <1>9 DEF ReadFails, Tell
    <2> QED
      BY <1>f, <1>n, <1>o, <1>z, <2>1
  <1>10. CASE UdpFails \/ ResendFails \/ Abort
    BY <1>10, <1>e DEF UdpFails, ResendFails, Abort, tcp
  <1>11. CASE TakeEnd
    <2>1. /\ net \in {"select", "play"} /\ actions # <<>> /\ actions' = Tail(actions)
          /\ net' = IF Head(actions).kind = "Reconnect" THEN "start" ELSE "quit"
          /\ UNCHANGED <<events, toClient, conn>>
      BY <1>11 DEF TakeEnd, TakesAction, Write, Silent
    <2>2. CASE Head(actions).kind = "Reconnect"
      <3>1. 1 \in DOMAIN actions /\ actions[1].kind = "Reconnect"
        BY <1>q, <2>1, <2>2, OneLess
      <3>2. net = "play" /\ Away
        BY <2>1, <3>1 DEF ActionShape, Running
      <3>3. \A k \in DOMAIN events : events[k].kind = "Snapshot"
        BY <3>2, AwayIsSnapshots
      <3>4. listed = mid
        BY <1>q, <1>3, <3>3, LeadsStill DEF Neutral
      <3>5. toClient = <<>>
        BY <1>p, <3>2 DEF Stream
      <3>6. mid = told
        BY <1>3, <3>2, <3>5, LeadsNone
      <3>7. untold = 0 => told = owned
        BY <1>l DEF Abreast
      <3> QED
        BY <1>3, <1>a, <1>d, <1>z, <2>1, <2>2, <3>4, <3>6, <3>7
    <2>3. CASE Head(actions).kind # "Reconnect"
      BY <1>e, <2>1, <2>3
    <2> QED
      BY <2>2, <2>3
  <1>12. CASE TakeRequest
    <2>1. /\ net = "select" /\ actions # <<>> /\ actions' = Tail(actions)
          /\ Head(actions).kind \in Requests
          /\ \/ Write(Head(actions)) /\ events' = events /\ net' = net
             \/ Fail
      BY <1>12 DEF TakeRequest, TakesAction, Silent
    <2>2. CASE Fail
      BY <1>f, <2>1, <2>2
    <2>3. CASE Write(Head(actions)) /\ events' = events /\ net' = net
      <3>1. /\ toServer' = IF conn = "closed" THEN toServer ELSE Append(toServer, Head(actions))
            /\ UNCHANGED <<toClient, conn>>
        BY <2>3 DEF Write
      <3>2. Head(actions) \in Messages
        BY <1>q, <2>1, OneLess
      <3>3. AtTerminal => Head(actions).kind # "RequestCharacterList"
        BY <1>q, <1>l, <2>1, HasLess DEF OneList
      <3>4. Has(Append(toServer, Head(actions)), "RequestCharacterList") <=>
                Has(toServer, "RequestCharacterList") \/ Head(actions).kind = "RequestCharacterList"
        BY <1>q, <3>2, HasMore
      <3>5. AtTerminal /\ conn # "closed" => ~Has(toServer', "RequestCharacterList")
        BY <1>c, <2>1, <3>1, <3>3, <3>4
      <3> QED
        BY <1>3, <1>a, <1>c, <1>d, <1>z, <2>1, <2>3, <3>1, <3>5
    <2> QED
      BY <2>1, <2>2, <2>3
  <1>13. CASE TakeMove \/ TakeIgnored
    BY <1>13, <1>e DEF TakeMove, TakeIgnored, TakesAction, Silent, netVars, tcp
  <1> QED
    BY <1>4, <1>5, <1>6, <1>7, <1>8, <1>9, <1>10, <1>11, <1>12, <1>13 DEF Network

(* Every step keeps the lists in order. *)
LEMMA ListStep ==
    ASSUME TypeOK, EventShape, PhaseShape, ActionShape, StreamShape, OnList, ListShape, ListsFollow,
           [Next]_vars
    PROVE  OnList' /\ ListShape' /\ ListsFollow'
  <1>1. CASE UNCHANGED vars
    <2>1. UNCHANGED <<listed, cursor, confirm, asked, stage, actions, events, net,
                      toServer, toClient, conn, owned, nextId, told, stale, untold>>
      BY <1>1 DEF vars, app, netVars, tcp, account, history
    <2>2. OnList' /\ ListsFollow'
      BY <2>1 DEF OnList, ListsFollow
    <2>3. ~Twice(listed') /\ OwnedShape' /\ Abreast' /\ Outset' /\ Question' /\ OneList'
      BY <2>1, ListParts DEF OwnedShape, Abreast, Outset, Question, About, Under, OneList, AtTerminal
    <2> QED
      BY <2>2, <2>3, ListParts
  <1>2. CASE TuiTakesEvent \/ ScriptTakesEvent
    BY <1>2, TakenLists
  <1>3. CASE (Terminal \/ Script) /\ ~TuiTakesEvent /\ ~ScriptTakesEvent
    BY <1>3, PressedLists
  <1>4. CASE Network /\ UNCHANGED <<app, stage, account, asked>>
    BY <1>4, NetworkLists
  <1>5. CASE /\ Serve \/ ServerCloses \/ OthersChange
             /\ UNCHANGED <<app, stage, actions, events, netVars, asked>>
    BY <1>5, ServedLists
  <1>6. Network => UNCHANGED <<app, stage, account, asked>>
    BY DEF Network, Connect, ConnectFails, ReadFirst, ReadInSelection, ReadSnapshot, ReadFails,
           UdpFails, TakeEnd, TakeRequest, TakeMove, TakeIgnored, TakesAction, ResendFails, Abort,
           history
  <1>7. Serve \/ ServerCloses \/ OthersChange => UNCHANGED <<app, stage, actions, events, netVars, asked>>
    BY DEF Serve, ServeHandshake, ServeList, ServeCreate, ServeDelete, ServeSelect,
           ServeInPlay, ServeDisconnect, Request, ServerCloses, OthersChange, history
  <1> QED
    BY <1>1, <1>2, <1>3, <1>4, <1>5, <1>6, <1>7 DEF Next
------------------------------------------------------------------------------
(* The whole invariant: IInv without InStep's second part, which follows   *)
(* from the rest, and with the chain of lists.                             *)
Inv ==
    /\ TypeOK /\ OnList
    /\ EventShape /\ PhaseShape /\ ActionShape /\ StreamShape /\ ListShape
    /\ ListsFollow

(* When nothing is on its way, the application is in step. *)
LEMMA QuietInStep ==
    ASSUME Inv
    PROVE  InStep
  <1> SUFFICES ASSUME Quiet, Running, conn # "closed"
               PROVE  /\ screen \in {"Connecting"} <=> net \in {"start", "greeted"}
                      /\ screen \in {"CharacterSelect", "CharacterCreate"} <=> net = "select"
                      /\ screen = "Playing" <=> net = "play"
                      /\ net = "select" => ~entity /\ ~world /\ ~moving /\ conn = "select"
                      /\ net = "play" => entity /\ moving = heading /\ conn = "play"
                      /\ net \in {"select", "play"} => listed = told /\ (~stale => listed = owned)
    BY DEF Inv, InStep, OnList
  <1>1. events = <<>> /\ actions = <<>> /\ toServer = <<>> /\ toClient = <<>>
    BY DEF Quiet
  <1>2. \A k \in DOMAIN actions : FALSE
    BY <1>1
  <1>3. \A kind : ~Coming(kind)
    BY <1>1 DEF Coming
  <1>4. /\ net \in {"start", "greeted"} => screen = "Connecting"
        /\ net = "select" => Choosing
        /\ net = "play" => screen = "Playing"
    BY <1>2, <1>3 DEF Inv, PhaseShape, Opening
  <1>5. /\ net = "select" => ~entity /\ ~world /\ ~moving
        /\ net = "play" => entity
    BY <1>4 DEF Inv, PhaseShape
  <1>6. net = "play" => moving = heading
    <2>1. NoMoves
      BY <1>2 DEF NoMoves
    <2>2. net = "play" => ~Opening
      BY <1>3, <1>4 DEF Opening, Choosing
    <2> QED
      BY <2>1, <2>2 DEF Inv, ActionShape, LastMove
  <1>7. /\ net = "select" => conn = "select"
        /\ net = "play" => conn = "play"
    BY <1>1 DEF Inv, StreamShape
  <1>8. net \in {"select", "play"} => listed = told /\ (~stale => listed = owned)
    <2>1. listed \in Seq(Ids)
      BY TypeParts DEF Inv, AppType
    <2>2. PICK mid \in Seq(Ids) :
            /\ Leads(listed, events, mid)
            /\ net \in {"select", "play"} => Leads(mid, toClient, told)
      BY DEF Inv, ListsFollow
    <2>3. ~stale => told = owned
      BY ListParts DEF Inv, Abreast
    <2> QED
      BY <1>1, <2>1, <2>2, <2>3, LeadsNone
  <1>9. net \in {"start", "greeted", "select", "play"}
    BY DEF Running
  <1> QED
    BY <1>4, <1>5, <1>6, <1>7, <1>8, <1>9 DEF Choosing

(* The invariant holds at the start. *)
LEMMA ClientInit == Init => Inv
  <1> SUFFICES ASSUME Init PROVE Inv
    OBVIOUS
  <1>i. /\ screen = "Connecting" /\ listed = <<>> /\ cursor = 0 /\ confirm = FALSE
        /\ actions = <<>> /\ events = <<>> /\ toServer = <<>> /\ toClient = <<>>
        /\ net = "start" /\ conn = "none" /\ heading = FALSE /\ moving = FALSE
        /\ nextId \in 1 .. MaxId + 1 /\ owned = [i \in 1 .. nextId - 1 |-> i]
        /\ told = owned /\ stale = FALSE /\ untold = 0
        /\ stage \in {"tui", "wait"} /\ keys = 0 /\ failed = FALSE
    BY DEF Init
  <1>e. /\ <<>> \in Seq(Messages) /\ <<>> \in Seq(Ids)
        /\ \A k \in DOMAIN <<>> : FALSE
    OBVIOUS
  <1>o. /\ owned \in Seq(Ids) /\ DOMAIN owned = 1 .. nextId - 1
        /\ \A k \in 1 .. nextId - 1 : owned[k] = k
    <2>1. nextId - 1 \in Nat /\ \A i \in 1 .. nextId - 1 : i \in Ids
      BY <1>i, BoundsAssumption DEF Ids
    <2>2. owned \in [1 .. nextId - 1 -> Ids]
      BY <1>i, <2>1
    <2>3. owned \in Seq(Ids)
      BY <2>1, <2>2, SeqDef
    <2> QED
      BY <1>i, <2>3
  <1>1. TypeOK
    <2>1. AppType
      BY <1>e DEF Init, AppType, Screens
    <2>2. RestType
      <3>1. keys \in 0 .. MaxKeys
        BY <1>i, BoundsAssumption
      <3>2. untold \in 0 .. MaxUntold
        BY <1>i, BoundsAssumption
      <3>3. owned \in Seq(Ids) /\ told \in Seq(Ids)
        BY <1>i, <1>o
      <3>4. AccountType
        BY <1>i, <3>2, <3>3 DEF AccountType
      <3> QED
        BY <1>e, <1>i, <3>1, <3>4 DEF RestType
    <2> QED
      BY <2>1, <2>2, TypeParts
  <1>2. OnList /\ EventShape /\ StreamShape
    BY <1>e, <1>i DEF OnList, EventShape, StreamShape
  <1>3. PhaseShape
    BY <1>e, <1>i DEF PhaseShape, Choosing, Away, Opening, Coming
  <1>4. ActionShape
    BY <1>e, <1>i DEF ActionShape
  <1>5. ListShape
    <2>1. ~Twice(listed) /\ Outset /\ Question
      BY <1>e, <1>i DEF Twice, Outset, Question
    <2>4. Abreast
      BY <1>i DEF Abreast
    <2>2. OwnedShape
      <3>1. \A k \in 1 .. nextId - 1 : k < nextId
        BY <1>i
      <3> QED
        BY <1>i, <1>o, <3>1 DEF OwnedShape, Fresh, Twice
    <2>3. OneList
      BY <1>e, <1>i DEF OneList, FirstLists, Has
    <2> QED
      BY <2>1, <2>2, <2>3, <2>4, ListParts
  <1>6. ListsFollow
    <2>1. ~Twice(<<>>)
      BY <1>e DEF Twice
    <2>2. Leads(<<>>, <<>>, <<>>)
      BY <1>e, <2>1, LeadsNone
    <2> QED
      BY <1>e, <1>i, <2>2 DEF ListsFollow
  <1> QED
    BY <1>1, <1>2, <1>3, <1>4, <1>5, <1>6 DEF Inv

(* Every step keeps it. *)
LEMMA ClientStep == Inv /\ [Next]_vars => Inv'
  <1> SUFFICES ASSUME Inv, [Next]_vars PROVE Inv'
    OBVIOUS
  <1>a. /\ TypeOK /\ OnList /\ EventShape /\ PhaseShape /\ ActionShape /\ StreamShape
        /\ ListShape /\ ListsFollow
    BY DEF Inv
  <1>1. TypeOK'
    <2>1. CASE UNCHANGED vars
      <3>1. AppType' /\ RestType'
        BY <1>a, <2>1, TypeParts DEF vars, app, netVars, tcp, account, history, AppType, RestType, AccountType
      <3> QED
        BY <3>1, TypeParts
    <2>2. CASE Next
      BY <1>a, <2>2, PressType, NetworkType, ServerType DEF Next
    <2> QED
      BY <2>1, <2>2
  <1>2. EventShape'
    BY <1>a, EventStep
  <1>3. PhaseShape' /\ ActionShape'
    BY <1>a, <1>1, <1>2, PhaseStep
  <1>4. StreamShape'
    BY <1>a, StreamStep
  <1>5. OnList' /\ ListShape' /\ ListsFollow'
    BY <1>a, ListStep
  <1> QED
    BY <1>1, <1>2, <1>3, <1>4, <1>5 DEF Inv

(* With any number of keys and characters, in both drivers: the events,    *)
(* the actions and the stream fit the screen and the phase of the session, *)
(* and whenever nothing is on its way the application is in step with the  *)
(* network task and the server: it lists the characters the server told it *)
(* of, which are the account's unless they changed since without a word.   *)
THEOREM ClientInvariance == Spec => []IInv
  <1>1. Inv => IInv
    BY QuietInStep DEF Inv, IInv
  <1> QED
    BY <1>1, ClientInit, ClientStep, PTL DEF Spec

(* A deletion that is sent is for the character the question named: no     *)
(* reply that comes between the two presses of d puts another one under    *)
(* it, except a creation, which the question then names, and, when the     *)
(* account changed without a word to this client, a list that differs.     *)
THEOREM DeletedWasAskedCorrect == Spec => DeletedWasAsked
  <1>1. ASSUME Inv, [Next]_vars
        PROVE  [\A i \in Ids : actions' = Append(actions, Of("DeleteCharacter", i))
                             => asked = i \/ (asked = Nobody /\ untold # 0)]_vars
    <2> SUFFICES ASSUME ~UNCHANGED vars, NEW i \in Ids,
                        actions' = Append(actions, Of("DeleteCharacter", i))
                 PROVE  asked = i \/ (asked = Nobody /\ untold # 0)
      OBVIOUS
    <2> DEFINE d == Of("DeleteCharacter", i)
    <2>t. /\ TypeOK /\ OnList /\ EventShape /\ ListShape
          /\ actions \in Seq(Messages)
      BY <1>1, TypeParts DEF Inv, RestType
    <2>d. d \in Messages /\ d.kind = "DeleteCharacter" /\ d.id = i
      BY OfTypes DEF Of
    <2> HIDE DEF d
    <2>l. /\ Len(Append(actions, d)) = Len(actions) + 1 /\ Len(actions) \in Nat
          /\ Append(actions, d)[Len(actions) + 1] = d
      BY <2>t, <2>d, OneMore
    <2>1. ASSUME NEW m \in Messages, actions' = Append(actions, m) PROVE m = d
      BY <2>1, <2>l, <2>t, OneMore DEF d
    <2>2. actions' # actions /\ actions' # <<>> /\ (actions # <<>> => actions' # Tail(actions))
      <3>1. Len(actions') = Len(actions) + 1
        BY <2>l DEF d
      <3>2. actions # <<>> => Len(Tail(actions)) = Len(actions) - 1
        BY <2>t, OneLess
      <3>3. Len(<<>>) = 0
        OBVIOUS
      <3> QED
        BY <2>l, <3>1, <3>2, <3>3
    <2>3. CASE CharSelectDelete
      <3>1. confirm /\ OnCharacter /\ actions' = Append(actions, Of("DeleteCharacter", Under))
        BY <2>2, <2>3 DEF CharSelectDelete, Send, Nothing
      <3>2. asked = Under \/ (asked = Nobody /\ untold # 0)
        BY <2>t, <3>1 DEF ListShape
      <3>3. Under \in Ids
        <4>1. listed \in Seq(Ids) /\ cursor \in Nat /\ Len(listed) \in Nat
          BY <2>t, TypeParts, LenProperties DEF AppType
        <4>2. cursor + 1 \in 1 .. Len(listed)
          BY <3>1, <4>1 DEF OnCharacter
        <4> QED
          BY <4>1, <4>2, ElementOfSeq DEF Under
      <3>4. Of("DeleteCharacter", Under) \in Messages /\ Of("DeleteCharacter", Under).id = Under
        BY <3>3, OfTypes DEF Of
      <3> HIDE DEF Under
      <3>5. Of("DeleteCharacter", Under) = d
        BY <2>1, <3>1, <3>4
      <3> QED
        BY <2>d, <3>2, <3>4, <3>5
    <2>4. ASSUME ~CharSelectDelete PROVE FALSE
      <3>1. \/ actions' = actions
            \/ actions' = <<>>
            \/ actions # <<>> /\ actions' = Tail(actions)
            \/ \E m \in Messages : m.kind # "DeleteCharacter" /\ actions' = Append(actions, m)
        <4>1. CASE Taken
          BY <4>1 DEF Taken
        <4>2. CASE (Terminal \/ Script) /\ ~TuiTakesEvent /\ ~ScriptTakesEvent
          <5>1. \/ actions' = actions
                \/ \E kind \in {"SendMove", "SendMoveStop", "Reconnect", "SendDisconnect", "CreateCharacter"} :
                        actions' = Append(actions, Plain(kind))
                \/ OnCharacter /\ actions' = Append(actions, Of("SelectCharacter", Under))
            BY <2>4, <4>2
               DEF Terminal, Script, CharSelectUp, CharSelectDown, CharSelectConfirm, CharSelectCreate,
                   CreateType, CreateConfirm, CreateCancel, Logout, Quit, TuiExits, ScriptDisconnect,
                   ScriptQuit, ScriptWait, ScriptWaited, Move, Send, Nothing
          <5>2. OnCharacter => Under \in Ids
            <6>1. listed \in Seq(Ids) /\ cursor \in Nat /\ Len(listed) \in Nat
              BY <2>t, TypeParts, LenProperties DEF AppType
            <6>2. OnCharacter => cursor + 1 \in 1 .. Len(listed)
              BY <6>1 DEF OnCharacter
            <6> QED
              BY <6>1, <6>2, ElementOfSeq DEF Under
          <5> HIDE DEF OnCharacter, Under
          <5>3. OnCharacter => /\ Of("SelectCharacter", Under) \in Messages
                               /\ Of("SelectCharacter", Under).kind = "SelectCharacter"
            BY <5>2, OfTypes DEF Of
          <5>4. \A kind \in {"SendMove", "SendMoveStop", "Reconnect", "SendDisconnect", "CreateCharacter"} :
                    Plain(kind) \in Messages /\ Plain(kind).kind = kind
            BY PlainTypes DEF Plain, Of
          <5> QED
            BY <5>1, <5>3, <5>4
        <4>3. CASE Network
          BY <4>3 DEF Network, Connect, ConnectFails, ReadFirst, ReadInSelection, ReadSnapshot, ReadFails,
                 UdpFails, TakeEnd, TakeRequest, TakeMove, TakeIgnored, TakesAction, ResendFails, Abort
        <4>4. CASE Serve \/ ServerCloses \/ OthersChange
          BY <4>4 DEF Serve, ServeHandshake, ServeList, ServeCreate, ServeDelete, ServeSelect,
                 ServeInPlay, ServeDisconnect, Request, ServerCloses, OthersChange
        <4> QED
          BY <1>1, <2>t, <4>1, <4>2, <4>3, <4>4, TakenSteps DEF Next
      <3>2. ASSUME NEW m \in Messages, m.kind # "DeleteCharacter" PROVE actions' # Append(actions, m)
        BY <2>d, <2>1, <3>2
      <3> QED
        BY <2>2, <3>1, <3>2
    <2> QED
      BY <2>3, <2>4
  <1> QED
    BY <1>1, ClientInit, ClientStep, PTL DEF Spec, DeletedWasAsked
=============================================================================
