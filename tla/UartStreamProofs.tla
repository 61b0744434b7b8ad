-------------------------- MODULE UartStreamProofs --------------------------
(***************************************************************************)
(* Proofs about the two receivers of the UART byte stream, for every value *)
(* of the constants that StreamAssumption admits.                          *)
(*                                                                         *)
(* Whatever a receiver does takes a prefix away from the bytes ahead of it *)
(* (those in its buffer, then those on the wire), and whatever the line    *)
(* does puts bytes behind them.  So the invariants are stated of a         *)
(* sequence of bytes, and shown once to survive each of the two.           *)
(***************************************************************************)
EXTENDS UartStream, SequenceTheorems, WellFoundedInduction, TLAPS

AnyToken == [byte : Nat, frame : Nat, place : Nat]

Ahead == buffer \o wire

\* t is s without its first d bytes.
Suffix(s, t, d) ==
    /\ s \in Seq(AnyToken) /\ t \in Seq(AnyToken) /\ d \in 0..Len(s)
    /\ Len(t) = Len(s) - d
    /\ \A i \in 1..Len(t) : t[i] = s[i + d]

\* The bytes of frames come in the order they were sent in.
Ordered(s) ==
    \A i, j \in 1..Len(s) : i < j /\ s[i].frame > 0 /\ s[j].frame > 0 =>
        \/ s[i].frame < s[j].frame
        \/ s[i].frame = s[j].frame /\ s[i].place < s[j].place

Spoilt(t, bad) == t.frame = 0 \/ t.frame \in bad
Start(t, bad) == t.frame > 0 /\ t.frame \notin bad /\ t.place = 1

\* From byte i on, s carries the rest of frame f, which carries msg.
Sits(s, i, msg, f) ==
    /\ s[i].place \in 1..Len(Encoded(msg, f))
    /\ i + Len(Encoded(msg, f)) - s[i].place <= Len(s)
    /\ \A j \in s[i].place..Len(Encoded(msg, f)) : s[i + j - s[i].place] = Encoded(msg, f)[j]

\* A frame that was not damaged is there to its end, from any byte of it.
Whole(s, bad) ==
    \A i \in 1..Len(s) : s[i].frame > 0 /\ s[i].frame \notin bad =>
        \E msg \in Messages : Sits(s, i, msg, s[i].frame)

\* The byte before one of an undamaged frame is the one sent before it, and
\* in clean frames the two are the magic at the start only.
Inside(s, bad, clean) ==
    \A i \in 2..Len(s) : ~Spoilt(s[i], bad) /\ s[i].place > 1 =>
        /\ s[i - 1].frame = s[i].frame /\ s[i - 1].place = s[i].place - 1
        /\ clean /\ s[i - 1].byte = A /\ s[i].byte = L => s[i].place = 2

\* A place of a frame the CRC would have covered.
Missing(s, f, k) ==
    /\ \A i \in 1..Len(s) : ~(s[i].frame = f /\ s[i].place = k)
    /\ \/ k <= HeaderSize
       \/ \A i \in 1..Len(s) : s[i].frame = f /\ s[i].place = 3 =>
             k <= HeaderSize + s[i].byte + CrcSize

\* A damaged frame lacks a byte that its CRC covers.
Broken(s, bad) == \A f \in bad : \E k \in 1..MaxFrame : Missing(s, f, k)

\* Few frames fit between a byte nobody sent, or one of a damaged frame, and
\* a frame behind it, unless a disturbed frame is nearer.  The last conjunct
\* speaks of the frame that will be sent next.
Near(s, bad, harm, n) ==
    \A i \in 1..Len(s) : Spoilt(s[i], bad) =>
        /\ \A j \in 1..Len(s) : i < j /\ Start(s[j], bad) =>
              \E g \in harm : g <= s[j].frame /\ 5 * (s[j].frame - g - 1) < j - i
        /\ \E g \in harm : g <= n /\ 5 * (n - g) < Len(s) + 1 - i

LineInv ==
    /\ Ordered(Ahead)
    /\ Whole(Ahead, damaged)
    /\ Inside(Ahead, damaged, plain)
    /\ Broken(Ahead, damaged)
    /\ Near(Ahead, damaged, hurt, sent)

\* What was handed on is in order and whole, and no frame that still begins
\* ahead was handed on or comes before one that was.
PassedInv ==
    /\ \A i, j \in 1..Len(passed) : i < j => passed[i] < passed[j]
    /\ \A k \in 1..Len(passed) : passed[k] \notin damaged
    /\ \A k \in 1..Len(passed), i \in 1..Len(Ahead) :
         Ahead[i].frame > 0 /\ Ahead[i].place = 1 => passed[k] < Ahead[i].frame

\* A disturbed frame is near enough before frame f to have cost it.
Excused(f, harm) == \E g \in harm : g <= f /\ 5 * (f - g - 1) < MaxFrame

\* Only the FC loses undisturbed frames, and only near a disturbance.
LossInv == \A f \in Lost : side = "fc" /\ (plain => Excused(f, hurt))

IInv == TypeOK /\ LineInv /\ PassedInv /\ LossInv

-----------------------------------------------------------------------------

\* What joining two sequences does.
LEMMA Joined ==
    ASSUME NEW S, NEW s \in Seq(S), NEW t \in Seq(S)
    PROVE  /\ s \o t \in Seq(S)
           /\ Len(s) \in Nat /\ Len(t) \in Nat
           /\ Len(s \o t) = Len(s) + Len(t)
           /\ \A i \in 1..Len(s) : (s \o t)[i] = s[i]
           /\ \A i \in 1..Len(t) : (s \o t)[i + Len(s)] = t[i]
    OBVIOUS

\* What cutting the first d elements away leaves.
LEMMA CutOff ==
    ASSUME NEW S, NEW s \in Seq(S), NEW d \in 0..Len(s)
    PROVE  /\ From(s, d + 1) \in Seq(S)
           /\ Len(From(s, d + 1)) = Len(s) - d
           /\ \A i \in 1..Len(s) - d : From(s, d + 1)[i] = s[i + d]
    BY DEF From

\* The first n elements of a sequence.
LEMMA Began ==
    ASSUME NEW S, NEW s \in Seq(S), NEW n \in 0..Len(s)
    PROVE  /\ SubSeq(s, 1, n) \in Seq(S)
           /\ Len(SubSeq(s, 1, n)) = n
           /\ \A i \in 1..n : SubSeq(s, 1, n)[i] = s[i]
    OBVIOUS

\* The constants framing is about.
LEMMA Sizes ==
    /\ MaxPayload \in Nat /\ MaxFrame = MaxPayload + 5
    /\ HeaderSize = 4 /\ CrcSize = 1
    /\ A \in Nat /\ L \in Nat /\ A # L /\ A > MaxPayload + 1 /\ L > MaxPayload + 1
    /\ Bytes \subseteq Nat /\ 0 \in Bytes /\ A \in Bytes /\ L \in Bytes
    /\ \A n \in 0..MaxPayload : n \in Bytes
<1>1. /\ MaxPayload \in Nat /\ A \in Nat /\ L \in Nat /\ A # L
      /\ A > MaxPayload + 1 /\ L > MaxPayload + 1
    BY StreamAssumption DEF StreamAssumption
<1> QED
    BY <1>1 DEF MaxFrame, HeaderSize, CrcSize, Bytes

\* The bytes of a frame.
LEMMA ContentFacts ==
    ASSUME NEW msg \in Messages
    PROVE  /\ Len(msg.payload) \in 0..MaxPayload
           /\ Content(msg) \in Seq(Bytes) /\ Len(Content(msg)) = Len(msg.payload) + 5
           /\ Content(msg)[1] = A /\ Content(msg)[2] = L
           /\ Content(msg)[3] = Len(msg.payload)
<1> DEFINE p == msg.payload
           head == <<A, L, Len(p), msg.field>>
           most == head \o p
<1>1. /\ p \in Seq(Bytes) /\ Len(p) \in Nat /\ Len(p) <= MaxPayload
      /\ msg.field \in Bytes /\ msg.crc \in Bytes
    BY StreamAssumption DEF StreamAssumption
<1> HIDE DEF p
<1>2. /\ head \in Seq(Bytes) /\ Len(head) = 4
      /\ head[1] = A /\ head[2] = L /\ head[3] = Len(p)
    BY <1>1, Sizes
<1>3. <<msg.crc>> \in Seq(Bytes) /\ Len(<<msg.crc>>) = 1
    BY <1>1
<1> HIDE DEF head
<1>4. /\ most \in Seq(Bytes) /\ Len(most) = Len(p) + 4
      /\ most[1] = A /\ most[2] = L /\ most[3] = Len(p)
    <2>1. p \in Seq(Bytes) /\ head \in Seq(Bytes)
        BY <1>1, <1>2
    <2>2. /\ most \in Seq(Bytes) /\ Len(most) = Len(head) + Len(p)
          /\ \A i \in 1..Len(head) : most[i] = head[i]
        BY <2>1, Joined, Zenon
    <2> HIDE DEF most
    <2>3. 1 \in 1..Len(head) /\ 2 \in 1..Len(head) /\ 3 \in 1..Len(head)
        BY <1>2
    <2> QED
        BY <1>1, <1>2, <2>2, <2>3
<1> HIDE DEF most
<1>5. /\ most \o <<msg.crc>> \in Seq(Bytes) /\ Len(most \o <<msg.crc>>) = Len(p) + 5
      /\ \A i \in 1..Len(most) : (most \o <<msg.crc>>)[i] = most[i]
    <2>1. /\ most \o <<msg.crc>> \in Seq(Bytes)
          /\ Len(most \o <<msg.crc>>) = Len(most) + Len(<<msg.crc>>)
          /\ \A i \in 1..Len(most) : (most \o <<msg.crc>>)[i] = most[i]
        BY <1>3, <1>4, Joined
    <2> QED
        BY <1>1, <1>3, <1>4, <2>1
<1>6. Content(msg) = most \o <<msg.crc>>
    BY DEF Content, most, head, p
<1>7. 1 \in 1..Len(most) /\ 2 \in 1..Len(most) /\ 3 \in 1..Len(most)
    BY <1>1, <1>4
<1>8. Len(p) \in 0..MaxPayload
    BY <1>1, Sizes
<1> QED
    BY <1>4, <1>5, <1>6, <1>7, <1>8 DEF p

\* The same bytes on the wire, each with its frame and its place.
LEMMA EncodedFacts ==
    ASSUME NEW msg \in Messages, NEW f \in Nat
    PROVE  /\ Len(msg.payload) \in 0..MaxPayload
           /\ Len(Encoded(msg, f)) = Len(msg.payload) + 5
           /\ \A k \in 1..Len(msg.payload) + 5 :
                Encoded(msg, f)[k].frame = f /\ Encoded(msg, f)[k].place = k
           /\ \A k \in 1..Len(msg.payload) + 5 : Encoded(msg, f)[k].byte \in Bytes
           /\ Encoded(msg, f)[1].byte = A /\ Encoded(msg, f)[2].byte = L
           /\ Encoded(msg, f)[3].byte = Len(msg.payload)
           /\ \A k \in 1..Len(msg.payload) + 5 : Encoded(msg, f)[k].byte = Content(msg)[k]
           /\ \A k \in 1..Len(msg.payload) + 5 : Encoded(msg, f)[k] =
                [byte |-> Encoded(msg, f)[k].byte, frame |-> f, place |-> k]
           /\ Encoded(msg, f) = [k \in 1..Len(msg.payload) + 5 |-> Encoded(msg, f)[k]]
<1> DEFINE n == Len(msg.payload) + 5
           bytes == Content(msg)
           e == Encoded(msg, f)
<1>1. /\ Len(msg.payload) \in 0..MaxPayload /\ n \in Nat /\ {1, 2, 3} \subseteq 1..n
      /\ Len(bytes) = n /\ \A k \in 1..n : bytes[k] \in Bytes
      /\ bytes[1] = A /\ bytes[2] = L /\ bytes[3] = Len(msg.payload)
    <2>1. bytes \in Seq(Bytes)
        BY ContentFacts
    <2>2. /\ Len(msg.payload) \in 0..MaxPayload /\ Len(bytes) = n
          /\ bytes[1] = A /\ bytes[2] = L /\ bytes[3] = Len(msg.payload)
        BY ContentFacts
    <2> HIDE DEF bytes
    <2> QED
        BY <2>1, <2>2, Sizes
<1>2. e = [k \in 1..n |-> [byte |-> bytes[k], frame |-> f, place |-> k]]
    BY <1>1 DEF Encoded
<1> HIDE DEF n, bytes, e
<1>3. /\ Len(e) = n /\ \A k \in 1..n : e[k] = [byte |-> bytes[k], frame |-> f, place |-> k]
    BY <1>1, <1>2
<1>4. \A k \in 1..n : /\ e[k].frame = f /\ e[k].place = k /\ e[k].byte = bytes[k]
                       /\ e[k].byte \in Bytes
                       /\ e[k] = [byte |-> e[k].byte, frame |-> f, place |-> k]
    BY <1>1, <1>3
<1>5. e[1].byte = A /\ e[2].byte = L /\ e[3].byte = Len(msg.payload)
    BY <1>1, <1>4
<1>6. e = [k \in 1..n |-> e[k]]
    BY <1>2
<1> QED
    BY <1>1, <1>3, <1>4, <1>5, <1>6, Zenon DEF n, bytes, e

\* So a frame's bytes are tokens, and its places are in order.
LEMMA EncodedIsTokens ==
    ASSUME NEW msg \in Messages, NEW f \in Nat
    PROVE  Encoded(msg, f) \in Seq(AnyToken)
<1> DEFINE e == Encoded(msg, f)
<1>1. \A k \in 1..Len(msg.payload) + 5 : e[k] = [byte |-> e[k].byte, frame |-> f, place |-> k]
    BY EncodedFacts
<1>2. \A k \in 1..Len(msg.payload) + 5 : e[k].byte \in Nat
    BY EncodedFacts, Sizes
<1>3. e = [k \in 1..Len(msg.payload) + 5 |-> e[k]]
    BY EncodedFacts
<1>6. Len(msg.payload) \in Nat
    BY ContentFacts, Sizes
<1> HIDE DEF e
<1>4. ASSUME NEW k \in 1..Len(msg.payload) + 5 PROVE e[k] \in AnyToken
    <2> DEFINE b == e[k].byte
    <2>1. e[k] = [byte |-> b, frame |-> f, place |-> k] /\ b \in Nat /\ k \in Nat
        BY <1>1, <1>2, <1>6
    <2> HIDE DEF b
    <2> QED
        BY <2>1 DEF AnyToken
<1>5. e \in Seq(AnyToken)
    <2> DEFINE n == Len(msg.payload) + 5
    <2>1. n \in Nat
        BY <1>6
    <2> HIDE DEF n
    <2>2. e = [k \in 1..n |-> e[k]] /\ \A k \in 1..n : e[k] \in AnyToken
        BY <1>3, <1>4 DEF n
    <2> QED
        BY <2>1, <2>2
<1> QED
    BY <1>5 DEF e

-----------------------------------------------------------------------------

\* Taking a prefix away keeps the invariants of the line.
LEMMA SuffixOrdered ==
    ASSUME NEW s, NEW t, NEW d, Suffix(s, t, d), Ordered(s)
    PROVE  Ordered(t)
<1>1. d \in Nat /\ Len(s) \in Nat /\ Len(t) = Len(s) - d
    BY DEF Suffix
<1>2. \A i \in 1..Len(t) : i + d \in 1..Len(s) /\ t[i] = s[i + d]
    BY <1>1 DEF Suffix
<1>3. \A i, j \in 1..Len(t) : i < j => i + d < j + d
    BY <1>1
<1> QED
    BY <1>2, <1>3 DEF Ordered

LEMMA SuffixWhole ==
    ASSUME NEW s, NEW t, NEW d, Suffix(s, t, d), NEW bad, Whole(s, bad)
    PROVE  Whole(t, bad)
<1>1. d \in Nat /\ Len(s) \in Nat /\ Len(t) = Len(s) - d
    BY DEF Suffix
<1>2. \A i \in 1..Len(t) : i + d \in 1..Len(s) /\ t[i] = s[i + d]
    BY <1>1 DEF Suffix
<1>3. ASSUME NEW i \in 1..Len(t), t[i].frame > 0, t[i].frame \notin bad
      PROVE  \E msg \in Messages : Sits(t, i, msg, t[i].frame)
    <2> DEFINE f == t[i].frame
               m == t[i].place
    <2>1. PICK msg \in Messages : Sits(s, i + d, msg, f)
        BY <1>2, <1>3 DEF Whole
    <2>2. Len(Encoded(msg, f)) \in Nat
        BY EncodedFacts
    <2>3. m = s[i + d].place /\ m \in 1..Len(Encoded(msg, f))
        BY <1>2, <2>1 DEF Sits
    <2>4. i + Len(Encoded(msg, f)) - m <= Len(t)
        BY <1>1, <2>1, <2>2, <2>3 DEF Sits
    <2>5. ASSUME NEW j \in m..Len(Encoded(msg, f))
          PROVE  t[i + j - m] = Encoded(msg, f)[j]
        <3>1. i + j - m \in 1..Len(t)
            <4> DEFINE l == Len(Encoded(msg, f))
            <4>1. i \in Nat /\ i >= 1 /\ l \in Nat /\ m \in 1..l /\ j \in m..l /\ i + l - m <= Len(t)
                BY <1>1, <2>2, <2>3, <2>4
            <4> HIDE DEF l, m
            <4> QED
                BY <1>1, <4>1
        <3>2. t[i + j - m] = s[(i + j - m) + d]
            BY <1>2, <3>1
        <3>3. (i + j - m) + d = (i + d) + j - m
            BY <1>1, <2>2, <2>3
        <3>4. s[(i + d) + j - m] = Encoded(msg, f)[j]
            BY <2>1, <2>3 DEF Sits
        <3> QED
            BY <3>2, <3>3, <3>4
    <2> QED
        BY <2>1, <2>3, <2>4, <2>5 DEF Sits
<1> QED
    BY <1>3 DEF Whole

LEMMA SuffixInside ==
    ASSUME NEW s, NEW t, NEW d, Suffix(s, t, d), NEW bad, NEW clean, Inside(s, bad, clean)
    PROVE  Inside(t, bad, clean)
<1>1. d \in Nat /\ Len(s) \in Nat /\ Len(t) = Len(s) - d
    BY DEF Suffix
<1>2. \A i \in 1..Len(t) : t[i] = s[i + d]
    BY DEF Suffix
<1>3. \A i \in 2..Len(t) : /\ i \in 1..Len(t) /\ i - 1 \in 1..Len(t)
                            /\ i + d \in 2..Len(s) /\ (i - 1) + d = (i + d) - 1
    BY <1>1
<1>4. \A i \in 2..Len(t) : t[i] = s[i + d] /\ t[i - 1] = s[(i + d) - 1]
    BY <1>2, <1>3
<1> QED
    BY <1>3, <1>4 DEF Inside

LEMMA SuffixBroken ==
    ASSUME NEW s, NEW t, NEW d, Suffix(s, t, d), NEW bad, Broken(s, bad)
    PROVE  Broken(t, bad)
<1>1. \A i \in 1..Len(t) : i + d \in 1..Len(s) /\ t[i] = s[i + d]
    BY DEF Suffix
<1>2. ASSUME NEW f, NEW k, Missing(s, f, k)
      PROVE  Missing(t, f, k)
    BY <1>1, <1>2 DEF Missing
<1> QED
    BY <1>2 DEF Broken

LEMMA SuffixNear ==
    ASSUME NEW s, NEW t, NEW d, Suffix(s, t, d), NEW bad, NEW n \in Nat,
           NEW harm, NEW more, harm \subseteq more, Near(s, bad, harm, n)
    PROVE  Near(t, bad, more, n)
<1>1. d \in Nat /\ Len(s) \in Nat /\ Len(t) = Len(s) - d
    BY DEF Suffix
<1>2. \A i \in 1..Len(t) : i + d \in 1..Len(s) /\ t[i] = s[i + d]
    BY <1>1 DEF Suffix
<1>3. \A i, j \in 1..Len(t) : (i < j => i + d < j + d) /\ (j + d) - (i + d) = j - i
    BY <1>1
<1>4. \A i \in 1..Len(t) : Len(s) + 1 - (i + d) = Len(t) + 1 - i
    BY <1>1
<1>5. ASSUME NEW i \in 1..Len(t), Spoilt(t[i], bad)
      PROVE  /\ \A j \in 1..Len(t) : i < j /\ Start(t[j], bad) =>
                  \E g \in more : g <= t[j].frame /\ 5 * (t[j].frame - g - 1) < j - i
             /\ \E g \in more : g <= n /\ 5 * (n - g) < Len(t) + 1 - i
    <2>1. Spoilt(s[i + d], bad) /\ i + d \in 1..Len(s)
        BY <1>2, <1>5
    <2>2. \E g \in more : g <= n /\ 5 * (n - g) < Len(t) + 1 - i
        BY <1>4, <2>1 DEF Near
    <2>3. ASSUME NEW j \in 1..Len(t), i < j, Start(t[j], bad)
          PROVE  \E g \in more : g <= t[j].frame /\ 5 * (t[j].frame - g - 1) < j - i
        <3>1. PICK g \in harm : g <= s[j + d].frame /\ 5 * (s[j + d].frame - g - 1) < (j + d) - (i + d)
            BY <1>2, <1>3, <2>1, <2>3 DEF Near
        <3> QED
            BY <1>2, <1>3, <3>1
    <2> QED
        BY <2>2, <2>3
<1> QED
    BY <1>5 DEF Near

-----------------------------------------------------------------------------

\* Joining two sequences of bytes.
LEMMA JoinedTokens ==
    \A s, t \in Seq(AnyToken) :
        /\ s \o t \in Seq(AnyToken)
        /\ Len(s) \in Nat /\ Len(t) \in Nat
        /\ Len(s \o t) = Len(s) + Len(t)
        /\ \A i \in 1..Len(s) : (s \o t)[i] = s[i]
        /\ \A i \in 1..Len(t) : (s \o t)[i + Len(s)] = t[i]
    BY Joined

\* It does not matter which of three are joined first.
LEMMA JoinedThrice ==
    \A s, t, u \in Seq(AnyToken) : (s \o t) \o u = s \o (t \o u)
    BY ConcatAssociative

\* Where the bytes of two joined sequences are.
LEMMA JoinedAt ==
    ASSUME NEW s \in Seq(AnyToken), NEW x \in Seq(AnyToken)
    PROVE  /\ s \o x \in Seq(AnyToken)
           /\ Len(s) \in Nat /\ Len(x) \in Nat /\ Len(s \o x) = Len(s) + Len(x)
           /\ \A i \in 1..Len(s \o x) :
                \/ i \in 1..Len(s) /\ (s \o x)[i] = s[i]
                \/ i - Len(s) \in 1..Len(x) /\ (s \o x)[i] = x[i - Len(s)]
           /\ \A i \in 1..Len(s) : i \in 1..Len(s \o x) /\ (s \o x)[i] = s[i]
<1>1. /\ s \o x \in Seq(AnyToken)
      /\ Len(s) \in Nat /\ Len(x) \in Nat /\ Len(s \o x) = Len(s) + Len(x)
      /\ \A i \in 1..Len(s) : (s \o x)[i] = s[i]
      /\ \A i \in 1..Len(x) : (s \o x)[i + Len(s)] = x[i]
    BY Joined
<1>2. ASSUME NEW i \in 1..Len(s \o x)
      PROVE  \/ i \in 1..Len(s) /\ (s \o x)[i] = s[i]
             \/ i - Len(s) \in 1..Len(x) /\ (s \o x)[i] = x[i - Len(s)]
    <2>1. CASE i <= Len(s)
        BY <1>1, <2>1
    <2>2. CASE ~(i <= Len(s))
        <3>1. i - Len(s) \in 1..Len(x) /\ (i - Len(s)) + Len(s) = i
            BY <1>1, <2>2
        <3> QED
            BY <1>1, <3>1
    <2> QED
        BY <2>1, <2>2
<1> QED
    BY <1>1, <1>2

\* Bytes of a later frame keep the order when they come behind.
LEMMA JoinedOrdered ==
    ASSUME NEW s \in Seq(AnyToken), NEW x \in Seq(AnyToken), NEW n \in Nat,
           \A i \in 1..Len(s) : s[i].frame <= n,
           \A i \in 1..Len(x) : x[i].frame \in {0, n + 1},
           Ordered(s), Ordered(x)
    PROVE  Ordered(s \o x)
<1> DEFINE y == s \o x
<1>1. ASSUME NEW i \in 1..Len(y), NEW j \in 1..Len(y), i < j, y[i].frame > 0, y[j].frame > 0
      PROVE  y[i].frame < y[j].frame \/ (y[i].frame = y[j].frame /\ y[i].place < y[j].place)
    <2>1. Len(s) \in Nat /\ Len(x) \in Nat
        BY JoinedAt
    <2>2. \/ i \in 1..Len(s) /\ y[i] = s[i]
          \/ i - Len(s) \in 1..Len(x) /\ y[i] = x[i - Len(s)]
        BY JoinedAt
    <2>3. \/ j \in 1..Len(s) /\ y[j] = s[j]
          \/ j - Len(s) \in 1..Len(x) /\ y[j] = x[j - Len(s)]
        BY JoinedAt
    <2> HIDE DEF y
    <2>4. CASE j \in 1..Len(s) /\ y[j] = s[j]
        <3>1. i \in 1..Len(s) /\ y[i] = s[i]
            BY <1>1, <2>1, <2>2, <2>4
        <3> QED
            BY <1>1, <2>4, <3>1 DEF Ordered
    <2>5. CASE j - Len(s) \in 1..Len(x) /\ y[j] = x[j - Len(s)]
        <3>1. y[j].frame = n + 1
            BY <1>1, <2>5
        <3>2. CASE i \in 1..Len(s) /\ y[i] = s[i]
            <4>1. s[i].frame \in Nat
                <5>1. s[i] \in AnyToken
                    BY <3>2
                <5> QED
                    BY <5>1 DEF AnyToken
            <4> QED
                BY <3>1, <3>2, <4>1
        <3>3. CASE i - Len(s) \in 1..Len(x) /\ y[i] = x[i - Len(s)]
            <4>1. i - Len(s) < j - Len(s)
                BY <1>1, <2>1
            <4> QED
                BY <1>1, <2>5, <3>3, <4>1 DEF Ordered
        <3> QED
            BY <2>2, <3>2, <3>3
    <2> QED
        BY <2>3, <2>4, <2>5
<1> QED
    BY <1>1 DEF Ordered

\* Frames stay whole when bytes come behind them.
LEMMA JoinedWhole ==
    ASSUME NEW s \in Seq(AnyToken), NEW x \in Seq(AnyToken),
           NEW bad, NEW worse, bad \subseteq worse,
           Whole(s, bad), Whole(x, worse)
    PROVE  Whole(s \o x, worse)
<1> DEFINE y == s \o x
<1>1. ASSUME NEW i \in 1..Len(y), y[i].frame > 0, y[i].frame \notin worse
      PROVE  \E msg \in Messages : Sits(y, i, msg, y[i].frame)
    <2>1. /\ Len(s) \in Nat /\ Len(x) \in Nat /\ Len(y) = Len(s) + Len(x)
          /\ \A k \in 1..Len(s) : y[k] = s[k]
          /\ \A k \in 1..Len(x) : y[k + Len(s)] = x[k]
        BY Joined
    <2>2. \/ i \in 1..Len(s) /\ y[i] = s[i]
          \/ i - Len(s) \in 1..Len(x) /\ y[i] = x[i - Len(s)]
        BY JoinedAt
    <2>3. i \in Nat
        OBVIOUS
    <2> HIDE DEF y
    <2>4. CASE i \in 1..Len(s) /\ y[i] = s[i]
        <3> DEFINE f == s[i].frame
                   m == s[i].place
        <3>1. PICK msg \in Messages : Sits(s, i, msg, f)
            BY <1>1, <2>4 DEF Whole
        <3>2. f \in Nat /\ m \in Nat
            <4>1. s[i] \in AnyToken
                BY <2>4
            <4> QED
                BY <4>1 DEF AnyToken
        <3>3. Len(Encoded(msg, f)) \in Nat
            BY <3>2, EncodedFacts
        <3>4. /\ m \in 1..Len(Encoded(msg, f)) /\ i + Len(Encoded(msg, f)) - m <= Len(s)
              /\ \A j \in m..Len(Encoded(msg, f)) : s[i + j - m] = Encoded(msg, f)[j]
            BY <3>1 DEF Sits
        <3>5. \A j \in m..Len(Encoded(msg, f)) : i + j - m \in 1..Len(s)
            BY <2>1, <2>3, <2>4, <3>2, <3>3, <3>4
        <3>6. \A j \in m..Len(Encoded(msg, f)) : y[i + j - m] = Encoded(msg, f)[j]
            BY <2>1, <3>4, <3>5
        <3>7. i + Len(Encoded(msg, f)) - m <= Len(y)
            BY <2>1, <2>3, <3>2, <3>3, <3>4
        <3> QED
            BY <2>4, <3>1, <3>4, <3>6, <3>7 DEF Sits
    <2>5. CASE i - Len(s) \in 1..Len(x) /\ y[i] = x[i - Len(s)]
        <3> DEFINE h == i - Len(s)
                   f == x[h].frame
                   m == x[h].place
        <3>1. PICK msg \in Messages : Sits(x, h, msg, f)
            BY <1>1, <2>5 DEF Whole
        <3>2. f \in Nat /\ m \in Nat /\ h \in 1..Len(x) /\ i = h + Len(s)
            <4>1. x[h] \in AnyToken
                BY <2>5
            <4> QED
                BY <4>1, <2>1, <2>3, <2>5 DEF AnyToken
        <3>3. Len(Encoded(msg, f)) \in Nat
            BY <3>2, EncodedFacts
        <3>4. /\ m \in 1..Len(Encoded(msg, f)) /\ h + Len(Encoded(msg, f)) - m <= Len(x)
              /\ \A j \in m..Len(Encoded(msg, f)) : x[h + j - m] = Encoded(msg, f)[j]
            BY <3>1 DEF Sits
        <3> HIDE DEF h, f, m
        <3>5. \A j \in m..Len(Encoded(msg, f)) :
                /\ h + j - m \in 1..Len(x) /\ i + j - m = (h + j - m) + Len(s)
            BY <2>1, <3>2, <3>3, <3>4
        <3>6. \A j \in m..Len(Encoded(msg, f)) : y[i + j - m] = Encoded(msg, f)[j]
            BY <2>1, <3>4, <3>5
        <3>7. i + Len(Encoded(msg, f)) - m <= Len(y)
            BY <2>1, <2>3, <3>2, <3>3, <3>4
        <3> QED
            BY <2>5, <3>1, <3>4, <3>6, <3>7 DEF Sits, h, f, m
    <2> QED
        BY <2>2, <2>4, <2>5
<1> QED
    BY <1>1 DEF Whole

LEMMA JoinedInside ==
    ASSUME NEW s \in Seq(AnyToken), NEW x \in Seq(AnyToken),
           NEW bad, NEW worse, bad \subseteq worse,
           NEW clean, NEW cleaner, cleaner => clean,
           Inside(s, bad, clean), Inside(x, worse, cleaner),
           Len(x) > 0 => Spoilt(x[1], worse) \/ x[1].place = 1
    PROVE  Inside(s \o x, worse, cleaner)
<1> DEFINE y == s \o x
<1>1. /\ Len(s) \in Nat /\ Len(x) \in Nat /\ Len(y) = Len(s) + Len(x)
      /\ \A k \in 1..Len(s) : y[k] = s[k]
      /\ \A k \in 1..Len(x) : y[k + Len(s)] = x[k]
    BY Joined
<1> HIDE DEF y
<1>2. ASSUME NEW i \in 2..Len(y), ~Spoilt(y[i], worse), y[i].place > 1
      PROVE  /\ y[i - 1].frame = y[i].frame /\ y[i - 1].place = y[i].place - 1
             /\ cleaner /\ y[i - 1].byte = A /\ y[i].byte = L => y[i].place = 2
    <2>1. CASE i <= Len(s)
        <3>1. i \in 2..Len(s) /\ y[i] = s[i] /\ y[i - 1] = s[i - 1]
            BY <1>1, <2>1
        <3>2. ~Spoilt(s[i], bad)
            BY <1>2, <3>1 DEF Spoilt
        <3> QED
            BY <1>2, <3>1, <3>2 DEF Inside
    <2>2. CASE i = Len(s) + 1
        <3>1. Len(x) > 0 /\ y[i] = x[1]
            BY <1>1, <2>2
        <3> QED
            BY <1>2, <3>1
    <2>3. CASE i > Len(s) + 1
        <3> DEFINE h == i - Len(s)
        <3>1. /\ h \in 2..Len(x) /\ h \in 1..Len(x) /\ h - 1 \in 1..Len(x)
              /\ i = h + Len(s) /\ i - 1 = (h - 1) + Len(s)
            BY <1>1, <2>3
        <3> HIDE DEF h
        <3>2. y[i] = x[h] /\ y[i - 1] = x[h - 1]
            BY <1>1, <3>1
        <3> QED
            BY <1>2, <3>1, <3>2 DEF Inside
    <2> QED
        BY <1>1, <2>1, <2>2, <2>3
<1> QED
    BY <1>2 DEF Inside, y

\* A place that neither of two sequences has is in neither of them joined.
LEMMA JoinedMissing ==
    ASSUME NEW s \in Seq(AnyToken), NEW x \in Seq(AnyToken), NEW f, NEW k,
           Missing(s, f, k), Missing(x, f, k)
    PROVE  Missing(s \o x, f, k)
<1> DEFINE y == s \o x
<1>1. \A i \in 1..Len(y) :
        \/ i \in 1..Len(s) /\ y[i] = s[i]
        \/ i - Len(s) \in 1..Len(x) /\ y[i] = x[i - Len(s)]
    BY JoinedAt
<1> HIDE DEF y
<1>2. Missing(y, f, k)
    BY <1>1 DEF Missing
<1> QED
    BY <1>2 DEF y

\* Bytes of a sound frame, put behind, leave the distances right.
LEMMA JoinedNearSound ==
    ASSUME NEW s \in Seq(AnyToken), NEW x \in Seq(AnyToken), NEW n \in Nat,
           NEW bad, NEW harm, harm \subseteq Nat,
           \A i \in 1..Len(x) : x[i].frame = n + 1 /\ (x[i].place = 1 => i = 1),
           n + 1 \notin bad, Len(x) >= 5,
           Near(s, bad, harm, n)
    PROVE  Near(s \o x, bad, harm, n + 1)
<1> DEFINE y == s \o x
<1>1. Len(s) \in Nat /\ Len(x) \in Nat /\ Len(y) = Len(s) + Len(x)
    BY JoinedAt
<1>2. \A i \in 1..Len(y) :
        \/ i \in 1..Len(s) /\ y[i] = s[i]
        \/ i - Len(s) \in 1..Len(x) /\ y[i] = x[i - Len(s)]
    BY JoinedAt
<1> HIDE DEF y
<1>3. ASSUME NEW i \in 1..Len(y), Spoilt(y[i], bad)
      PROVE  /\ \A j \in 1..Len(y) : i < j /\ Start(y[j], bad) =>
                  \E g \in harm : g <= y[j].frame /\ 5 * (y[j].frame - g - 1) < j - i
             /\ \E g \in harm : g <= n + 1 /\ 5 * (n + 1 - g) < Len(y) + 1 - i
    <2>1. i \in 1..Len(s) /\ y[i] = s[i]
        <3>1. ~(i - Len(s) \in 1..Len(x) /\ y[i] = x[i - Len(s)])
            BY <1>3 DEF Spoilt
        <3> QED
            BY <1>2, <3>1
    <2>2. PICK g \in harm : g <= n /\ 5 * (n - g) < Len(s) + 1 - i
        BY <1>3, <2>1 DEF Near
    <2>3. g \in Nat
        OBVIOUS
    <2>4. g <= n + 1 /\ 5 * (n + 1 - g) < Len(y) + 1 - i
        BY <1>1, <2>1, <2>2, <2>3
    <2>5. ASSUME NEW j \in 1..Len(y), i < j, Start(y[j], bad)
          PROVE  \E h \in harm : h <= y[j].frame /\ 5 * (y[j].frame - h - 1) < j - i
        <3>1. CASE j \in 1..Len(s) /\ y[j] = s[j]
            BY <1>3, <2>1, <2>5, <3>1 DEF Near
        <3>2. CASE j - Len(s) \in 1..Len(x) /\ y[j] = x[j - Len(s)]
            <4>1. y[j].frame = n + 1 /\ j - Len(s) = 1
                BY <2>5, <3>2 DEF Start
            <4>2. g <= n + 1 /\ 5 * (n + 1 - g - 1) < j - i
                BY <1>1, <2>1, <2>2, <2>3, <4>1
            <4> QED
                BY <4>1, <4>2
        <3> QED
            BY <1>2, <3>1, <3>2
    <2> QED
        BY <2>4, <2>5
<1>4. Near(y, bad, harm, n + 1)
    BY <1>3 DEF Near
<1> QED
    BY <1>4 DEF y

\* Spoilt bytes put behind do too: their frame is the nearest disturbed one.
LEMMA JoinedNearSpoilt ==
    ASSUME NEW s \in Seq(AnyToken), NEW x \in Seq(AnyToken), NEW n \in Nat, NEW m \in Nat,
           NEW bad, NEW worse, bad \subseteq worse,
           NEW harm, NEW more, harm \subseteq more, m \in more,
           \A i \in 1..Len(s) : s[i].frame \in worse => s[i].frame \in bad,
           \A i \in 1..Len(x) : Spoilt(x[i], worse),
           Near(s, bad, harm, n)
    PROVE  Near(s \o x, worse, more, m)
<1> DEFINE y == s \o x
<1>1. Len(s) \in Nat /\ Len(x) \in Nat /\ Len(y) = Len(s) + Len(x)
    BY JoinedAt
<1>2. \A i \in 1..Len(y) :
        \/ i \in 1..Len(s) /\ y[i] = s[i]
        \/ i - Len(s) \in 1..Len(x) /\ y[i] = x[i - Len(s)]
    BY JoinedAt
<1> HIDE DEF y
<1>3. ASSUME NEW i \in 1..Len(y), Spoilt(y[i], worse)
      PROVE  /\ \A j \in 1..Len(y) : i < j /\ Start(y[j], worse) =>
                  \E g \in more : g <= y[j].frame /\ 5 * (y[j].frame - g - 1) < j - i
             /\ \E g \in more : g <= m /\ 5 * (m - g) < Len(y) + 1 - i
    <2>1. m <= m /\ 5 * (m - m) < Len(y) + 1 - i
        BY <1>1
    <2>2. ASSUME NEW j \in 1..Len(y), i < j, Start(y[j], worse)
          PROVE  \E g \in more : g <= y[j].frame /\ 5 * (y[j].frame - g - 1) < j - i
        <3>1. j \in 1..Len(s) /\ y[j] = s[j]
            <4>1. ~Spoilt(y[j], worse)
                BY <2>2 DEF Start, Spoilt
            <4> QED
                BY <1>2, <4>1
        <3>2. i \in 1..Len(s) /\ y[i] = s[i]
            BY <1>1, <1>2, <2>2, <3>1
        <3>3. Spoilt(s[i], bad) /\ Start(s[j], bad)
            BY <1>3, <2>2, <3>1, <3>2 DEF Spoilt, Start
        <3> QED
            BY <2>2, <3>1, <3>2, <3>3 DEF Near
    <2> QED
        BY <2>1, <2>2
<1>4. Near(y, worse, more, m)
    BY <1>3 DEF Near
<1> QED
    BY <1>4 DEF y

-----------------------------------------------------------------------------

TokensOf(n) == [byte : Bytes, frame : 0..n, place : 0..MaxFrame]

\* Tokens can be compared as numbers.
LEMMA TokensCompare ==
    ASSUME NEW n \in Nat
    PROVE  TokensOf(n) \subseteq AnyToken
<1>1. Bytes \subseteq Nat /\ MaxFrame \in Nat
    BY Sizes
<1>2. 0..n \subseteq Nat /\ 0..MaxFrame \subseteq Nat
    BY <1>1
<1>3. ASSUME NEW t \in TokensOf(n)
      PROVE  t \in AnyToken
    <2>1. /\ t = [byte |-> t.byte, frame |-> t.frame, place |-> t.place]
          /\ t.byte \in Bytes /\ t.frame \in 0..n /\ t.place \in 0..MaxFrame
        BY <1>3 DEF TokensOf
    <2>2. t.byte \in Nat /\ t.frame \in Nat /\ t.place \in Nat
        BY <1>1, <1>2, <2>1
    <2> QED
        BY <2>1, <2>2 DEF AnyToken
<1> QED
    BY <1>3

\* A sequence over a set is one over any larger set.
LEMMA SeqWider ==
    ASSUME NEW S, NEW T, S \subseteq T, NEW q \in Seq(S)
    PROVE  q \in Seq(T)
<1>1. q = [i \in 1..Len(q) |-> q[i]] /\ Len(q) \in Nat
    OBVIOUS
<1>2. \A i \in 1..Len(q) : q[i] \in T
    OBVIOUS
<1> QED
    BY <1>1, <1>2

\* What a lost element leaves.
LEMMA LostOne ==
    ASSUME NEW S, NEW s \in Seq(S), NEW k \in 1..Len(s)
    PROVE  /\ Without(s, k) \in Seq(S)
           /\ Len(Without(s, k)) = Len(s) - 1
           /\ \A i \in 1..Len(s) - 1 : Without(s, k)[i] = s[IF i < k THEN i ELSE i + 1]
<1> DEFINE front == SubSeq(s, 1, k - 1)
           back == SubSeq(s, k + 1, Len(s))
<1>1. /\ front \in Seq(S) /\ Len(front) = k - 1
      /\ \A i \in 1..k - 1 : front[i] = s[i]
    OBVIOUS
<1>2. /\ back \in Seq(S) /\ Len(back) = Len(s) - k
      /\ \A i \in 1..Len(s) - k : back[i] = s[i + k]
    OBVIOUS
<1>3. Without(s, k) = front \o back
    BY DEF Without
<1> HIDE DEF front, back
<1>4. /\ Without(s, k) \in Seq(S) /\ Len(Without(s, k)) = Len(front) + Len(back)
      /\ \A i \in 1..Len(front) : Without(s, k)[i] = front[i]
      /\ \A i \in 1..Len(back) : Without(s, k)[i + Len(front)] = back[i]
    <2>1. front \in Seq(S) /\ back \in Seq(S)
        BY <1>1, <1>2
    <2> QED
        BY <1>3, <2>1, Joined
<1>5. ASSUME NEW i \in 1..Len(s) - 1
      PROVE  Without(s, k)[i] = s[IF i < k THEN i ELSE i + 1]
    <2>1. CASE i < k
        BY <1>1, <1>4, <2>1
    <2>2. CASE ~(i < k)
        <3>1. PICK j \in 1..Len(s) - k : j + (k - 1) = i /\ j + k = i + 1
            <4>1. i - (k - 1) \in 1..Len(s) - k
                BY <2>2
            <4> QED
                BY <4>1
        <3>2. Without(s, k)[i] = back[j] /\ back[j] = s[i + 1]
            BY <1>1, <1>2, <1>4, <3>1
        <3> QED
            BY <2>2, <3>2
    <2> QED
        BY <2>1, <2>2
<1> QED
    BY <1>1, <1>2, <1>4, <1>5

\* The bytes of a frame as they are sent.
LEMMA EncodedTyped ==
    ASSUME NEW msg \in Messages, NEW n \in Nat, NEW f \in 0..n
    PROVE  Encoded(msg, f) \in Seq(TokensOf(n))
<1> DEFINE e == Encoded(msg, f)
<1>1. /\ Len(msg.payload) \in 0..MaxPayload /\ e = [k \in 1..Len(msg.payload) + 5 |-> e[k]]
      /\ \A k \in 1..Len(msg.payload) + 5 : e[k] = [byte |-> e[k].byte, frame |-> f, place |-> k]
      /\ \A k \in 1..Len(msg.payload) + 5 : e[k].byte \in Bytes
    BY EncodedFacts
<1> HIDE DEF e
<1>2. \A k \in 1..Len(msg.payload) + 5 : k \in 0..MaxFrame
    BY <1>1, Sizes
<1>3. ASSUME NEW k \in 1..Len(msg.payload) + 5 PROVE e[k] \in TokensOf(n)
    <2> DEFINE b == e[k].byte
    <2>1. e[k] = [byte |-> b, frame |-> f, place |-> k] /\ b \in Bytes /\ k \in 0..MaxFrame
        BY <1>1, <1>2
    <2> HIDE DEF b
    <2> QED
        BY <2>1 DEF TokensOf
<1>4. e \in Seq(TokensOf(n))
    <2> DEFINE l == Len(msg.payload) + 5
    <2>1. l \in Nat
        BY <1>1, Sizes
    <2> HIDE DEF l
    <2>2. e = [k \in 1..l |-> e[k]] /\ \A k \in 1..l : e[k] \in TokensOf(n)
        BY <1>1, <1>3 DEF l
    <2> QED
        BY <2>1, <2>2
<1> QED
    BY <1>4 DEF e

\* What a frame is like that lost a byte or had one altered.
LEMMA DamagedFrame ==
    ASSUME NEW msg \in Messages, NEW n \in Nat, NEW k \in 1..Len(Encoded(msg, n + 1)), NEW x,
           \/ x = Without(Encoded(msg, n + 1), k)
           \/ \E b \in Bytes : x = [Encoded(msg, n + 1) EXCEPT ![k] = Noise(b)]
    PROVE  /\ x \in Seq(TokensOf(n + 1))
           /\ \A i \in 1..Len(x) : x[i].frame \in {0, n + 1}
           /\ Ordered(x)
           /\ k \in 1..MaxFrame /\ Missing(x, n + 1, k)
<1> DEFINE f == n + 1
           e == Encoded(msg, f)
<1>1. /\ Len(msg.payload) \in 0..MaxPayload /\ Len(e) = Len(msg.payload) + 5 /\ k \in 1..Len(msg.payload) + 5
      /\ \A i \in 1..Len(msg.payload) + 5 : e[i].frame = f /\ e[i].place = i
      /\ e[3].byte = Len(msg.payload)
    BY EncodedFacts
<1>2. f \in 0..f /\ e \in Seq(TokensOf(f)) /\ f \in Nat
    BY EncodedTyped
<1> HIDE DEF e
<1>3. k \in 1..MaxFrame
    BY <1>1, Sizes
<1>4. CASE x = Without(e, k)
    <2> DEFINE at(i) == IF i < k THEN i ELSE i + 1
    <2>1. /\ x \in Seq(TokensOf(f)) /\ Len(x) = Len(msg.payload) + 4
          /\ \A i \in 1..Len(msg.payload) + 4 : x[i] = e[at(i)]
        <3>1. k \in 1..Len(e)
            BY <1>1
        <3>2. /\ Without(e, k) \in Seq(TokensOf(f)) /\ Len(Without(e, k)) = Len(e) - 1
              /\ \A i \in 1..Len(e) - 1 : Without(e, k)[i] = e[IF i < k THEN i ELSE i + 1]
            BY <1>2, <3>1, LostOne
        <3>3. Len(e) - 1 = Len(msg.payload) + 4
            BY <1>1
        <3> QED
            BY <1>4, <3>2, <3>3
    <2>2. /\ \A i \in 1..Len(msg.payload) + 4 : at(i) \in 1..Len(msg.payload) + 5 /\ at(i) # k
          /\ \A i, j \in 1..Len(msg.payload) + 4 : i < j => at(i) < at(j)
        <3>1. Len(msg.payload) \in Nat /\ k \in Nat
            BY <1>1, Sizes
        <3> HIDE DEF e
        <3> QED
            BY <1>1, <3>1
    <2> HIDE DEF at
    <2>3. \A i \in 1..Len(x) :
            x[i].frame = f /\ x[i].place = at(i) /\ x[i].place # k
            /\ (x[i].place = 3 => x[i].byte = Len(msg.payload))
        <3> SUFFICES ASSUME NEW i \in 1..Len(msg.payload) + 4
                     PROVE  /\ x[i].frame = f /\ x[i].place = at(i) /\ x[i].place # k
                            /\ x[i].place = 3 => x[i].byte = Len(msg.payload)
            BY <2>1
        <3>1. PICK j \in 1..Len(msg.payload) + 5 : j = at(i) /\ j # k /\ x[i] = e[j]
            BY <2>1, <2>2
        <3> QED
            BY <1>1, <3>1
    <2>4. Ordered(x)
        BY <2>1, <2>2, <2>3 DEF Ordered
    <2>5. Missing(x, f, k)
        <3>1. \A i \in 1..Len(x) : x[i].place = 3 => k <= 4 + x[i].byte + 1
            BY <1>1, <2>3
        <3> QED
            BY <2>3, <3>1 DEF Missing, HeaderSize, CrcSize
    <2> QED
        BY <1>3, <2>1, <2>3, <2>4, <2>5
<1>5. ASSUME NEW b \in Bytes, x = [e EXCEPT ![k] = Noise(b)]
      PROVE  /\ x \in Seq(TokensOf(n + 1))
             /\ \A i \in 1..Len(x) : x[i].frame \in {0, n + 1}
             /\ Ordered(x)
             /\ k \in 1..MaxFrame /\ Missing(x, n + 1, k)
    <2>1. 0 \in 0..f /\ 0 \in 0..MaxFrame
        BY <1>2, Sizes
    <2>2. Noise(b) \in TokensOf(f) /\ Noise(b).frame = 0 /\ Noise(b).place = 0
        BY <2>1 DEF Noise, TokensOf
    <2>3. /\ x \in Seq(TokensOf(f)) /\ Len(x) = Len(msg.payload) + 5
          /\ x[k] = Noise(b)
          /\ \A i \in 1..Len(msg.payload) + 5 : i # k => x[i] = e[i]
        BY <1>1, <1>2, <1>5, <2>2
    <2>4. \A i \in 1..Len(x) :
            /\ x[i].frame \in {0, f}
            /\ x[i].frame = f => x[i].place = i /\ i # k /\ (i = 3 => x[i].byte = Len(msg.payload))
        BY <1>1, <1>2, <2>2, <2>3
    <2>5. Ordered(x)
        BY <2>4 DEF Ordered
    <2>6. Missing(x, f, k)
        <3>1. \A i \in 1..Len(x) : ~(x[i].frame = f /\ x[i].place = k)
            BY <2>4
        <3>2. \A i \in 1..Len(x) : x[i].frame = f /\ x[i].place = 3 => k <= 4 + x[i].byte + 1
            <4>1. k <= 4 + Len(msg.payload) + 1
                BY <1>1, Sizes
            <4> QED
                BY <2>4, <4>1
        <3> QED
            BY <3>1, <3>2 DEF Missing, HeaderSize, CrcSize
    <2> QED
        BY <1>3, <2>3, <2>4, <2>5, <2>6
<1> QED
    BY <1>4, <1>5 DEF e

-----------------------------------------------------------------------------

\* Tokens of frames sent stay tokens when more are sent.
LEMMA TokensWider ==
    ASSUME NEW n \in Nat
    PROVE  TokensOf(n) \subseteq TokensOf(n + 1)
<1>1. 0..n \subseteq 0..n + 1
    OBVIOUS
<1> QED
    BY <1>1 DEF TokensOf

\* What is ahead of the receiver, in a well-typed state.
LEMMA AheadTyped ==
    ASSUME TypeOK
    PROVE  /\ sent \in Nat
           /\ buffer \in Seq(AnyToken) /\ wire \in Seq(AnyToken) /\ Ahead \in Seq(AnyToken)
           /\ \A i \in 1..Len(Ahead) : Ahead[i].frame \in 0..sent
<1>1. sent \in Nat /\ Tokens = TokensOf(sent)
    BY DEF TypeOK, Tokens, TokensOf
<1>2. buffer \in Seq(TokensOf(sent)) /\ wire \in Seq(TokensOf(sent))
    BY <1>1 DEF TypeOK
<1>3. TokensOf(sent) \subseteq AnyToken
    BY <1>1, TokensCompare
<1>4. Ahead \in Seq(TokensOf(sent))
    BY <1>2, Joined DEF Ahead
<1>5. \A i \in 1..Len(Ahead) : Ahead[i] \in TokensOf(sent)
    BY <1>4
<1>6. \A i \in 1..Len(Ahead) : Ahead[i].frame \in 0..sent
    BY <1>5 DEF TokensOf
<1> QED
    BY <1>1, <1>2, <1>3, <1>4, <1>6, SeqWider

\* Cutting bytes off the buffer cuts them off what is ahead.
LEMMA CutBuffer ==
    ASSUME NEW b \in Seq(AnyToken), NEW w \in Seq(AnyToken), NEW c \in Seq(AnyToken),
           NEW d \in 0..Len(b), Len(c) = Len(b) - d,
           \A i \in 1..Len(c) : c[i] = b[i + d]
    PROVE  Suffix(b \o w, c \o w, d)
<1>1. /\ b \o w \in Seq(AnyToken) /\ Len(b \o w) = Len(b) + Len(w)
      /\ Len(b) \in Nat /\ Len(w) \in Nat
      /\ \A i \in 1..Len(b) : (b \o w)[i] = b[i]
      /\ \A i \in 1..Len(w) : (b \o w)[i + Len(b)] = w[i]
    BY JoinedTokens, Zenon
<1>2. /\ c \o w \in Seq(AnyToken) /\ Len(c \o w) = Len(c) + Len(w)
      /\ \A i \in 1..Len(c) : (c \o w)[i] = c[i]
      /\ \A i \in 1..Len(w) : (c \o w)[i + Len(c)] = w[i]
    BY JoinedTokens, Zenon
<1>3. ASSUME NEW i \in 1..Len(c \o w)
      PROVE  (c \o w)[i] = (b \o w)[i + d]
    <2>1. CASE i <= Len(c)
        <3>1. i \in 1..Len(c) /\ i + d \in 1..Len(b)
            BY <1>1, <2>1
        <3> QED
            BY <1>1, <1>2, <3>1
    <2>2. CASE ~(i <= Len(c))
        <3>1. PICK j \in 1..Len(w) : i = j + Len(c) /\ i + d = j + Len(b)
            <4>1. i - Len(c) \in 1..Len(w)
                BY <1>1, <1>2, <2>2
            <4>2. i = (i - Len(c)) + Len(c) /\ i + d = (i - Len(c)) + Len(b)
                BY <1>1
            <4> QED
                BY <4>1, <4>2, Zenon
        <3> QED
            BY <1>1, <1>2, <3>1
    <2> QED
        BY <2>1, <2>2
<1>4. Len(c \o w) = Len(b \o w) - d /\ d \in 0..Len(b \o w)
    BY <1>1, <1>2
<1> QED
    BY <1>1, <1>2, <1>3, <1>4 DEF Suffix

\* What the receiver reads is still ahead of it.
LEMMA ReadAhead ==
    ASSUME NEW b \in Seq(AnyToken), NEW w \in Seq(AnyToken), NEW n \in 0..Len(w)
    PROVE  (b \o SubSeq(w, 1, n)) \o From(w, n + 1) = b \o w
<1>1. SubSeq(w, 1, n) \in Seq(AnyToken) /\ From(w, n + 1) \in Seq(AnyToken)
    BY Began, CutOff
<1>2. SubSeq(w, 1, n) \o From(w, n + 1) = w
    <2> DEFINE x == SubSeq(w, 1, n)
               z == From(w, n + 1)
    <2>1. /\ x \in Seq(AnyToken) /\ Len(x) = n /\ \A i \in 1..n : x[i] = w[i]
        BY Began
    <2>2. /\ z \in Seq(AnyToken) /\ Len(z) = Len(w) - n
          /\ \A i \in 1..Len(w) - n : z[i] = w[i + n]
        BY CutOff
    <2> HIDE DEF x, z
    <2>3. /\ x \o z \in Seq(AnyToken) /\ Len(x \o z) = Len(w)
          /\ \A i \in 1..n : (x \o z)[i] = w[i]
          /\ \A i \in 1..Len(w) - n : (x \o z)[i + n] = w[i + n]
        <3>1. /\ x \o z \in Seq(AnyToken) /\ Len(x \o z) = Len(x) + Len(z)
              /\ \A i \in 1..Len(x) : (x \o z)[i] = x[i]
              /\ \A i \in 1..Len(z) : (x \o z)[i + Len(x)] = z[i]
            BY <2>1, <2>2, JoinedTokens, Zenon
        <3> QED
            BY <2>1, <2>2, <3>1
    <2>4. ASSUME NEW i \in 1..Len(w)
          PROVE  (x \o z)[i] = w[i]
        <3>1. CASE i <= n
            BY <2>3, <3>1
        <3>2. CASE ~(i <= n)
            <4>1. i - n \in 1..Len(w) - n /\ (i - n) + n = i
                BY <3>2
            <4> QED
                BY <2>3, <4>1
        <3> QED
            BY <3>1, <3>2
    <2>5. x \o z = w
        BY <2>3, <2>4, SeqEqual
    <2> QED
        BY <2>5 DEF x, z
<1> QED
    <2> DEFINE x == SubSeq(w, 1, n)
               z == From(w, n + 1)
    <2>1. x \in Seq(AnyToken) /\ z \in Seq(AnyToken) /\ x \o z = w
        BY <1>1, <1>2
    <2> HIDE DEF x, z
    <2>2. (b \o x) \o z = b \o (x \o z)
        <3>1. x \in Seq(AnyToken) /\ z \in Seq(AnyToken)
            BY <2>1
        <3> QED
            BY <3>1, JoinedThrice, Zenon
    <2> QED
        BY <2>1, <2>2 DEF x, z

\* What a full buffer keeps.
LEMMA KeptFacts ==
    ASSUME NEW S, NEW s \in Seq(S)
    PROVE  /\ KeptLast(s) \in Seq(S) /\ Len(KeptLast(s)) <= MaxFrame
           /\ Len(KeptLast(s)) <= Len(s)
           /\ \A i \in 1..Len(KeptLast(s)) :
                KeptLast(s)[i] = s[i + (Len(s) - Len(KeptLast(s)))]
           /\ Len(s) <= MaxFrame => KeptLast(s) = s
<1>1. MaxFrame \in Nat /\ Len(s) \in Nat
    BY Sizes
<1>2. CASE Len(s) <= MaxFrame
    <2>1. KeptLast(s) = s
        BY <1>1, <1>2 DEF KeptLast, LastOf
    <2>2. \A i \in 1..Len(s) : i + (Len(s) - Len(s)) = i
        BY <1>1
    <2> QED
        BY <1>1, <1>2, <2>1, <2>2
<1>3. CASE ~(Len(s) <= MaxFrame)
    <2> DEFINE d == Len(s) - MaxFrame
    <2>1. KeptLast(s) = From(s, d + 1) /\ d \in 0..Len(s)
        BY <1>1, <1>3 DEF KeptLast, LastOf
    <2>2. /\ From(s, d + 1) \in Seq(S) /\ Len(From(s, d + 1)) = Len(s) - d
          /\ \A i \in 1..Len(s) - d : From(s, d + 1)[i] = s[i + d]
        BY <2>1, CutOff
    <2>3. Len(s) - d = MaxFrame /\ Len(s) - MaxFrame = d
        BY <1>1
    <2> QED
        <3>1. KeptLast(s) \in Seq(S) /\ Len(KeptLast(s)) = MaxFrame /\ MaxFrame <= Len(s)
            BY <1>1, <1>3, <2>1, <2>2, <2>3
        <3>2. \A i \in 1..MaxFrame : KeptLast(s)[i] = s[i + (Len(s) - MaxFrame)]
            BY <2>1, <2>2, <2>3
        <3> QED
            BY <1>1, <1>3, <3>1, <3>2
<1> QED
    BY <1>2, <1>3

LEMMA KeptShort == \A s \in Seq(AnyToken) : Len(s) <= MaxFrame => KeptLast(s) = s
    BY KeptFacts

\* Every set of natural numbers that is not empty has a least element.
LEMMA LeastNumber ==
    ASSUME NEW T \in SUBSET Nat, T # {}
    PROVE  \E x \in T : \A y \in T : x <= y
<1> DEFINE R == {ss \in Nat \X Nat : ss[1] < ss[2]}
<1>1. IsWellFoundedOn(R, Nat)
    BY NatLessThanWellFounded DEF OpToRel
<1>2. \E x \in T : \A y \in T : ~ (<<y, x>> \in R)
    <2> HIDE DEF R
    <2> QED
        BY <1>1, WFMin
<1>3. \A x, y \in Nat : ~ (<<y, x>> \in R) => x <= y
    OBVIOUS
<1> HIDE DEF R
<1> QED
    BY <1>2, <1>3

-----------------------------------------------------------------------------

\* Ways of taking a prefix away.
LEMMA TakeNothing == ASSUME NEW s \in Seq(AnyToken) PROVE Suffix(s, s, 0)
    BY DEF Suffix

LEMMA TakeFrom ==
    ASSUME NEW s \in Seq(AnyToken), NEW d \in 0..Len(s)
    PROVE  Suffix(s, From(s, d + 1), d)
<1>1. /\ From(s, d + 1) \in Seq(AnyToken) /\ Len(From(s, d + 1)) = Len(s) - d
      /\ \A i \in 1..Len(s) - d : From(s, d + 1)[i] = s[i + d]
    BY CutOff
<1> QED
    BY <1>1 DEF Suffix

LEMMA TakeFirst ==
    ASSUME NEW s \in Seq(AnyToken), s # <<>>
    PROVE  Suffix(s, Tail(s), 1)
<1>1. /\ Tail(s) \in Seq(AnyToken) /\ Len(Tail(s)) = Len(s) - 1 /\ 1 \in 0..Len(s)
      /\ \A i \in 1..Len(s) - 1 : Tail(s)[i] = s[i + 1]
    OBVIOUS
<1> QED
    BY <1>1 DEF Suffix

LEMMA TakeTwice ==
    ASSUME NEW s, NEW t, NEW u, NEW d, NEW e, Suffix(s, t, d), Suffix(t, u, e)
    PROVE  Suffix(s, u, d + e)
<1>1. /\ Len(s) \in Nat /\ d \in 0..Len(s) /\ Len(t) = Len(s) - d
      /\ e \in 0..Len(t) /\ Len(u) = Len(t) - e
    BY DEF Suffix
<1>2. ASSUME NEW i \in 1..Len(u)
      PROVE  u[i] = s[i + (d + e)]
    <2>1. i + e \in 1..Len(t) /\ (i + e) + d = i + (d + e)
        BY <1>1
    <2> QED
        BY <2>1 DEF Suffix
<1>3. d + e \in 0..Len(s) /\ Len(u) = Len(s) - (d + e)
    BY <1>1
<1> QED
    BY <1>2, <1>3 DEF Suffix

LEMMA SuffixTyped ==
    ASSUME NEW T, NEW s \in Seq(T), NEW t, NEW d, Suffix(s, t, d)
    PROVE  t \in Seq(T)
<1>1. Len(t) \in Nat /\ t = [i \in 1..Len(t) |-> t[i]]
    BY DEF Suffix
<1>2. \A i \in 1..Len(t) : i + d \in 1..Len(s) /\ t[i] = s[i + d]
    BY DEF Suffix
<1>3. \A i \in 1..Len(t) : t[i] \in T
    BY <1>2
<1> QED
    BY <1>1, <1>3

\* What the receiver takes from its buffer it takes from what is ahead.
LEMMA SuffixAhead ==
    ASSUME TypeOK, NEW d, Suffix(buffer, buffer', d), wire' = wire
    PROVE  /\ Suffix(Ahead, Ahead', d)
           /\ Len(buffer) \in Nat /\ d \in 0..Len(buffer) /\ Len(buffer) <= Len(Ahead)
           /\ \A i \in 1..Len(buffer) : Ahead[i] = buffer[i]
<1>1. buffer \in Seq(AnyToken) /\ wire \in Seq(AnyToken)
    BY AheadTyped
<1>2. /\ buffer' \in Seq(AnyToken) /\ d \in 0..Len(buffer) /\ Len(buffer') = Len(buffer) - d
      /\ \A i \in 1..Len(buffer') : buffer'[i] = buffer[i + d]
    BY DEF Suffix
<1>3. Suffix(Ahead, Ahead', d)
    <2> DEFINE c == buffer'
    <2>1. /\ c \in Seq(AnyToken) /\ d \in 0..Len(buffer) /\ Len(c) = Len(buffer) - d
          /\ \A i \in 1..Len(c) : c[i] = buffer[i + d]
        BY <1>2
    <2> HIDE DEF c
    <2>2. Suffix(buffer \o wire, c \o wire, d)
        BY <1>1, <2>1, CutBuffer
    <2>3. Ahead' = c \o wire
        BY DEF c, Ahead
    <2> QED
        BY <2>2, <2>3 DEF Ahead
<1>4. /\ Len(buffer) \in Nat /\ Len(Ahead) = Len(buffer) + Len(wire) /\ Len(wire) \in Nat
      /\ \A i \in 1..Len(buffer) : Ahead[i] = buffer[i]
    BY <1>1, JoinedTokens DEF Ahead
<1> QED
    BY <1>2, <1>3, <1>4

\* The places 1 to n of frame f, from byte i on.
RunAt(s, i, f, n) ==
    /\ i + n - 1 <= Len(s)
    /\ \A m \in 1..n : s[i + m - 1].frame = f /\ s[i + m - 1].place = m

\* What begins a frame that was not damaged.
LEMMA StartFacts ==
    ASSUME NEW s \in Seq(AnyToken), NEW bad, NEW clean, Whole(s, bad),
           NEW i \in 1..Len(s), Start(s[i], bad)
    PROVE  \E n \in 0..MaxPayload :
                /\ i + n + 4 <= Len(s)
                /\ s[i].byte = A /\ s[i + 1].byte = L /\ s[i + 2].byte = n
                /\ RunAt(s, i, s[i].frame, n + 5)
<1> DEFINE f == s[i].frame
<1>1. PICK msg \in Messages : Sits(s, i, msg, f)
    BY DEF Whole, Start
<1>2. f \in Nat
    <2>1. s[i] \in AnyToken
        OBVIOUS
    <2> QED
        BY <2>1 DEF AnyToken
<1> DEFINE e == Encoded(msg, f)
           n == Len(msg.payload)
<1>3. /\ n \in 0..MaxPayload /\ Len(e) = n + 5
      /\ \A k \in 1..n + 5 : e[k].frame = f /\ e[k].place = k
      /\ e[1].byte = A /\ e[2].byte = L /\ e[3].byte = n
    BY <1>2, EncodedFacts
<1>4. s[i].place = 1
    BY DEF Start
<1>5. i + n + 5 - 1 <= Len(s) /\ \A j \in 1..n + 5 : s[i + j - 1] = e[j]
    BY <1>1, <1>3, <1>4 DEF Sits
<1> HIDE DEF e, f, n
<1>6. s[i] = e[1] /\ s[i + 1] = e[2] /\ s[i + 2] = e[3]
    <2>1. {1, 2, 3} \subseteq 1..n + 5 /\ i + 1 - 1 = i /\ i + 2 - 1 = i + 1 /\ i + 3 - 1 = i + 2
        BY <1>3
    <2> QED
        BY <1>5, <2>1
<1>7. RunAt(s, i, f, n + 5)
    BY <1>3, <1>5 DEF RunAt
<1>8. i + n + 4 <= Len(s)
    BY <1>3, <1>5
<1> QED
    BY <1>3, <1>6, <1>7, <1>8 DEF f

\* A frame whose places are all there, as far as its length says, is not damaged.
LEMMA RunIsSound ==
    ASSUME NEW s \in Seq(AnyToken), NEW bad, Broken(s, bad), NEW i \in 1..Len(s), NEW f,
           s[i + 2].byte \in Nat, RunAt(s, i, f, s[i + 2].byte + 5)
    PROVE  f \notin bad
<1> DEFINE n == s[i + 2].byte
<1>1. i + n + 4 <= Len(s) /\ \A m \in 1..n + 5 : s[i + m - 1].frame = f /\ s[i + m - 1].place = m
    BY DEF RunAt
<1>2. ASSUME f \in bad
      PROVE  FALSE
    <2>1. PICK k \in 1..MaxFrame : Missing(s, f, k)
        BY <1>2 DEF Broken
    <2>2. i + 2 \in 1..Len(s) /\ s[i + 2].frame = f /\ s[i + 2].place = 3
        <3>1. 3 \in 1..n + 5 /\ i + 3 - 1 = i + 2
            OBVIOUS
        <3>2. s[i + 3 - 1].frame = f /\ s[i + 3 - 1].place = 3
            BY <1>1, <3>1
        <3> QED
            BY <1>1, <3>1, <3>2
    <2>3. k \in Nat /\ k >= 1 /\ k <= n + 5
        <3>1. k \in Nat /\ k >= 1
            BY Sizes
        <3>2. k <= 4 \/ k <= 4 + n + 1
            BY <2>1, <2>2 DEF Missing, HeaderSize, CrcSize
        <3> QED
            BY <3>1, <3>2
    <2>4. k \in 1..n + 5
        BY <2>3
    <2>5. s[i + k - 1].frame = f /\ s[i + k - 1].place = k
        BY <1>1, <2>4
    <2>6. i + k - 1 \in 1..Len(s)
        <3>1. /\ i \in Nat /\ i >= 1 /\ n \in Nat /\ Len(s) \in Nat
              /\ i + n + 4 <= Len(s) /\ k \in Nat /\ k >= 1 /\ k <= n + 5
            BY <1>1, <2>3
        <3> HIDE DEF n
        <3> QED
            BY <3>1
    <2> QED
        BY <2>1, <2>5, <2>6 DEF Missing
<1> QED
    BY <1>2

-----------------------------------------------------------------------------

\* The CRC matches exactly where all places of one frame stand in a row.
LEMMA CrcIsRun ==
    ASSUME NEW s \in Seq(AnyToken), Len(s) >= 3, Total(s) <= Len(s)
    PROVE  CrcMatches(s) <=> s[1].frame > 0 /\ RunAt(s, 1, s[1].frame, s[3].byte + 5)
<1> DEFINE n == s[3].byte
<1>1. n \in Nat
    <2>1. s[3] \in AnyToken
        OBVIOUS
    <2> QED
        BY <2>1 DEF AnyToken
<1>2. Total(s) = n + 5
    BY <1>1 DEF Total, Length, HeaderSize, CrcSize
<1> HIDE DEF n
<1>3. \A m \in 1..n + 5 : 1 + m - 1 = m
    BY <1>1
<1>4. RunAt(s, 1, s[1].frame, n + 5) <=>
        \A m \in 1..n + 5 : s[m].frame = s[1].frame /\ s[m].place = m
    <2>1. 1 + (n + 5) - 1 <= Len(s)
        BY <1>1, <1>2
    <2> QED
        BY <1>3, <2>1 DEF RunAt
<1>5. CrcMatches(s) <=> s[1].frame > 0 /\ RunAt(s, 1, s[1].frame, n + 5)
    BY <1>2, <1>4 DEF CrcMatches
<1> QED
    BY <1>5 DEF n

\* What one turn of the FC does.
LEMMA FcTurnEffect ==
    ASSUME TypeOK, FcTurn
    PROVE  \E d \in Nat :
              /\ Suffix(buffer, buffer', d)
              /\ \/ passed' = passed /\ d = 0
                 \/ /\ passed' = passed /\ d = 1 /\ Len(buffer) >= 5
                    /\ HasMagic(buffer, 1) => buffer[3].byte > MaxPayload
                 \/ /\ HasMagic(buffer, 1) /\ buffer[3].byte \in 0..MaxPayload
                    /\ d = buffer[3].byte + 5
                    /\ LET run == /\ buffer[1].frame > 0
                                  /\ RunAt(buffer, 1, buffer[1].frame, buffer[3].byte + 5)
                       IN  passed' = IF run THEN Append(passed, buffer[1].frame) ELSE passed
<1>1. buffer \in Seq(AnyToken) /\ Len(buffer) \in Nat /\ MaxPayload \in Nat
    BY AheadTyped, Sizes
<1>2. Suffix(buffer, buffer, 0)
    BY <1>1, TakeNothing
<1>3. CASE Len(buffer) < HeaderSize + CrcSize \/ telemetry >= TelemetryBudget
    BY <1>2, <1>3 DEF FcTurn, Stop
<1>4. CASE ~(Len(buffer) < HeaderSize + CrcSize \/ telemetry >= TelemetryBudget)
    <2>1. Len(buffer) >= 5
        BY <1>1, <1>4 DEF HeaderSize, CrcSize
    <2>2. Suffix(buffer, Tail(buffer), 1)
        BY <1>1, <2>1, TakeFirst
    <2>3. Length(buffer) = buffer[3].byte /\ buffer[3].byte \in Nat
        <3>1. buffer[3] \in AnyToken
            BY <1>1, <2>1
        <3> QED
            BY <3>1 DEF AnyToken, Length, HeaderSize
    <2>4. CASE ~HasMagic(buffer, 1)
        BY <1>4, <2>1, <2>2, <2>4 DEF FcTurn
    <2>5. CASE HasMagic(buffer, 1) /\ Length(buffer) > MaxPayload
        BY <1>4, <2>1, <2>2, <2>3, <2>5 DEF FcTurn
    <2>6. CASE HasMagic(buffer, 1) /\ ~(Length(buffer) > MaxPayload) /\ ~Arrived(buffer)
        BY <1>2, <1>4, <2>6 DEF FcTurn, Stop
    <2>7. CASE HasMagic(buffer, 1) /\ ~(Length(buffer) > MaxPayload) /\ Arrived(buffer)
        <3>1. Total(buffer) = buffer[3].byte + 5 /\ Total(buffer) \in 0..Len(buffer)
            BY <1>1, <2>3, <2>7 DEF Total, HeaderSize, CrcSize, Arrived
        <3>2. buffer' = From(buffer, Total(buffer) + 1)
            BY <1>4, <2>7 DEF FcTurn
        <3>3. Suffix(buffer, buffer', Total(buffer))
            BY <1>1, <3>1, <3>2, TakeFrom
        <3>4. passed' = IF CrcMatches(buffer) THEN Append(passed, buffer[1].frame) ELSE passed
            BY <1>4, <2>7 DEF FcTurn
        <3>5. CrcMatches(buffer) <=>
                buffer[1].frame > 0 /\ RunAt(buffer, 1, buffer[1].frame, buffer[3].byte + 5)
            <4>1. Total(buffer) <= Len(buffer) /\ Len(buffer) >= 3
                BY <1>1, <2>1, <3>1
            <4> QED
                BY <1>1, <4>1, CrcIsRun
        <3>6. buffer[3].byte \in 0..MaxPayload /\ buffer[3].byte + 5 \in Nat
            BY <1>1, <2>3, <2>7
        <3> QED
            BY <2>7, <3>1, <3>3, <3>4, <3>5, <3>6
    <2> QED
        BY <2>4, <2>5, <2>6, <2>7
<1> QED
    BY <1>3, <1>4

\* What one turn of the Pi does: it ends with nothing taken but what begins
\* no frame, or it takes one byte of a frame it refuses, or a whole frame.
LEMMA PiTurnEffect ==
    ASSUME TypeOK, PiTurn
    PROVE  \E d \in Nat :
              /\ Suffix(buffer, buffer', d)
              /\ running' = running \/ (running' = FALSE /\ Len(buffer') < MaxFrame)
              /\ \/ /\ passed' = passed
                    /\ \A i \in 1..d : IF i < Len(buffer) THEN ~HasMagic(buffer, i)
                                         ELSE buffer[i].byte # A
                 \/ \E k \in 1..Len(buffer) - 2 :
                      LET n == buffer[k + 2].byte
                          run == buffer[k].frame > 0 /\ RunAt(buffer, k, buffer[k].frame, n + 5)
                      IN  /\ \A i \in 1..k - 1 : ~HasMagic(buffer, i)
                          /\ \/ /\ passed' = passed /\ d = k
                                /\ n <= MaxPayload => k + n + 4 <= Len(buffer) /\ ~run
                             \/ passed' = Append(passed, buffer[k].frame) /\ d = k + n + 4 /\ run
<1>1. buffer \in Seq(AnyToken) /\ Len(buffer) \in Nat /\ MaxPayload \in Nat /\ MaxFrame = MaxPayload + 5
    BY AheadTyped, Sizes
<1>2. CASE Magics = {}
    <2>1. running' = FALSE /\ passed' = passed /\ buffer' = KeptLast(Partial)
        BY <1>2 DEF PiTurn, Stop
    <2>2. \A i \in 1..Len(buffer) : ~HasMagic(buffer, i)
        BY <1>2 DEF Magics
    <2>3. CASE buffer # <<>> /\ buffer[Len(buffer)].byte = A
        <3> DEFINE d == Len(buffer) - 1
        <3>1. Suffix(buffer, From(buffer, d + 1), d) /\ d \in Nat
            BY <1>1, <2>3, TakeFrom
        <3>2. Partial = From(buffer, d + 1) \/ (Len(buffer) = 1 /\ Partial = buffer)
            BY <1>1, <2>3 DEF Partial, LastOf
        <3>3. Suffix(buffer, Partial, d)
            <4>1. CASE Partial = From(buffer, d + 1)
                BY <3>1, <4>1
            <4>2. CASE Len(buffer) = 1 /\ Partial = buffer
                <5>1. d = 0
                    BY <4>2
                <5> QED
                    BY <1>1, <4>2, <5>1, TakeNothing
            <4> QED
                BY <3>2, <4>1, <4>2
        <3>4. Partial \in Seq(AnyToken) /\ Len(Partial) = 1
            BY <1>1, <3>3 DEF Suffix
        <3>5. KeptLast(Partial) = Partial
            <4>1. Len(Partial) <= MaxFrame
                BY <1>1, <3>4
            <4> QED
                BY <3>4, <4>1, KeptShort, Zenon
        <3>6. \A i \in 1..d : i < Len(buffer) /\ ~HasMagic(buffer, i)
            BY <1>1, <2>2
        <3>7. Suffix(buffer, buffer', d) /\ Len(buffer') < MaxFrame
            <4>1. buffer' = Partial
                BY <2>1, <3>5
            <4>2. 1 < MaxFrame
                BY <1>1
            <4> QED
                BY <3>3, <3>4, <4>1, <4>2, Zenon
        <3> HIDE DEF d
        <3> QED
            BY <2>1, <3>1, <3>6, <3>7
    <2>4. CASE ~(buffer # <<>> /\ buffer[Len(buffer)].byte = A)
        <3>1. Partial = <<>> /\ <<>> \in Seq(AnyToken) /\ Len(<<>>) = 0
            BY <2>4 DEF Partial
        <3>2. KeptLast(Partial) = <<>>
            <4>1. Len(Partial) <= MaxFrame
                BY <1>1, <3>1
            <4> QED
                BY <3>1, <4>1, KeptShort, Zenon
        <3>3. Suffix(buffer, <<>>, Len(buffer))
            BY <1>1, <3>1 DEF Suffix
        <3>4. \A i \in 1..Len(buffer) : IF i < Len(buffer) THEN ~HasMagic(buffer, i)
                                         ELSE buffer[i].byte # A
            BY <1>1, <2>2, <2>4
        <3> QED
            BY <1>1, <2>1, <3>1, <3>2, <3>3, <3>4
    <2> QED
        BY <2>3, <2>4
<1>3. CASE Magics # {}
    <2> DEFINE k == CHOOSE j \in Magics : \A m \in Magics : j <= m
               at == From(buffer, k)
               n == buffer[k + 2].byte
               run == buffer[k].frame > 0 /\ RunAt(buffer, k, buffer[k].frame, n + 5)
    <2>1. k \in Magics /\ \A m \in Magics : k <= m
        <3>1. Magics \subseteq Nat
            BY DEF Magics
        <3>2. \E j \in Magics : \A m \in Magics : j <= m
            BY <1>3, <3>1, LeastNumber
        <3> QED
            BY <3>2
    <2>2. at = From(buffer, k)
        OBVIOUS
    <2>3. /\ IF Len(at) < HeaderSize THEN Stop(KeptLast(at))
             ELSE IF Length(at) > MaxPayload
             THEN buffer' = Tail(at) /\ UNCHANGED <<running, passed, telemetry>>
             ELSE IF Len(at) < Total(at) THEN Stop(KeptLast(at))
             ELSE /\ passed' = IF CrcMatches(at) THEN Append(passed, at[1].frame) ELSE passed
                  /\ buffer' = IF CrcMatches(at) THEN From(at, Total(at) + 1) ELSE Refused(at)
                  /\ UNCHANGED <<running, telemetry>>
        BY <1>3 DEF PiTurn
    <2> HIDE DEF k
    <2>4. k \in 1..Len(buffer) - 1 /\ \A i \in 1..k - 1 : ~HasMagic(buffer, i)
        BY <1>1, <2>1 DEF Magics, HasMagic
    <2>5. Suffix(buffer, at, k - 1) /\ k - 1 \in Nat
        <3>1. k - 1 \in 0..Len(buffer) /\ (k - 1) + 1 = k
            BY <1>1, <2>4
        <3> QED
            BY <1>1, <3>1, TakeFrom
    <2> HIDE DEF at
    <2>6. /\ at \in Seq(AnyToken) /\ Len(at) = Len(buffer) - (k - 1)
          /\ \A i \in 1..Len(at) : at[i] = buffer[i + (k - 1)]
        BY <2>5 DEF Suffix
    <2>7. ASSUME Len(at) < MaxFrame, Stop(KeptLast(at))
          PROVE  Suffix(buffer, buffer', k - 1) /\ running' = FALSE /\ Len(buffer') < MaxFrame
                 /\ passed' = passed
        <3>1. KeptLast(at) = at
            BY <1>1, <2>6, <2>7, KeptFacts
        <3> QED
            BY <2>5, <2>7, <3>1 DEF Stop
    <2>8. \A i \in 1..k - 1 : i < Len(buffer) /\ ~HasMagic(buffer, i)
        BY <1>1, <2>4
    <2>9. CASE Len(at) < HeaderSize
        <3>1. Len(at) < MaxFrame /\ Stop(KeptLast(at))
            BY <1>1, <2>3, <2>6, <2>9 DEF HeaderSize
        <3> QED
            BY <2>5, <2>7, <2>8, <3>1
    <2>10. CASE ~(Len(at) < HeaderSize)
        <3>1. k \in 1..Len(buffer) - 2 /\ Len(at) >= 3
            BY <1>1, <2>4, <2>6, <2>10 DEF HeaderSize
        <3>2. Length(at) = n /\ n \in Nat /\ at[1] = buffer[k] /\ at[3].byte = n
            <4>1. 1 \in 1..Len(at) /\ 3 \in 1..Len(at) /\ 1 + (k - 1) = k /\ 3 + (k - 1) = k + 2
                BY <2>4, <3>1
            <4>2. at[1] = buffer[k] /\ at[3] = buffer[k + 2] /\ at[3] \in AnyToken
                BY <2>6, <4>1
            <4> QED
                BY <4>2 DEF AnyToken, Length, HeaderSize
        <3>3. Suffix(buffer, Tail(at), k)
            <4>1. Suffix(at, Tail(at), 1)
                BY <2>6, <3>1, TakeFirst
            <4>2. Suffix(buffer, Tail(at), (k - 1) + 1) /\ (k - 1) + 1 = k
                BY <2>4, <2>5, <4>1, TakeTwice
            <4> QED
                BY <4>2
        <3> HIDE DEF n
        <3>4. Total(at) = n + 5
            BY <3>2 DEF Total, HeaderSize, CrcSize
        <3>5. CASE n > MaxPayload
            <4>1. buffer' = Tail(at) /\ running' = running /\ passed' = passed
                BY <2>3, <2>10, <3>2, <3>5
            <4>2. k \in Nat /\ ~(n <= MaxPayload)
                BY <1>1, <3>1, <3>2, <3>5
            <4> QED
                BY <2>4, <3>1, <3>3, <4>1, <4>2 DEF n
        <3>6. CASE ~(n > MaxPayload) /\ Len(at) < Total(at)
            <4>1. Stop(KeptLast(at))
                BY <2>3, <2>10, <3>2, <3>6
            <4>2. Len(at) < MaxFrame
                BY <1>1, <2>6, <3>2, <3>4, <3>6
            <4> QED
                BY <2>5, <2>7, <2>8, <4>1, <4>2
        <3>7. CASE ~(n > MaxPayload) /\ ~(Len(at) < Total(at))
            <4>1. /\ passed' = IF CrcMatches(at) THEN Append(passed, at[1].frame) ELSE passed
                  /\ buffer' = IF CrcMatches(at) THEN From(at, Total(at) + 1) ELSE Refused(at)
                  /\ running' = running
                BY <2>3, <2>10, <3>2, <3>7
            <4>2. k + n + 4 <= Len(buffer) /\ k \in Nat
                BY <1>1, <2>6, <3>1, <3>2, <3>4, <3>7
            <4>3. CrcMatches(at) <=> run
                <5>1. CrcMatches(at) <=> at[1].frame > 0 /\ RunAt(at, 1, at[1].frame, n + 5)
                    <6>1. Total(at) <= Len(at)
                        BY <1>1, <2>6, <3>1, <3>2, <3>4, <3>7
                    <6> QED
                        BY <2>6, <3>1, <3>2, <6>1, CrcIsRun
                <5>2. \A m \in 1..n + 5 : 1 + m - 1 \in 1..Len(at) /\ at[1 + m - 1] = buffer[k + m - 1]
                    <6> TAKE m \in 1..n + 5
                    <6>1. m \in 1..Len(at) /\ 1 + m - 1 = m /\ m + (k - 1) = k + m - 1
                        BY <1>1, <2>6, <3>1, <3>2, <4>2
                    <6> QED
                        BY <2>6, <6>1
                <5>3. 1 + (n + 5) - 1 <= Len(at) /\ k + (n + 5) - 1 <= Len(buffer)
                    BY <1>1, <2>6, <3>1, <3>2, <4>2
                <5> QED
                    BY <3>2, <5>1, <5>2, <5>3 DEF RunAt, n
            <4>4. CASE CrcMatches(at)
                <5>1. Suffix(at, From(at, (n + 5) + 1), n + 5)
                    <6>1. n + 5 \in 0..Len(at)
                        BY <1>1, <2>6, <3>1, <3>2, <3>4, <3>7
                    <6> QED
                        BY <2>6, <6>1, TakeFrom
                <5>2. Suffix(buffer, buffer', (k - 1) + (n + 5))
                    BY <2>5, <3>4, <4>1, <4>4, <5>1, TakeTwice
                <5>3. (k - 1) + (n + 5) = k + n + 4 /\ k + n + 4 \in Nat
                    BY <3>2, <4>2
                <5>4. Suffix(buffer, buffer', k + n + 4)
                    BY <5>2, <5>3
                <5>5. passed' = Append(passed, buffer[k].frame)
                    BY <3>2, <4>1, <4>4
                <5>6. run
                    BY <4>3, <4>4
                <5> QED
                    BY <2>4, <3>1, <4>1, <5>3, <5>4, <5>5, <5>6 DEF n
            <4>5. CASE ~CrcMatches(at)
                <5>1. Suffix(buffer, buffer', k) /\ passed' = passed
                    BY <3>3, <4>1, <4>5 DEF Refused
                <5>2. ~run
                    BY <4>3, <4>5
                <5> QED
                    BY <2>4, <3>1, <4>1, <4>2, <5>1, <5>2 DEF n
            <4> QED
                BY <4>4, <4>5
        <3> QED
            BY <3>5, <3>6, <3>7
    <2> QED
        BY <2>9, <2>10
<1> QED
    BY <1>2, <1>3

-----------------------------------------------------------------------------

\* What a sender puts behind the rest.
Sent(msg, x) ==
    /\ x \in Seq(TokensOf(sent + 1)) /\ x \in Seq(AnyToken)
    /\ wire' = wire \o x /\ Ahead' = Ahead \o x /\ buffer' = buffer
    /\ sent' = sent + 1 /\ (plain' => plain) /\ (plain' => ~HoldsMagic(msg))
    /\ UNCHANGED <<side, running, telemetry, passed>>
    /\ \/ x = Encoded(msg, sent + 1) /\ UNCHANGED <<damaged, hurt>>
       \/ /\ damaged' = damaged \union {sent + 1} /\ hurt' = hurt \union {sent + 1}
          /\ \A i \in 1..Len(x) : x[i].frame \in {0, sent + 1}
          /\ Ordered(x)
          /\ \E k \in 1..MaxFrame : Missing(x, sent + 1, k)

LEMMA SendEffect ==
    ASSUME TypeOK, NEW msg \in Messages, Send(msg)
    PROVE  \E x : Sent(msg, x)
<1>1. sent \in Nat /\ sent + 1 \in Nat /\ sent + 1 \in 0..sent + 1
    BY AheadTyped
<1>2. TokensOf(sent + 1) \subseteq AnyToken
    BY <1>1, TokensCompare
<1>3. (plain' => plain) /\ (plain' => ~HoldsMagic(msg))
    BY Zenon DEF Send, HoldsMagic
<1>4. /\ sent' = sent + 1 /\ buffer' = buffer
      /\ UNCHANGED <<side, running, telemetry, passed>>
    BY DEF Send
<1>5. ASSUME NEW x \in Seq(TokensOf(sent + 1)), wire' = wire \o x
      PROVE  x \in Seq(AnyToken) /\ Ahead' = Ahead \o x
    <2>1. x \in Seq(AnyToken)
        BY <1>2, SeqWider
    <2>2. buffer \in Seq(AnyToken) /\ wire \in Seq(AnyToken)
        BY AheadTyped
    <2>3. buffer \o (wire \o x) = (buffer \o wire) \o x
        BY <2>1, <2>2, JoinedThrice
    <2> QED
        BY <1>4, <1>5, <2>1, <2>3 DEF Ahead
<1> DEFINE e == Encoded(msg, sent + 1)
<1>6. CASE wire' = wire \o e /\ UNCHANGED <<faults, damaged, hurt>>
    <2>1. e \in Seq(TokensOf(sent + 1))
        BY <1>1, EncodedTyped
    <2> QED
        BY <1>3, <1>4, <1>5, <1>6, <2>1 DEF Sent
<1>7. CASE /\ damaged' = damaged \union {sent + 1} /\ hurt' = hurt \union {sent + 1}
           /\ \E k \in 1..Len(e) :
                \/ wire' = wire \o Without(e, k)
                \/ \E b \in Bytes \ {e[k].byte} : wire' = wire \o [e EXCEPT ![k] = Noise(b)]
    <2>1. PICK k \in 1..Len(e) :
            \/ wire' = wire \o Without(e, k)
            \/ \E b \in Bytes : wire' = wire \o [e EXCEPT ![k] = Noise(b)]
        BY <1>7
    <2>2. PICK x :
            /\ wire' = wire \o x
            /\ x = Without(e, k) \/ \E b \in Bytes : x = [e EXCEPT ![k] = Noise(b)]
        BY <2>1
    <2>3. /\ x \in Seq(TokensOf(sent + 1))
          /\ \A i \in 1..Len(x) : x[i].frame \in {0, sent + 1}
          /\ Ordered(x)
          /\ k \in 1..MaxFrame /\ Missing(x, sent + 1, k)
        BY <1>1, <2>2, DamagedFrame
    <2> QED
        BY <1>3, <1>4, <1>5, <1>7, <2>2, <2>3 DEF Sent
<1> QED
    BY <1>6, <1>7 DEF Send

\* What a run of the FC reads and pushes out.
LEMMA RunFcEffect ==
    ASSUME TypeOK, NEW n \in 0..Len(wire), RunFc(n)
    PROVE  \E d :
              /\ Suffix(Ahead, Ahead', d)
              /\ hurt \subseteq hurt' /\ hurt' \subseteq 0..sent
              /\ \A i \in 1..d : Ahead[i].frame \in hurt'
              /\ wire' \in Seq(Tokens) /\ buffer' \in Seq(Tokens) /\ Len(buffer') <= MaxFrame
<1> DEFINE all == buffer \o SubSeq(wire, 1, n)
           rest == From(wire, n + 1)
           kept == KeptLast(all)
           d == Len(all) - Len(kept)
<1>1. /\ buffer \in Seq(AnyToken) /\ wire \in Seq(AnyToken) /\ Ahead \in Seq(AnyToken) /\ sent \in Nat
      /\ \A i \in 1..Len(Ahead) : Ahead[i].frame \in 0..sent
    BY AheadTyped
<1>2. /\ buffer' = kept /\ wire' = rest
      /\ hurt' = hurt \union {all[k].frame : k \in 1..d}
    BY DEF RunFc
<1>3. /\ SubSeq(wire, 1, n) \in Seq(AnyToken) /\ rest \in Seq(AnyToken)
    BY <1>1, Began, CutOff
<1>4. all \in Seq(AnyToken)
    BY <1>1, <1>3, JoinedTokens, Zenon
<1>5. all \o rest = Ahead
    BY <1>1, ReadAhead DEF Ahead
<1>6. all \in Seq(Tokens) /\ rest \in Seq(Tokens)
    <2>1. buffer \in Seq(Tokens) /\ wire \in Seq(Tokens)
        BY DEF TypeOK
    <2>2. SubSeq(wire, 1, n) \in Seq(Tokens) /\ rest \in Seq(Tokens)
        BY <2>1, Began, CutOff
    <2> QED
        BY <2>1, <2>2, Joined
<1> HIDE DEF all, rest
<1>7. /\ kept \in Seq(AnyToken) /\ Len(kept) <= MaxFrame /\ Len(kept) <= Len(all)
      /\ \A i \in 1..Len(kept) : kept[i] = all[i + d]
    BY <1>4, KeptFacts
<1>8. kept \in Seq(Tokens)
    BY <1>6, KeptFacts
<1> HIDE DEF kept
<1>9. d \in 0..Len(all) /\ Len(kept) = Len(all) - d
    BY <1>4, <1>7
<1>10. Suffix(all \o rest, kept \o rest, d)
    <2> DEFINE c == d
    <2>1. c \in 0..Len(all) /\ Len(kept) = Len(all) - c /\ \A i \in 1..Len(kept) : kept[i] = all[i + c]
        BY <1>7, <1>9
    <2> HIDE DEF c
    <2>2. Suffix(all \o rest, kept \o rest, c)
        BY <1>3, <1>4, <1>7, <2>1, CutBuffer
    <2> QED
        BY <2>2 DEF c
<1>11. Suffix(Ahead, Ahead', d)
    BY <1>2, <1>5, <1>10 DEF Ahead
<1>12. \A i \in 1..d : all[i] = Ahead[i] /\ i \in 1..Len(Ahead)
    <2>1. /\ Len(all \o rest) = Len(all) + Len(rest) /\ Len(all) \in Nat /\ Len(rest) \in Nat
          /\ \A i \in 1..Len(all) : (all \o rest)[i] = all[i]
        BY <1>3, <1>4, JoinedTokens, Zenon
    <2> QED
        BY <1>5, <1>9, <2>1
<1>13. \A i \in 1..d : Ahead[i].frame \in hurt' /\ Ahead[i].frame \in 0..sent
    BY <1>1, <1>2, <1>12
<1>14. hurt \subseteq hurt' /\ hurt' \subseteq 0..sent
    BY <1>1, <1>2, <1>12 DEF TypeOK
<1> QED
    BY <1>2, <1>6, <1>7, <1>8, <1>11, <1>13, <1>14

\* A chunk read by the Pi stays ahead of it.
LEMMA FeedPiEffect ==
    ASSUME TypeOK, NEW n \in 0..Len(wire), FeedPi(n)
    PROVE  Ahead' = Ahead /\ wire' \in Seq(Tokens) /\ buffer' \in Seq(Tokens)
<1>1. buffer' = buffer \o SubSeq(wire, 1, n) /\ wire' = From(wire, n + 1)
    BY DEF FeedPi
<1>2. buffer \in Seq(AnyToken) /\ wire \in Seq(AnyToken)
    BY AheadTyped
<1>3. Ahead' = Ahead
    BY <1>1, <1>2, ReadAhead DEF Ahead
<1>4. buffer \in Seq(Tokens) /\ wire \in Seq(Tokens)
    BY DEF TypeOK
<1>5. SubSeq(wire, 1, n) \in Seq(Tokens) /\ From(wire, n + 1) \in Seq(Tokens)
    BY <1>4, Began, CutOff
<1>6. buffer \o SubSeq(wire, 1, n) \in Seq(Tokens)
    BY <1>4, <1>5, Joined
<1> QED
    BY <1>1, <1>3, <1>5, <1>6

-----------------------------------------------------------------------------

LEMMA InitTyped == Init => TypeOK
<1> SUFFICES ASSUME Init
             PROVE  TypeOK
    OBVIOUS
<1>1. MaxFrames \in Nat /\ MaxFaults \in Nat /\ TelemetryBudget \in Nat /\ MaxFrame \in Nat /\ MaxFrame > 0
    BY StreamAssumption, Sizes DEF StreamAssumption
<1>2. wire \in Seq(Tokens) /\ buffer \in Seq(Tokens) /\ Len(buffer) = 0 /\ passed \in Seq(1..sent)
    BY DEF Init
<1>3. side \in {"fc", "pi"} /\ running \in BOOLEAN /\ plain \in BOOLEAN
    BY DEF Init
<1>4. sent \in 0..MaxFrames /\ faults \in 0..MaxFaults /\ telemetry \in 0..TelemetryBudget
    BY <1>1 DEF Init
<1>5. damaged \subseteq hurt \cap (1..sent) /\ hurt \subseteq 0..sent
    BY DEF Init
<1> QED
    BY <1>1, <1>2, <1>3, <1>4, <1>5 DEF TypeOK

\* Handing a frame on keeps the type of what was handed on.
LEMMA PassedTyped ==
    ASSUME TypeOK, NEW k \in 1..Len(buffer), buffer[k].frame > 0
    PROVE  Append(passed, buffer[k].frame) \in Seq(1..sent)
<1>1. buffer[k] \in TokensOf(sent) /\ sent \in Nat
    <2>1. Tokens = TokensOf(sent)
        BY DEF Tokens, TokensOf
    <2>2. buffer \in Seq(Tokens)
        BY DEF TypeOK
    <2> HIDE DEF TypeOK
    <2>3. buffer[k] \in Tokens
        BY <2>2
    <2> QED
        BY <2>1, <2>3, AheadTyped
<1>2. buffer[k].frame \in 1..sent
    BY <1>1 DEF TokensOf
<1>3. passed \in Seq(1..sent)
    BY DEF TypeOK
<1> QED
    BY <1>2, <1>3

\* Every step keeps the types and the limits of the buffers.
LEMMA StepTyped == TypeOK /\ [Next]_vars => TypeOK'
<1> SUFFICES ASSUME TypeOK, [Next]_vars
             PROVE  TypeOK'
    OBVIOUS
<1>1. /\ MaxFrames \in Nat /\ MaxFaults \in Nat /\ TelemetryBudget \in Nat
      /\ MaxFrame \in Nat /\ MaxFrame > 0 /\ MaxPayload \in Nat
    BY StreamAssumption, Sizes DEF StreamAssumption
<1>2. /\ sent \in 0..MaxFrames /\ sent \in Nat /\ faults \in 0..MaxFaults
      /\ telemetry \in 0..TelemetryBudget
      /\ wire \in Seq(Tokens) /\ buffer \in Seq(Tokens) /\ Tokens = TokensOf(sent)
      /\ buffer \in Seq(AnyToken) /\ wire \in Seq(AnyToken)
      /\ passed \in Seq(1..sent) /\ damaged \subseteq hurt \cap (1..sent) /\ hurt \subseteq 0..sent
    BY AheadTyped DEF TypeOK, Tokens, TokensOf
<1>3. ASSUME NEW msg \in Messages, Send(msg)
      PROVE  TypeOK'
    <2>1. PICK x : Sent(msg, x)
        BY <1>3, SendEffect
    <2>2. Tokens' = TokensOf(sent + 1)
        BY <2>1 DEF Sent, Tokens, TokensOf
    <2>3. TokensOf(sent) \subseteq TokensOf(sent + 1)
        BY <1>2, TokensWider
    <2>4. wire \in Seq(Tokens') /\ buffer \in Seq(Tokens') /\ x \in Seq(Tokens')
        BY <1>2, <2>1, <2>2, <2>3, SeqWider DEF Sent
    <2>5. wire' \in Seq(Tokens') /\ buffer' \in Seq(Tokens')
        BY <2>1, <2>4, Joined DEF Sent
    <2>6. 1..sent \subseteq 1..sent + 1 /\ 0..sent \subseteq 0..sent + 1
          /\ sent + 1 \in 1..sent + 1 /\ sent + 1 \in 0..sent + 1
        BY <1>2
    <2>7. passed' \in Seq(1..sent')
        BY <1>2, <2>1, <2>6, SeqWider DEF Sent
    <2>8. damaged' \subseteq hurt' \cap (1..sent') /\ hurt' \subseteq 0..sent'
        BY <1>2, <2>1, <2>6 DEF Sent
    <2>9. sent' \in 0..MaxFrames
        BY <1>1, <1>2, <1>3 DEF Send
    <2>10. faults' \in 0..MaxFaults
        BY <1>1, <1>2, <1>3 DEF Send
    <2>11. plain' \in BOOLEAN
        BY <1>3, Zenon DEF Send
    <2> QED
        BY <2>1, <2>5, <2>7, <2>8, <2>9, <2>10, <2>11 DEF TypeOK, Sent
<1>4. ASSUME NEW b \in Bytes, Insert(b)
      PROVE  TypeOK'
    <2>1. Noise(b) \in TokensOf(sent)
        <3>1. 0 \in 0..sent /\ 0 \in 0..MaxFrame
            BY <1>1, <1>2
        <3> QED
            BY <3>1 DEF Noise, TokensOf
    <2>2. wire' \in Seq(Tokens)
        BY <1>2, <1>4, <2>1 DEF Insert
    <2>3. sent \in 0..sent /\ hurt' \subseteq 0..sent /\ hurt \subseteq hurt'
        BY <1>2, <1>4 DEF Insert
    <2>4. faults' \in 0..MaxFaults
        BY <1>1, <1>2, <1>4 DEF Insert
    <2>5. UNCHANGED <<side, sent, plain, damaged, buffer, running, telemetry, passed>> /\ Tokens' = Tokens
        BY <1>4 DEF Insert, Tokens
    <2>6. damaged' \subseteq hurt' \cap (1..sent')
        BY <1>2, <2>3, <2>5
    <2> QED
        BY <2>2, <2>3, <2>4, <2>5, <2>6 DEF TypeOK
<1>5. ASSUME NEW n \in 0..Len(wire), RunFc(n)
      PROVE  TypeOK'
    <2>1. /\ hurt \subseteq hurt' /\ hurt' \subseteq 0..sent
          /\ wire' \in Seq(Tokens) /\ buffer' \in Seq(Tokens) /\ Len(buffer') <= MaxFrame
        BY <1>5, RunFcEffect
    <2>2. /\ UNCHANGED <<side, sent, faults, plain, damaged, passed>> /\ Tokens' = Tokens
          /\ side = "fc" /\ running' = TRUE /\ telemetry' = 0
        BY <1>5 DEF RunFc, Tokens
    <2>3. damaged' \subseteq hurt' \cap (1..sent')
        BY <1>2, <2>1, <2>2
    <2> QED
        BY <1>1, <2>1, <2>2, <2>3 DEF TypeOK
<1>6. ASSUME NEW n \in 0..Len(wire), FeedPi(n)
      PROVE  TypeOK'
    <2>1. wire' \in Seq(Tokens) /\ buffer' \in Seq(Tokens)
        BY <1>6, FeedPiEffect
    <2>2. /\ UNCHANGED <<side, sent, faults, plain, damaged, telemetry, passed, hurt>>
          /\ side = "pi" /\ running' = TRUE /\ Tokens' = Tokens
        BY <1>6 DEF FeedPi, Tokens
    <2> QED
        BY <2>1, <2>2 DEF TypeOK
<1>7. CASE FcTurn
    <2>1. PICK d \in Nat :
            /\ Suffix(buffer, buffer', d)
            /\ \/ passed' = passed
               \/ HasMagic(buffer, 1) /\ buffer[1].frame > 0 /\ passed' = Append(passed, buffer[1].frame)
        BY <1>7, FcTurnEffect
    <2>2. /\ UNCHANGED <<side, wire, sent, faults, plain, damaged, hurt>> /\ side = "fc" /\ running
          /\ Tokens' = Tokens
        BY <1>7 DEF FcTurn, line, Tokens
    <2>3. buffer' \in Seq(Tokens) /\ Len(buffer') <= Len(buffer)
        <3>1. buffer' \in Seq(Tokens)
            BY <1>2, <2>1, SuffixTyped
        <3>2. Len(buffer') <= Len(buffer)
            BY <1>2, <2>1 DEF Suffix
        <3> QED
            BY <3>1, <3>2
    <2>4. passed' \in Seq(1..sent)
        <3>1. HasMagic(buffer, 1) => 1 \in 1..Len(buffer)
            BY <1>2 DEF HasMagic
        <3> QED
            BY <1>2, <2>1, <3>1, PassedTyped
    <2>5. telemetry' \in 0..TelemetryBudget
        <3>1. CASE Len(buffer) < HeaderSize + CrcSize \/ telemetry >= TelemetryBudget
            BY <1>2, <1>7, <3>1 DEF FcTurn, Stop
        <3>2. CASE ~(Len(buffer) < HeaderSize + CrcSize \/ telemetry >= TelemetryBudget)
            <4>1. \/ telemetry' = telemetry
                  \/ telemetry' = telemetry + 1
                  \/ telemetry' = telemetry + 1 + 2 /\ telemetry + 3 <= TelemetryBudget
                <5>1. CASE ~HasMagic(buffer, 1)
                    BY <1>7, <3>2, <5>1 DEF FcTurn
                <5>2. CASE HasMagic(buffer, 1) /\ Length(buffer) > MaxPayload
                    BY <1>7, <3>2, <5>2 DEF FcTurn
                <5>3. CASE HasMagic(buffer, 1) /\ ~(Length(buffer) > MaxPayload) /\ ~Arrived(buffer)
                    BY <1>7, <3>2, <5>3 DEF FcTurn, Stop
                <5>4. CASE HasMagic(buffer, 1) /\ ~(Length(buffer) > MaxPayload) /\ Arrived(buffer)
                    <6>1. PICK more \in {0, 2} :
                            /\ more = 2 => telemetry + 3 <= TelemetryBudget
                            /\ telemetry' = telemetry + 1 + more
                        BY <1>7, <3>2, <5>4 DEF FcTurn
                    <6> QED
                        BY <1>2, <6>1
                <5> QED
                    BY <5>1, <5>2, <5>3, <5>4
            <4> QED
                BY <1>1, <1>2, <3>2, <4>1
        <3> QED
            BY <3>1, <3>2
    <2>6. running' \in BOOLEAN
        BY <1>7, <2>2, Zenon DEF FcTurn, Stop
    <2>7. Len(buffer') <= MaxFrame
        <3>1. Len(buffer) <= MaxFrame /\ Len(buffer) \in Nat /\ Len(buffer') \in Nat
            BY <1>2, <2>2, <2>3 DEF TypeOK
        <3> QED
            BY <1>1, <2>3, <3>1
    <2> QED
        BY <1>2, <2>2, <2>3, <2>4, <2>5, <2>6, <2>7 DEF TypeOK
<1>8. CASE PiTurn
    <2>1. PICK d \in Nat :
            /\ Suffix(buffer, buffer', d)
            /\ running' = running \/ (running' = FALSE /\ Len(buffer') < MaxFrame)
            /\ \/ passed' = passed
               \/ \E k \in 1..Len(buffer) - 2 :
                     buffer[k].frame > 0 /\ passed' = Append(passed, buffer[k].frame)
        BY <1>8, PiTurnEffect
    <2>2. /\ UNCHANGED <<side, wire, sent, faults, plain, damaged, hurt>> /\ side = "pi" /\ running = TRUE
          /\ Tokens' = Tokens
        BY <1>8 DEF PiTurn, line, Tokens, TypeOK
    <2>3. buffer' \in Seq(Tokens)
        BY <1>2, <2>1, SuffixTyped
    <2>4. passed' \in Seq(1..sent)
        <3>1. 1..Len(buffer) - 2 \subseteq 1..Len(buffer)
            BY <1>2
        <3> QED
            BY <1>2, <2>1, <3>1, PassedTyped
    <2>5. telemetry' = telemetry
        BY <1>8 DEF PiTurn, Stop
    <2> QED
        BY <1>2, <2>1, <2>2, <2>3, <2>4, <2>5 DEF TypeOK
<1>9. CASE UNCHANGED vars
    BY <1>9 DEF vars, line, TypeOK, Tokens
<1>10. 1..Len(wire) \subseteq 0..Len(wire) /\ 0 \in 0..Len(wire)
    BY <1>2
<1> QED
    BY <1>3, <1>4, <1>5, <1>6, <1>7, <1>8, <1>9, <1>10 DEF Next, Receive

-----------------------------------------------------------------------------

\* A byte that nobody sent comes behind the others.
LEMMA InsertEffect ==
    ASSUME TypeOK, NEW b \in Bytes, Insert(b)
    PROVE  /\ <<Noise(b)>> \in Seq(AnyToken) /\ Ahead' = Ahead \o <<Noise(b)>>
           /\ hurt' = hurt \union {sent}
           /\ UNCHANGED <<side, sent, plain, damaged, buffer, running, telemetry, passed>>
<1>1. buffer \in Seq(AnyToken) /\ wire \in Seq(AnyToken)
    BY AheadTyped
<1>2. Noise(b) \in AnyToken
    BY Sizes DEF Noise, AnyToken
<1>3. <<Noise(b)>> \in Seq(AnyToken)
    BY <1>2
<1>4. wire' = wire \o <<Noise(b)>>
    <2>1. Append(wire, Noise(b)) = wire \o <<Noise(b)>>
        BY <1>1, <1>2
    <2> QED
        BY <2>1 DEF Insert
<1>5. buffer \o (wire \o <<Noise(b)>>) = (buffer \o wire) \o <<Noise(b)>>
    <2> DEFINE x == <<Noise(b)>>
    <2>1. x \in Seq(AnyToken)
        BY <1>3
    <2> HIDE DEF x
    <2>2. buffer \o (wire \o x) = (buffer \o wire) \o x
        BY <1>1, <2>1, JoinedThrice, Zenon
    <2> QED
        BY <2>2 DEF x
<1>6. /\ hurt' = hurt \union {sent}
      /\ UNCHANGED <<side, sent, plain, damaged, buffer, running, telemetry, passed>>
    BY DEF Insert
<1> QED
    BY <1>3, <1>4, <1>5, <1>6 DEF Ahead

\* A receiver only takes bytes away, and hands on no frame but one of which it
\* takes all places in a row.
HandedOn(d) ==
    \E k \in 1..Len(Ahead) :
        LET n == Ahead[k + 2].byte
            f == Ahead[k].frame
        IN  /\ n \in Nat /\ f > 0 /\ RunAt(Ahead, k, f, n + 5)
            /\ d = k + n + 4 /\ passed' = Append(passed, f)

TakenAway ==
    /\ \E d : Suffix(Ahead, Ahead', d) /\ (passed' = passed \/ HandedOn(d))
    /\ UNCHANGED <<side, sent, damaged, plain>> /\ hurt \subseteq hurt'

\* What is a run in the buffer is one in what is ahead, and the reverse.
LEMMA RunAhead ==
    ASSUME TypeOK, NEW k \in 1..Len(buffer) - 2
    PROVE  /\ k \in 1..Len(Ahead) /\ buffer[k + 2].byte \in Nat
           /\ Ahead[k] = buffer[k] /\ Ahead[k + 2] = buffer[k + 2]
           /\ \A n \in Nat : \A f : k + n + 4 <= Len(buffer) =>
                (RunAt(buffer, k, f, n + 5) <=> RunAt(Ahead, k, f, n + 5))
           /\ \A n \in Nat : \A f : RunAt(buffer, k, f, n + 5) => k + n + 4 <= Len(buffer)
<1>1. buffer \in Seq(AnyToken) /\ wire \in Seq(AnyToken)
    BY AheadTyped
<1>2. /\ Len(buffer) \in Nat /\ Len(wire) \in Nat /\ Len(Ahead) = Len(buffer) + Len(wire)
      /\ \A i \in 1..Len(buffer) : Ahead[i] = buffer[i]
    BY <1>1, JoinedTokens DEF Ahead
<1>3. k \in 1..Len(Ahead) /\ k \in 1..Len(buffer) /\ k + 2 \in 1..Len(buffer)
    BY <1>2
<1>4. buffer[k + 2].byte \in Nat
    <2>1. buffer[k + 2] \in AnyToken
        BY <1>1, <1>3
    <2> QED
        BY <2>1 DEF AnyToken
<1>5. ASSUME NEW n \in Nat, NEW f, k + n + 4 <= Len(buffer)
      PROVE  RunAt(buffer, k, f, n + 5) <=> RunAt(Ahead, k, f, n + 5)
    <2>1. k + (n + 5) - 1 <= Len(buffer) /\ k + (n + 5) - 1 <= Len(Ahead)
        BY <1>2, <1>5
    <2>2. \A m \in 1..n + 5 : Ahead[k + m - 1] = buffer[k + m - 1]
        <3> TAKE m \in 1..n + 5
        <3>1. k + m - 1 \in 1..Len(buffer)
            BY <1>2, <1>5
        <3> QED
            BY <1>2, <3>1
    <2> QED
        BY <2>1, <2>2 DEF RunAt
<1>6. ASSUME NEW n \in Nat, NEW f, RunAt(buffer, k, f, n + 5)
      PROVE  k + n + 4 <= Len(buffer)
    BY <1>6 DEF RunAt
<1> QED
    BY <1>2, <1>3, <1>4, <1>5, <1>6

LEMMA StepAhead ==
    ASSUME TypeOK, [Next]_vars
    PROVE  \/ \E msg \in Messages : \E x : Sent(msg, x)
           \/ \E b \in Bytes : Insert(b)
           \/ TakenAway
<1>1. Ahead \in Seq(AnyToken) /\ buffer \in Seq(AnyToken) /\ wire \in Seq(AnyToken)
    BY AheadTyped
<1>2. Suffix(Ahead, Ahead, 0)
    BY <1>1, TakeNothing
<1>3. ASSUME NEW msg \in Messages, Send(msg)
      PROVE  \E x : Sent(msg, x)
    BY <1>3, SendEffect
<1>4. ASSUME NEW n \in 0..Len(wire), RunFc(n)
      PROVE  TakenAway
    <2>1. \E d : Suffix(Ahead, Ahead', d) /\ hurt \subseteq hurt'
        BY <1>4, RunFcEffect
    <2>2. UNCHANGED <<side, sent, damaged, plain, passed>>
        BY <1>4 DEF RunFc
    <2> QED
        BY <2>1, <2>2 DEF TakenAway
<1>5. ASSUME NEW n \in 0..Len(wire), FeedPi(n)
      PROVE  TakenAway
    <2>1. Ahead' = Ahead
        BY <1>5, FeedPiEffect
    <2>2. UNCHANGED <<side, sent, damaged, plain, hurt, passed>>
        BY <1>5 DEF FeedPi
    <2> QED
        BY <1>2, <2>1, <2>2 DEF TakenAway
<1>6. CASE FcTurn
    <2>1. PICK d \in Nat :
            /\ Suffix(buffer, buffer', d)
            /\ \/ passed' = passed
               \/ /\ d = buffer[3].byte + 5
                  /\ buffer[1].frame > 0 /\ RunAt(buffer, 1, buffer[1].frame, buffer[3].byte + 5)
                  /\ HasMagic(buffer, 1) /\ buffer[3].byte \in 0..MaxPayload
                  /\ passed' = Append(passed, buffer[1].frame)
        BY <1>6, FcTurnEffect
    <2>2. UNCHANGED <<side, wire, sent, damaged, plain, hurt>>
        BY <1>6 DEF FcTurn, line
    <2>3. Suffix(Ahead, Ahead', d)
        BY <2>1, <2>2, SuffixAhead
    <2>4. passed' = passed \/ HandedOn(d)
        <3>1. CASE passed' # passed
            <4>1. 1 \in 1..Len(buffer) - 2 /\ 1 + 2 = 3
                BY <1>1, <2>1, <3>1 DEF Suffix
            <4>2. /\ 1 \in 1..Len(Ahead) /\ buffer[3].byte \in Nat
                  /\ Ahead[1] = buffer[1] /\ Ahead[3] = buffer[3]
                  /\ \A n \in Nat : \A f : 1 + n + 4 <= Len(buffer) =>
                        (RunAt(buffer, 1, f, n + 5) <=> RunAt(Ahead, 1, f, n + 5))
                <5> DEFINE h == 1
                <5>1. h \in 1..Len(buffer) - 2 /\ h + 2 = 3
                    BY <4>1
                <5> HIDE DEF h
                <5>2. /\ h \in 1..Len(Ahead) /\ buffer[h + 2].byte \in Nat
                      /\ Ahead[h] = buffer[h] /\ Ahead[h + 2] = buffer[h + 2]
                      /\ \A n \in Nat : \A f : h + n + 4 <= Len(buffer) =>
                            (RunAt(buffer, h, f, n + 5) <=> RunAt(Ahead, h, f, n + 5))
                    BY <5>1, RunAhead
                <5> QED
                    BY <5>1, <5>2 DEF h
            <4>3. 1 + buffer[3].byte + 4 <= Len(buffer) /\ d = 1 + buffer[3].byte + 4
                <5>1. /\ d = buffer[3].byte + 5 /\ d <= Len(buffer)
                      /\ buffer[3].byte \in Nat /\ Len(buffer) \in Nat
                    BY <1>1, <2>1, <3>1, <4>2 DEF Suffix
                <5> QED
                    BY <5>1
            <4> QED
                BY <2>1, <3>1, <4>1, <4>2, <4>3 DEF HandedOn
        <3> QED
            BY <3>1
    <2> QED
        BY <2>2, <2>3, <2>4 DEF TakenAway
<1>7. CASE PiTurn
    <2>1. PICK d \in Nat :
            /\ Suffix(buffer, buffer', d)
            /\ \/ passed' = passed
               \/ \E k \in 1..Len(buffer) - 2 :
                     /\ d = k + buffer[k + 2].byte + 4
                     /\ buffer[k].frame > 0 /\ RunAt(buffer, k, buffer[k].frame, buffer[k + 2].byte + 5)
                     /\ passed' = Append(passed, buffer[k].frame)
        BY <1>7, PiTurnEffect
    <2>2. UNCHANGED <<side, wire, sent, damaged, plain, hurt>>
        BY <1>7 DEF PiTurn, line
    <2>3. Suffix(Ahead, Ahead', d)
        BY <2>1, <2>2, SuffixAhead
    <2>4. ASSUME NEW k \in 1..Len(buffer) - 2, d = k + buffer[k + 2].byte + 4,
                 buffer[k].frame > 0, RunAt(buffer, k, buffer[k].frame, buffer[k + 2].byte + 5),
                 passed' = Append(passed, buffer[k].frame)
          PROVE  HandedOn(d)
        <3>1. /\ k \in 1..Len(Ahead) /\ buffer[k + 2].byte \in Nat
              /\ Ahead[k] = buffer[k] /\ Ahead[k + 2] = buffer[k + 2]
              /\ \A n \in Nat : \A f : k + n + 4 <= Len(buffer) =>
                    (RunAt(buffer, k, f, n + 5) <=> RunAt(Ahead, k, f, n + 5))
              /\ \A n \in Nat : \A f : RunAt(buffer, k, f, n + 5) => k + n + 4 <= Len(buffer)
            BY RunAhead
        <3> QED
            BY <2>4, <3>1 DEF HandedOn
    <2>5. passed' = passed \/ HandedOn(d)
        BY <2>1, <2>4
    <2> QED
        BY <2>2, <2>3, <2>5 DEF TakenAway
<1>8. CASE UNCHANGED vars
    <2>1. Ahead' = Ahead /\ UNCHANGED <<side, sent, damaged, plain, hurt, passed>>
        BY <1>8 DEF vars, line, Ahead
    <2> QED
        BY <1>2, <2>1 DEF TakenAway
<1>9. 1..Len(wire) \subseteq 0..Len(wire) /\ 0 \in 0..Len(wire)
    BY <1>1
<1> QED
    BY <1>3, <1>4, <1>5, <1>6, <1>7, <1>8, <1>9 DEF Next, Receive

\* The bytes of a whole frame, by themselves.
LEMMA EncodedWhole ==
    ASSUME NEW msg \in Messages, NEW f \in Nat, NEW bad, NEW clean, clean => ~HoldsMagic(msg)
    PROVE  /\ Ordered(Encoded(msg, f)) /\ Whole(Encoded(msg, f), bad)
           /\ Inside(Encoded(msg, f), bad, clean)
<1> DEFINE e == Encoded(msg, f)
<1>1. Len(e) \in Nat /\ \A k \in 1..Len(e) : e[k].frame = f /\ e[k].place = k
    BY EncodedFacts
<1>2. \A i \in 1..Len(e) : Sits(e, i, msg, e[i].frame)
    <2> TAKE i \in 1..Len(e)
    <2>1. e[i].frame = f /\ e[i].place = i
        BY <1>1
    <2> HIDE DEF e
    <2>2. i + Len(e) - i <= Len(e) /\ \A j \in i..Len(e) : i + j - i = j
        BY <1>1
    <2> QED
        BY <2>1, <2>2 DEF Sits, e
<1> HIDE DEF e
<1>3. Ordered(e)
    BY <1>1 DEF Ordered
<1>4. Whole(e, bad)
    BY <1>2 DEF Whole
<1>5. Inside(e, bad, clean)
    <2>1. ASSUME NEW i \in 2..Len(e)
          PROVE  /\ e[i].frame = f /\ e[i].place = i
                 /\ e[i - 1].frame = f /\ e[i - 1].place = i - 1
        BY <1>1
    <2>2. ASSUME NEW i \in 2..Len(e), clean, e[i - 1].byte = A, e[i].byte = L
          PROVE  i = 2
        <3>1. /\ Len(Content(msg)) = Len(e) /\ Len(e) \in Nat
              /\ \A k \in 1..Len(e) : e[k].byte = Content(msg)[k]
            BY ContentFacts, EncodedFacts DEF e
        <3>2. Content(msg)[i - 1] = A /\ Content(msg)[i] = L /\ (i - 1) + 1 = i
            BY <2>2, <3>1
        <3>3. i - 1 \notin 2..Len(Content(msg)) - 1
            BY <2>2, <3>2 DEF HoldsMagic
        <3> QED
            BY <3>1, <3>3
    <2> QED
        BY <2>1, <2>2 DEF Inside
<1> QED
    BY <1>3, <1>4, <1>5 DEF e

\* The line keeps its invariant when a frame is sent,
LEMMA SendLine ==
    ASSUME TypeOK, LineInv, NEW msg \in Messages, NEW x, Sent(msg, x)
    PROVE  LineInv'
<1>1. /\ sent \in Nat /\ Ahead \in Seq(AnyToken) /\ x \in Seq(AnyToken)
      /\ \A i \in 1..Len(Ahead) : Ahead[i].frame \in 0..sent
      /\ damaged \subseteq 1..sent /\ hurt \subseteq Nat
    BY AheadTyped DEF TypeOK, Sent
<1>2. /\ Ahead' = Ahead \o x /\ sent' = sent + 1
      /\ (plain' => plain) /\ (plain' => ~HoldsMagic(msg))
    BY DEF Sent
<1>3. /\ Ordered(Ahead) /\ Whole(Ahead, damaged) /\ Inside(Ahead, damaged, plain)
      /\ Broken(Ahead, damaged) /\ Near(Ahead, damaged, hurt, sent)
    BY DEF LineInv
<1>4. \A f \in damaged : f # sent + 1 /\ f # 0
    BY <1>1
<1>5. \A i \in 1..Len(Ahead) : Ahead[i].frame <= sent
    BY <1>1
<1>6. CASE x = Encoded(msg, sent + 1) /\ UNCHANGED <<damaged, hurt>>
    <2>1. /\ Len(msg.payload) \in Nat /\ Len(x) = Len(msg.payload) + 5
          /\ \A k \in 1..Len(x) : x[k].frame = sent + 1 /\ x[k].place = k
        BY <1>1, <1>6, EncodedFacts
    <2>2. Ordered(x) /\ Whole(x, damaged) /\ Inside(x, damaged, plain')
        BY <1>1, <1>2, <1>6, EncodedWhole
    <2>3. Ordered(Ahead \o x)
        <3>1. \A i \in 1..Len(x) : x[i].frame \in {0, sent + 1}
            BY <2>1
        <3> QED
            BY <1>1, <1>3, <1>5, <2>2, <3>1, JoinedOrdered
    <2>4. Whole(Ahead \o x, damaged)
        BY <1>1, <1>2, <1>3, <2>2, JoinedWhole
    <2>7. Inside(Ahead \o x, damaged, plain')
        BY <1>1, <1>2, <1>3, <2>1, <2>2, JoinedInside
    <2>5. Broken(Ahead \o x, damaged)
        <3>1. ASSUME NEW f \in damaged
              PROVE  \E k \in 1..MaxFrame : Missing(Ahead \o x, f, k)
            <4>1. PICK k \in 1..MaxFrame : Missing(Ahead, f, k)
                BY <1>3 DEF Broken
            <4>2. Missing(x, f, k)
                BY <1>4, <2>1 DEF Missing
            <4>3. Missing(Ahead \o x, f, k)
                BY <1>1, <4>1, <4>2, JoinedMissing
            <4> QED
                BY <4>3
        <3> QED
            BY <3>1 DEF Broken
    <2>6. Near(Ahead \o x, damaged, hurt, sent + 1)
        <3>1. /\ \A i \in 1..Len(x) : x[i].frame = sent + 1 /\ (x[i].place = 1 => i = 1)
              /\ sent + 1 \notin damaged /\ Len(x) >= 5
            BY <1>4, <2>1
        <3> QED
            BY <1>1, <1>3, <3>1, JoinedNearSound
    <2> QED
        BY <1>2, <1>6, <2>3, <2>4, <2>5, <2>6, <2>7 DEF LineInv
<1>7. CASE /\ damaged' = damaged \union {sent + 1} /\ hurt' = hurt \union {sent + 1}
           /\ \A i \in 1..Len(x) : x[i].frame \in {0, sent + 1}
           /\ Ordered(x)
           /\ \E k \in 1..MaxFrame : Missing(x, sent + 1, k)
    <2> DEFINE worse == damaged \union {sent + 1}
               more == hurt \union {sent + 1}
    <2>1. /\ damaged \subseteq worse /\ hurt \subseteq more /\ sent + 1 \in more
          /\ sent + 1 \in worse /\ sent + 1 \in Nat
          /\ \A f \in worse : f \in damaged \/ f = sent + 1
        BY <1>1
    <2> HIDE DEF worse, more
    <2>2. Ordered(Ahead \o x)
        BY <1>1, <1>3, <1>5, <1>7, JoinedOrdered
    <2>3. Whole(Ahead \o x, worse)
        <3>1. Whole(x, worse)
            BY <1>7, <2>1 DEF Whole
        <3> QED
            BY <1>1, <1>2, <1>3, <2>1, <3>1, JoinedWhole
    <2>7. Inside(Ahead \o x, worse, plain')
        <3>1. \A i \in 1..Len(x) : Spoilt(x[i], worse)
            BY <1>7, <2>1 DEF Spoilt
        <3>2. Inside(x, worse, plain') /\ (Len(x) > 0 => Spoilt(x[1], worse))
            BY <1>1, <3>1 DEF Inside
        <3> QED
            BY <1>1, <1>2, <1>3, <2>1, <3>2, JoinedInside
    <2>4. Broken(Ahead \o x, worse)
        <3>1. ASSUME NEW f \in damaged
              PROVE  \E k \in 1..MaxFrame : Missing(Ahead \o x, f, k)
            <4>1. PICK k \in 1..MaxFrame : Missing(Ahead, f, k)
                BY <1>3 DEF Broken
            <4>2. Missing(x, f, k)
                BY <1>4, <1>7 DEF Missing
            <4>3. Missing(Ahead \o x, f, k)
                BY <1>1, <4>1, <4>2, JoinedMissing
            <4> QED
                BY <4>3
        <3>2. \E k \in 1..MaxFrame : Missing(Ahead \o x, sent + 1, k)
            <4>1. PICK k \in 1..MaxFrame : Missing(x, sent + 1, k)
                BY <1>7
            <4>2. Missing(Ahead, sent + 1, k)
                <5>1. \A i \in 1..Len(Ahead) : Ahead[i].frame # sent + 1
                    BY <1>1
                <5> QED
                    BY <5>1 DEF Missing
            <4>3. Missing(Ahead \o x, sent + 1, k)
                BY <1>1, <4>1, <4>2, JoinedMissing
            <4> QED
                BY <4>3
        <3> QED
            BY <2>1, <3>1, <3>2 DEF Broken
    <2>5. Near(Ahead \o x, worse, more, sent + 1)
        <3>1. \A i \in 1..Len(Ahead) : Ahead[i].frame \in worse => Ahead[i].frame \in damaged
            BY <1>1, <2>1
        <3>2. \A i \in 1..Len(x) : Spoilt(x[i], worse)
            BY <1>7, <2>1 DEF Spoilt
        <3> QED
            BY <1>1, <1>3, <2>1, <3>1, <3>2, JoinedNearSpoilt
    <2>6. damaged' = worse /\ hurt' = more
        BY <1>7 DEF worse, more
    <2> QED
        BY <1>2, <2>2, <2>3, <2>4, <2>5, <2>6, <2>7 DEF LineInv
<1> QED
    BY <1>6, <1>7 DEF Sent

\* when a byte is inserted,
LEMMA InsertLine ==
    ASSUME TypeOK, LineInv, NEW b \in Bytes, Insert(b)
    PROVE  LineInv'
<1> DEFINE x == <<Noise(b)>>
<1>1. /\ sent \in Nat /\ Ahead \in Seq(AnyToken)
      /\ \A i \in 1..Len(Ahead) : Ahead[i].frame \in 0..sent
      /\ damaged \subseteq 1..sent
    BY AheadTyped DEF TypeOK
<1>2. /\ x \in Seq(AnyToken) /\ Ahead' = Ahead \o x /\ hurt' = hurt \union {sent}
      /\ sent' = sent /\ plain' = plain /\ damaged' = damaged
    BY InsertEffect
<1>3. /\ Ordered(Ahead) /\ Whole(Ahead, damaged) /\ Inside(Ahead, damaged, plain)
      /\ Broken(Ahead, damaged) /\ Near(Ahead, damaged, hurt, sent)
    BY DEF LineInv
<1>4. \A i \in 1..Len(x) : x[i].frame = 0
    BY DEF Noise
<1> HIDE DEF x
<1>5. Ordered(Ahead \o x)
    <2>1. /\ \A i \in 1..Len(x) : x[i].frame \in {0, sent + 1}
          /\ \A i \in 1..Len(Ahead) : Ahead[i].frame <= sent
          /\ Ordered(x)
        BY <1>1, <1>4 DEF Ordered
    <2> QED
        BY <1>1, <1>2, <1>3, <2>1, JoinedOrdered
<1>6. Whole(Ahead \o x, damaged)
    <2>1. Whole(x, damaged)
        BY <1>4 DEF Whole
    <2> QED
        BY <1>1, <1>2, <1>3, <2>1, JoinedWhole
<1>9. Inside(Ahead \o x, damaged, plain)
    <2>1. \A i \in 1..Len(x) : Spoilt(x[i], damaged)
        BY <1>4 DEF Spoilt
    <2>2. Inside(x, damaged, plain) /\ (Len(x) > 0 => Spoilt(x[1], damaged))
        BY <1>2, <2>1 DEF Inside
    <2> QED
        BY <1>1, <1>2, <1>3, <2>2, JoinedInside
<1>7. Broken(Ahead \o x, damaged)
    <2>1. ASSUME NEW f \in damaged
          PROVE  \E k \in 1..MaxFrame : Missing(Ahead \o x, f, k)
        <3>1. PICK k \in 1..MaxFrame : Missing(Ahead, f, k)
            BY <1>3 DEF Broken
        <3>2. f # 0
            BY <1>1
        <3>3. Missing(x, f, k)
            BY <1>4, <3>2 DEF Missing
        <3>4. Missing(Ahead \o x, f, k)
            BY <1>1, <1>2, <3>1, <3>3, JoinedMissing
        <3> QED
            BY <3>4
    <2> QED
        BY <2>1 DEF Broken
<1>8. Near(Ahead \o x, damaged, hurt \union {sent}, sent)
    <2>1. \A i \in 1..Len(x) : Spoilt(x[i], damaged)
        BY <1>4 DEF Spoilt
    <2>2. hurt \subseteq hurt \union {sent} /\ sent \in hurt \union {sent}
        OBVIOUS
    <2> QED
        BY <1>1, <1>2, <1>3, <2>1, <2>2, JoinedNearSpoilt
<1> QED
    BY <1>2, <1>5, <1>6, <1>7, <1>8, <1>9 DEF LineInv

\* and when a receiver takes bytes away.
LEMMA TakeLine ==
    ASSUME TypeOK, LineInv, TakenAway
    PROVE  LineInv'
<1>1. PICK d : Suffix(Ahead, Ahead', d)
    BY DEF TakenAway
<1>2. sent \in Nat /\ sent' = sent /\ damaged' = damaged /\ plain' = plain /\ hurt \subseteq hurt'
    BY AheadTyped DEF TakenAway
<1> DEFINE s == Ahead
           t == Ahead'
           more == hurt'
<1>3. Suffix(s, t, d) /\ hurt \subseteq more
    BY <1>1, <1>2
<1>4. /\ Ordered(s) /\ Whole(s, damaged) /\ Inside(s, damaged, plain)
      /\ Broken(s, damaged) /\ Near(s, damaged, hurt, sent)
    BY DEF LineInv
<1> HIDE DEF s, t, more
<1>5. Ordered(t)
    BY <1>3, <1>4, SuffixOrdered
<1>6. Whole(t, damaged)
    BY <1>3, <1>4, SuffixWhole
<1>9. Inside(t, damaged, plain)
    BY <1>3, <1>4, SuffixInside
<1>7. Broken(t, damaged)
    BY <1>3, <1>4, SuffixBroken
<1>8. Near(t, damaged, more, sent)
    BY <1>2, <1>3, <1>4, SuffixNear
<1> QED
    BY <1>2, <1>5, <1>6, <1>7, <1>8, <1>9 DEF LineInv, t, more

LEMMA StepLine == TypeOK /\ LineInv /\ [Next]_vars => LineInv'
    BY StepAhead, SendLine, InsertLine, TakeLine

LEMMA InitLine == Init => LineInv
<1> SUFFICES ASSUME Init
             PROVE  LineInv
    OBVIOUS
<1>1. Len(Ahead) = 0 /\ damaged = {}
    BY DEF Init, Ahead
<1> QED
    BY <1>1 DEF LineInv, Ordered, Whole, Inside, Broken, Near

-----------------------------------------------------------------------------

\* What was handed on stays right when a frame is sent,
LEMMA SendPassed ==
    ASSUME TypeOK, PassedInv, NEW msg \in Messages, NEW x, Sent(msg, x)
    PROVE  PassedInv'
<1>1. /\ sent \in Nat /\ Ahead \in Seq(AnyToken) /\ x \in Seq(AnyToken)
      /\ damaged \subseteq damaged' /\ damaged' \subseteq damaged \union {sent + 1}
      /\ Ahead' = Ahead \o x /\ passed' = passed
    BY AheadTyped DEF Sent
<1>2. \A i \in 1..Len(x) : x[i].frame \in {0, sent + 1}
    <2>1. CASE x = Encoded(msg, sent + 1)
        <3>1. Len(x) = Len(msg.payload) + 5 /\ \A k \in 1..Len(msg.payload) + 5 : x[k].frame = sent + 1
            <4>1. sent + 1 \in Nat
                BY <1>1
            <4>2. /\ Len(Encoded(msg, sent + 1)) = Len(msg.payload) + 5
                  /\ \A k \in 1..Len(msg.payload) + 5 : Encoded(msg, sent + 1)[k].frame = sent + 1
                BY <4>1, EncodedFacts
            <4> QED
                BY <2>1, <4>2
        <3> QED
            BY <3>1
    <2> QED
        BY <2>1 DEF Sent
<1>3. \A k \in 1..Len(passed) : passed[k] \in 1..sent
    BY DEF TypeOK
<1>4. \A i \in 1..Len(Ahead \o x) :
        \/ i \in 1..Len(Ahead) /\ (Ahead \o x)[i] = Ahead[i]
        \/ i - Len(Ahead) \in 1..Len(x) /\ (Ahead \o x)[i] = x[i - Len(Ahead)]
    BY <1>1, JoinedAt
<1>5. ASSUME NEW k \in 1..Len(passed), NEW i \in 1..Len(Ahead'),
             Ahead'[i].frame > 0, Ahead'[i].place = 1
      PROVE  passed[k] < Ahead'[i].frame
    <2>1. CASE i \in 1..Len(Ahead) /\ Ahead'[i] = Ahead[i]
        BY <1>5, <2>1 DEF PassedInv
    <2>2. CASE i - Len(Ahead) \in 1..Len(x) /\ Ahead'[i] = x[i - Len(Ahead)]
        <3>1. Ahead'[i].frame = sent + 1
            BY <1>2, <1>5, <2>2
        <3>2. passed[k] \in 1..sent
            BY <1>3
        <3> QED
            BY <1>1, <3>1, <3>2
    <2> QED
        BY <1>1, <1>4, <2>1, <2>2
<1>6. \A k \in 1..Len(passed) : passed[k] \notin damaged'
    <2> TAKE k \in 1..Len(passed)
    <2>1. passed[k] # sent + 1 /\ passed[k] \notin damaged
        BY <1>1, <1>3 DEF PassedInv
    <2> QED
        BY <1>1, <2>1
<1> QED
    BY <1>1, <1>5, <1>6 DEF PassedInv

\* when a byte is inserted,
LEMMA InsertPassed ==
    ASSUME TypeOK, PassedInv, NEW b \in Bytes, Insert(b)
    PROVE  PassedInv'
<1> DEFINE x == <<Noise(b)>>
<1>1. /\ Ahead \in Seq(AnyToken) /\ x \in Seq(AnyToken)
      /\ Ahead' = Ahead \o x /\ passed' = passed /\ damaged' = damaged
    BY AheadTyped, InsertEffect
<1>2. \A i \in 1..Len(x) : x[i].frame = 0
    BY DEF Noise
<1> HIDE DEF x
<1>3. \A i \in 1..Len(Ahead \o x) :
        \/ i \in 1..Len(Ahead) /\ (Ahead \o x)[i] = Ahead[i]
        \/ i - Len(Ahead) \in 1..Len(x) /\ (Ahead \o x)[i] = x[i - Len(Ahead)]
    BY <1>1, JoinedAt
<1>4. ASSUME NEW i \in 1..Len(Ahead'), Ahead'[i].frame > 0
      PROVE  i \in 1..Len(Ahead) /\ Ahead'[i] = Ahead[i]
    BY <1>1, <1>2, <1>3, <1>4
<1> QED
    BY <1>1, <1>4 DEF PassedInv

\* and when a receiver takes bytes away.
LEMMA TakePassed ==
    ASSUME TypeOK, LineInv, PassedInv, TakenAway
    PROVE  PassedInv'
<1>1. PICK d : Suffix(Ahead, Ahead', d) /\ (passed' = passed \/ HandedOn(d))
    BY DEF TakenAway
<1>2. /\ d \in Nat /\ damaged' = damaged
      /\ \A i \in 1..Len(Ahead') : i + d \in 1..Len(Ahead) /\ Ahead'[i] = Ahead[i + d]
    BY <1>1 DEF Suffix, TakenAway
<1>3. CASE passed' = passed
    BY <1>2, <1>3 DEF PassedInv
<1>4. CASE HandedOn(d)
    <2>1. PICK k \in 1..Len(Ahead) :
            /\ Ahead[k + 2].byte \in Nat /\ Ahead[k].frame > 0
            /\ RunAt(Ahead, k, Ahead[k].frame, Ahead[k + 2].byte + 5)
            /\ d = k + Ahead[k + 2].byte + 4 /\ passed' = Append(passed, Ahead[k].frame)
        BY <1>4 DEF HandedOn
    <2> DEFINE f == Ahead[k].frame
               n == Ahead[k + 2].byte
    <2>2. /\ n \in Nat /\ f > 0 /\ RunAt(Ahead, k, f, n + 5)
          /\ d = k + n + 4 /\ passed' = Append(passed, f)
        BY <2>1
    <2>3. Ahead \in Seq(AnyToken)
        BY AheadTyped
    <2>4. f \notin damaged
        BY <2>1, <2>3, RunIsSound DEF LineInv
    <2>5. f \in 1..sent /\ sent \in Nat /\ passed \in Seq(1..sent)
        <3>1. sent \in Nat /\ Ahead[k].frame \in 0..sent
            BY AheadTyped
        <3>2. passed \in Seq(1..sent)
            BY DEF TypeOK
        <3> QED
            BY <2>2, <3>1, <3>2
    <2> HIDE DEF f, n
    <2>6. Ahead[k].frame = f /\ Ahead[k].place = 1
        <3>1. 1 \in 1..n + 5 /\ k + 1 - 1 = k
            BY <2>2
        <3> QED
            BY <2>2, <3>1 DEF RunAt
    <2>7. d \in 1..Len(Ahead) /\ Ahead[d].frame = f /\ Ahead[d].place = n + 5
        <3>1. n + 5 \in 1..n + 5 /\ k + (n + 5) - 1 = d
            BY <2>2
        <3>2. d <= Len(Ahead) /\ d >= 1
            BY <2>2, <3>1 DEF RunAt
        <3> QED
            BY <1>2, <2>2, <3>1, <3>2 DEF RunAt
    <2>8. \A j \in 1..Len(passed) : passed[j] < f
        <3>1. \A j \in 1..Len(passed), i \in 1..Len(Ahead) :
                Ahead[i].frame > 0 /\ Ahead[i].place = 1 => passed[j] < Ahead[i].frame
            BY DEF PassedInv
        <3>2. Ahead[k].frame > 0
            BY <2>2, <2>6
        <3> QED
            BY <2>6, <3>1, <3>2
    <2>9. /\ Len(passed') = Len(passed) + 1 /\ Len(passed) \in Nat
          /\ passed'[Len(passed) + 1] = f
          /\ \A j \in 1..Len(passed) : passed'[j] = passed[j] /\ passed[j] \in 1..sent
        BY <2>2, <2>5
    <2>10. \A j \in 1..Len(passed') : j \in 1..Len(passed) \/ j = Len(passed) + 1
        BY <2>9
    <2>11. \A j \in 1..Len(passed') : passed'[j] <= f /\ passed'[j] \notin damaged /\ passed'[j] \in 1..sent
        <3> TAKE j \in 1..Len(passed')
        <3>1. CASE j \in 1..Len(passed)
            <4>1. passed'[j] = passed[j] /\ passed[j] \in 1..sent /\ passed[j] < f
                BY <2>8, <2>9, <3>1
            <4> QED
                BY <2>5, <3>1, <4>1 DEF PassedInv
        <3>2. CASE j = Len(passed) + 1
            BY <2>4, <2>5, <2>9, <3>2
        <3> QED
            BY <2>10, <3>1, <3>2
    <2>12. ASSUME NEW i \in 1..Len(passed'), NEW j \in 1..Len(passed'), i < j
           PROVE  passed'[i] < passed'[j]
        <3>1. i \in 1..Len(passed)
            BY <2>9, <2>12
        <3>2. CASE j \in 1..Len(passed)
            BY <2>9, <2>12, <3>1, <3>2 DEF PassedInv
        <3>3. CASE j = Len(passed) + 1
            BY <2>8, <2>9, <3>1, <3>3
        <3> QED
            BY <2>10, <3>2, <3>3
    <2>13. ASSUME NEW j \in 1..Len(passed'), NEW i \in 1..Len(Ahead'),
                  Ahead'[i].frame > 0, Ahead'[i].place = 1
           PROVE  passed'[j] < Ahead'[i].frame
        <3>1. i + d \in 1..Len(Ahead) /\ Ahead'[i] = Ahead[i + d] /\ d < i + d
            BY <1>2
        <3>2. \/ Ahead[d].frame < Ahead[i + d].frame
              \/ Ahead[d].frame = Ahead[i + d].frame /\ Ahead[d].place < Ahead[i + d].place
            <4>1. Ordered(Ahead)
                BY DEF LineInv
            <4>2. Ahead[d].frame > 0 /\ Ahead[i + d].frame > 0 /\ d \in 1..Len(Ahead)
                BY <2>2, <2>7, <2>13, <3>1
            <4> QED
                BY <3>1, <4>1, <4>2 DEF Ordered
        <3>3. f < Ahead'[i].frame
            BY <2>2, <2>7, <2>13, <3>1, <3>2
        <3>4. Ahead'[i].frame \in Nat
            <4>1. Ahead[i + d] \in AnyToken
                BY <2>3, <3>1
            <4> QED
                BY <3>1, <4>1 DEF AnyToken
        <3>5. passed'[j] <= f /\ passed'[j] \in 1..sent
            BY <2>11
        <3> QED
            BY <2>5, <3>3, <3>4, <3>5
    <2> QED
        BY <1>2, <2>11, <2>12, <2>13 DEF PassedInv
<1> QED
    BY <1>1, <1>3, <1>4

LEMMA StepPassed == TypeOK /\ LineInv /\ PassedInv /\ [Next]_vars => PassedInv'
    BY StepAhead, SendPassed, InsertPassed, TakePassed

LEMMA InitPassed == Init => PassedInv
    BY DEF Init, PassedInv

-----------------------------------------------------------------------------

\* A frame is lost when its first byte is no longer ahead.
LEMMA LostIs ==
    ASSUME NEW f
    PROVE  f \in Lost <=>
             /\ f \in 1..sent /\ f \notin damaged
             /\ \A i \in 1..Len(Ahead) : ~(Ahead[i].frame = f /\ Ahead[i].place = 1)
             /\ \A k \in 1..Len(passed) : passed[k] # f
    BY DEF Lost, Held, Ahead

\* Sending a frame loses none,
LEMMA SendLoss ==
    ASSUME TypeOK, LossInv, NEW msg \in Messages, NEW x, Sent(msg, x)
    PROVE  LossInv'
<1>1. /\ sent \in Nat /\ Ahead \in Seq(AnyToken) /\ x \in Seq(AnyToken)
      /\ Ahead' = Ahead \o x /\ passed' = passed /\ sent' = sent + 1 /\ side' = side
      /\ damaged \subseteq damaged' /\ hurt \subseteq hurt' /\ (plain' => plain)
    BY AheadTyped DEF Sent
<1>2. /\ Len(Ahead) \in Nat /\ Len(x) \in Nat /\ Len(Ahead \o x) = Len(Ahead) + Len(x)
      /\ \A i \in 1..Len(Ahead) : (Ahead \o x)[i] = Ahead[i]
      /\ \A i \in 1..Len(x) : (Ahead \o x)[i + Len(Ahead)] = x[i]
    BY <1>1, JoinedTokens, Zenon
<1>3. ASSUME NEW f \in Lost'
      PROVE  f \in Lost
    <2>1. /\ f \in 1..sent + 1 /\ f \notin damaged'
          /\ \A i \in 1..Len(Ahead \o x) : ~((Ahead \o x)[i].frame = f /\ (Ahead \o x)[i].place = 1)
          /\ \A k \in 1..Len(passed) : passed[k] # f
        BY <1>1, <1>3 DEF Lost, Held, Ahead
    <2>2. f # sent + 1
        <3>1. CASE x = Encoded(msg, sent + 1)
            <4>1. sent + 1 \in Nat
                BY <1>1
            <4>2. /\ Len(msg.payload) \in Nat /\ Len(x) = Len(msg.payload) + 5
                  /\ \A k \in 1..Len(msg.payload) + 5 : x[k].frame = sent + 1 /\ x[k].place = k
                BY <3>1, <4>1, EncodedFacts
            <4>3. x[1].frame = sent + 1 /\ x[1].place = 1 /\ 1 \in 1..Len(x)
                BY <4>2
            <4>4. 1 + Len(Ahead) \in 1..Len(Ahead \o x) /\ (Ahead \o x)[1 + Len(Ahead)] = x[1]
                BY <1>2, <4>3
            <4> QED
                BY <2>1, <4>3, <4>4
        <3>2. CASE damaged' = damaged \union {sent + 1}
            BY <2>1, <3>2
        <3> QED
            BY <3>1, <3>2 DEF Sent
    <2>3. \A i \in 1..Len(Ahead) : ~(Ahead[i].frame = f /\ Ahead[i].place = 1)
        <3> TAKE i \in 1..Len(Ahead)
        <3>1. i \in 1..Len(Ahead \o x) /\ (Ahead \o x)[i] = Ahead[i]
            BY <1>2
        <3> QED
            BY <2>1, <3>1
    <2>4. f \in 1..sent /\ f \notin damaged
        BY <1>1, <2>1, <2>2
    <2> QED
        BY <2>1, <2>3, <2>4, LostIs
<1> QED
    BY <1>1, <1>3 DEF LossInv, Excused

\* and so does inserting a byte.
LEMMA InsertLoss ==
    ASSUME TypeOK, LossInv, NEW b \in Bytes, Insert(b)
    PROVE  LossInv'
<1> DEFINE x == <<Noise(b)>>
<1>1. /\ Ahead \in Seq(AnyToken) /\ x \in Seq(AnyToken)
      /\ Ahead' = Ahead \o x /\ hurt' = hurt \union {sent}
      /\ UNCHANGED <<side, sent, plain, damaged, passed>>
    BY AheadTyped, InsertEffect
<1> HIDE DEF x
<1>2. /\ Len(Ahead) \in Nat /\ Len(x) \in Nat /\ Len(Ahead \o x) = Len(Ahead) + Len(x)
      /\ \A i \in 1..Len(Ahead) : (Ahead \o x)[i] = Ahead[i]
    BY <1>1, JoinedTokens, Zenon
<1>3. ASSUME NEW f \in Lost'
      PROVE  f \in Lost
    <2>1. /\ f \in 1..sent /\ f \notin damaged
          /\ \A i \in 1..Len(Ahead \o x) : ~((Ahead \o x)[i].frame = f /\ (Ahead \o x)[i].place = 1)
          /\ \A k \in 1..Len(passed) : passed[k] # f
        BY <1>1, <1>3 DEF Lost, Held, Ahead
    <2>2. \A i \in 1..Len(Ahead) : ~(Ahead[i].frame = f /\ Ahead[i].place = 1)
        <3> TAKE i \in 1..Len(Ahead)
        <3>1. i \in 1..Len(Ahead \o x) /\ (Ahead \o x)[i] = Ahead[i]
            BY <1>2
        <3> QED
            BY <2>1, <3>1
    <2> QED
        BY <2>1, <2>2, LostIs
<1> QED
    BY <1>1, <1>3 DEF LossInv, Excused

\* A receiver that takes d bytes keeps the invariant if each sound frame that
\* begins in them is handed on or excused.
LEMMA TakeLoss ==
    ASSUME TypeOK, LossInv, NEW d, Suffix(Ahead, Ahead', d),
           UNCHANGED <<side, sent, damaged, plain>>, hurt \subseteq hurt',
           \A k \in 1..Len(passed) : k \in 1..Len(passed') /\ passed'[k] = passed[k],
           \A i \in 1..d : Start(Ahead[i], damaged) =>
              \/ \E k \in 1..Len(passed') : passed'[k] = Ahead[i].frame
              \/ side = "fc" /\ (plain => Excused(Ahead[i].frame, hurt'))
    PROVE  LossInv'
<1>1. sent \in Nat /\ Len(Ahead) \in Nat /\ d \in 0..Len(Ahead) /\ Len(Ahead') = Len(Ahead) - d
    BY AheadTyped DEF Suffix
<1>2. \A i \in 1..Len(Ahead') : Ahead'[i] = Ahead[i + d]
    BY DEF Suffix
<1>3. ASSUME NEW f \in Lost'
      PROVE  side = "fc" /\ (plain => Excused(f, hurt'))
    <2>1. /\ f \in 1..sent /\ f \notin damaged
          /\ \A i \in 1..Len(Ahead') : ~(Ahead'[i].frame = f /\ Ahead'[i].place = 1)
          /\ \A k \in 1..Len(passed') : passed'[k] # f
        BY <1>3 DEF Lost, Held, Ahead
    <2>2. \A k \in 1..Len(passed) : passed[k] # f
        BY <2>1
    <2>3. CASE f \in Lost
        BY <2>3 DEF LossInv, Excused
    <2>4. CASE f \notin Lost
        <3>1. PICK i \in 1..Len(Ahead) : Ahead[i].frame = f /\ Ahead[i].place = 1
            BY <2>1, <2>2, <2>4, LostIs
        <3>2. i \in 1..d
            <4>1. CASE ~(i <= d)
                <5>1. i - d \in 1..Len(Ahead') /\ (i - d) + d = i
                    BY <1>1, <4>1
                <5> QED
                    BY <1>2, <2>1, <3>1, <5>1
            <4> QED
                BY <1>1, <4>1
        <3>3. Start(Ahead[i], damaged)
            BY <1>1, <2>1, <3>1 DEF Start
        <3> QED
            BY <2>1, <3>1, <3>2, <3>3
    <2> QED
        BY <2>3, <2>4
<1> QED
    BY <1>3 DEF LossInv

\* What the FC's full buffer pushes out is hurt.
LEMMA RunFcLoss ==
    ASSUME TypeOK, LossInv, NEW n \in 0..Len(wire), RunFc(n)
    PROVE  LossInv'
<1>1. PICK d :
        /\ Suffix(Ahead, Ahead', d) /\ hurt \subseteq hurt'
        /\ \A i \in 1..d : Ahead[i].frame \in hurt'
    BY RunFcEffect
<1>2. UNCHANGED <<side, sent, damaged, plain>> /\ passed' = passed /\ side = "fc"
    BY DEF RunFc
<1>3. MaxFrame \in Nat /\ MaxFrame > 0
    BY Sizes
<1>4. \A i \in 1..d : Start(Ahead[i], damaged) => Excused(Ahead[i].frame, hurt')
    <2> TAKE i \in 1..d
    <2> HAVE Start(Ahead[i], damaged)
    <2> DEFINE f == Ahead[i].frame
    <2>1. f \in Nat
        <3>1. i \in 1..Len(Ahead) /\ Ahead \in Seq(AnyToken)
            BY <1>1, AheadTyped DEF Suffix
        <3>2. Ahead[i] \in AnyToken
            BY <3>1
        <3> QED
            BY <3>2 DEF AnyToken
    <2>2. f \in hurt'
        BY <1>1
    <2> HIDE DEF f
    <2>3. f <= f /\ 5 * (f - f - 1) < MaxFrame
        BY <1>3, <2>1
    <2>4. \E g \in hurt' : g <= f /\ 5 * (f - g - 1) < MaxFrame
        BY <2>2, <2>3
    <2> QED
        BY <2>4 DEF Excused, f
<1> QED
    BY <1>1, <1>2, <1>4, TakeLoss

\* What a sound frame that begins in the buffer looks like from there.
LEMMA StartInBuffer ==
    ASSUME TypeOK, LineInv, NEW i \in 1..Len(buffer), Start(Ahead[i], damaged)
    PROVE  \E n \in 0..MaxPayload :
              /\ Ahead[i] = buffer[i] /\ buffer[i].byte = A
              /\ i + 1 <= Len(buffer) => HasMagic(buffer, i)
              /\ i + 2 <= Len(buffer) => buffer[i + 2].byte = n
              /\ i + n + 4 <= Len(buffer) => RunAt(buffer, i, buffer[i].frame, n + 5)
<1>1. buffer \in Seq(AnyToken) /\ wire \in Seq(AnyToken) /\ Ahead \in Seq(AnyToken)
    BY AheadTyped
<1>2. /\ Len(buffer) \in Nat /\ Len(wire) \in Nat /\ Len(Ahead) = Len(buffer) + Len(wire)
      /\ \A j \in 1..Len(buffer) : Ahead[j] = buffer[j] /\ j \in 1..Len(Ahead)
    <2>1. /\ Len(buffer) \in Nat /\ Len(wire) \in Nat /\ Len(Ahead) = Len(buffer) + Len(wire)
          /\ \A j \in 1..Len(buffer) : Ahead[j] = buffer[j]
        BY <1>1, JoinedTokens DEF Ahead
    <2> QED
        BY <2>1
<1>3. PICK n \in 0..MaxPayload :
        /\ i + n + 4 <= Len(Ahead)
        /\ Ahead[i].byte = A /\ Ahead[i + 1].byte = L /\ Ahead[i + 2].byte = n
        /\ RunAt(Ahead, i, Ahead[i].frame, n + 5)
    <2>1. i \in 1..Len(Ahead) /\ Whole(Ahead, damaged)
        BY <1>2 DEF LineInv
    <2> QED
        BY <1>1, <2>1, StartFacts
<1>4. Ahead[i] = buffer[i] /\ buffer[i].byte = A
    BY <1>2, <1>3
<1>5. ASSUME i + 1 <= Len(buffer) PROVE HasMagic(buffer, i)
    <2>1. i + 1 \in 1..Len(buffer) /\ i < Len(buffer)
        BY <1>2, <1>5
    <2> QED
        BY <1>2, <1>3, <1>4, <2>1 DEF HasMagic
<1>6. ASSUME i + 2 <= Len(buffer) PROVE buffer[i + 2].byte = n
    <2>1. i + 2 \in 1..Len(buffer)
        BY <1>2, <1>6
    <2> QED
        BY <1>2, <1>3, <2>1
<1>7. ASSUME i + n + 4 <= Len(buffer) PROVE RunAt(buffer, i, buffer[i].frame, n + 5)
    <2>1. i \in 1..Len(buffer) - 2 /\ n \in Nat
        BY <1>2, <1>7, Sizes
    <2>2. RunAt(buffer, i, Ahead[i].frame, n + 5) <=> RunAt(Ahead, i, Ahead[i].frame, n + 5)
        BY <1>7, <2>1, RunAhead
    <2> QED
        BY <1>3, <1>4, <2>2
<1> QED
    BY <1>4, <1>5, <1>6, <1>7

\* In a run no frame begins but at its first byte.
LEMMA OneStart ==
    ASSUME NEW s, NEW k \in Nat, NEW n \in Nat, NEW f, RunAt(s, k, f, n + 5),
           NEW i \in Nat, k < i, i <= k + n + 4
    PROVE  s[i].place # 1
<1>1. i - k + 1 \in 1..n + 5 /\ k + (i - k + 1) - 1 = i /\ i - k + 1 # 1
    OBVIOUS
<1> QED
    BY <1>1 DEF RunAt

\* What an answered frame adds to those handed on.
LEMMA Added ==
    ASSUME NEW S, NEW q \in Seq(S), NEW r \in Seq(S), NEW f, r = q \/ r = Append(q, f)
    PROVE  /\ \A k \in 1..Len(q) : k \in 1..Len(r) /\ r[k] = q[k]
           /\ r = Append(q, f) => \E k \in 1..Len(r) : r[k] = f
<1>1. Len(q) \in Nat
    OBVIOUS
<1>2. CASE r = q
    <2>1. r # Append(q, f)
        <3>1. Len(Append(q, f)) = Len(q) + 1
            OBVIOUS
        <3> QED
            BY <1>1, <1>2, <3>1
    <2> QED
        BY <1>2, <2>1
<1>3. CASE r = Append(q, f)
    <2>1. /\ Len(r) = Len(q) + 1 /\ r[Len(q) + 1] = f
          /\ \A k \in 1..Len(q) : r[k] = q[k]
        BY <1>3
    <2>2. Len(q) + 1 \in 1..Len(r) /\ \A k \in 1..Len(q) : k \in 1..Len(r)
        BY <1>1, <2>1
    <2> QED
        BY <2>1, <2>2
<1> QED
    BY <1>2, <1>3

\* The Pi goes to the first magic, takes one byte of what it refuses and hands
\* on what is whole, so it takes no sound frame without handing it on.
LEMMA PiTurnLoss ==
    ASSUME TypeOK, TypeOK', LineInv, LossInv, PiTurn
    PROVE  LossInv'
<1>1. PICK d \in Nat :
        /\ Suffix(buffer, buffer', d)
        /\ \/ /\ passed' = passed
              /\ \A i \in 1..d : IF i < Len(buffer) THEN ~HasMagic(buffer, i)
                                   ELSE buffer[i].byte # A
           \/ \E k \in 1..Len(buffer) - 2 :
                LET n == buffer[k + 2].byte
                    run == buffer[k].frame > 0 /\ RunAt(buffer, k, buffer[k].frame, n + 5)
                IN  /\ \A i \in 1..k - 1 : ~HasMagic(buffer, i)
                    /\ \/ /\ passed' = passed /\ d = k
                          /\ n <= MaxPayload => k + n + 4 <= Len(buffer) /\ ~run
                       \/ passed' = Append(passed, buffer[k].frame) /\ d = k + n + 4 /\ run
    BY PiTurnEffect
<1>2. UNCHANGED <<wire, side, sent, damaged, plain, hurt>>
    BY DEF PiTurn, line
<1>3. /\ Suffix(Ahead, Ahead', d) /\ Len(buffer) \in Nat /\ d <= Len(buffer)
      /\ \A i \in 1..Len(buffer) : Ahead[i] = buffer[i]
    BY <1>1, <1>2, SuffixAhead
<1>4. passed \in Seq(1..sent) /\ passed' \in Seq(1..sent)
    BY <1>2 DEF TypeOK
<1>5. \A k \in 1..Len(passed) : k \in 1..Len(passed') /\ passed'[k] = passed[k]
    <2>1. passed' = passed \/ \E k \in 1..Len(buffer) - 2 : passed' = Append(passed, buffer[k].frame)
        BY <1>1
    <2>2. ASSUME NEW f, passed' = passed \/ passed' = Append(passed, f)
          PROVE  \A k \in 1..Len(passed) : k \in 1..Len(passed') /\ passed'[k] = passed[k]
        BY <1>4, <2>2, Added
    <2> QED
        BY <2>1, <2>2
<1>6. ASSUME NEW i \in 1..d, Start(Ahead[i], damaged)
      PROVE  \E k \in 1..Len(passed') : passed'[k] = Ahead[i].frame
    <2>1. i \in 1..Len(buffer)
        BY <1>3
    <2>2. PICK m \in 0..MaxPayload :
            /\ Ahead[i] = buffer[i] /\ buffer[i].byte = A
            /\ i + 1 <= Len(buffer) => HasMagic(buffer, i)
            /\ i + 2 <= Len(buffer) => buffer[i + 2].byte = m
            /\ i + m + 4 <= Len(buffer) => RunAt(buffer, i, buffer[i].frame, m + 5)
        BY <1>6, <2>1, StartInBuffer
    <2>3. CASE \A j \in 1..d : IF j < Len(buffer) THEN ~HasMagic(buffer, j)
                               ELSE buffer[j].byte # A
        <3>1. CASE i < Len(buffer)
            <4>1. ~HasMagic(buffer, i)
                BY <2>3, <3>1
            <4>2. i + 1 <= Len(buffer)
                BY <1>3, <3>1
            <4> QED
                BY <2>2, <4>1, <4>2
        <3>2. CASE ~(i < Len(buffer))
            BY <2>2, <2>3, <3>2
        <3> QED
            BY <3>1, <3>2
    <2>4. ASSUME NEW k \in 1..Len(buffer) - 2,
                 \A j \in 1..k - 1 : ~HasMagic(buffer, j),
                 passed' = passed, d = k,
                 LET n == buffer[k + 2].byte
                     run == buffer[k].frame > 0 /\ RunAt(buffer, k, buffer[k].frame, n + 5)
                 IN  n <= MaxPayload => k + n + 4 <= Len(buffer) /\ ~run
          PROVE  FALSE
        <3>1. i = k
            <4>1. CASE i < k
                <5>1. i \in 1..k - 1 /\ i + 1 <= Len(buffer)
                    BY <1>3, <4>1
                <5> QED
                    BY <2>2, <2>4, <5>1
            <4> QED
                BY <2>4, <4>1
        <3>2. i + 2 <= Len(buffer) /\ m <= MaxPayload
            BY <1>3, <3>1, Sizes
        <3>3. buffer[k + 2].byte = m
            BY <2>2, <3>1, <3>2
        <3>4. buffer[k].frame > 0
            BY <1>6, <2>2, <3>1 DEF Start
        <3>5. k + m + 4 <= Len(buffer) /\ ~RunAt(buffer, k, buffer[k].frame, m + 5)
            BY <2>4, <3>2, <3>3, <3>4
        <3> QED
            BY <2>2, <3>1, <3>5
    <2>5. ASSUME NEW k \in 1..Len(buffer) - 2,
                 \A j \in 1..k - 1 : ~HasMagic(buffer, j),
                 passed' = Append(passed, buffer[k].frame), d = k + buffer[k + 2].byte + 4,
                 RunAt(buffer, k, buffer[k].frame, buffer[k + 2].byte + 5)
          PROVE  \E h \in 1..Len(passed') : passed'[h] = Ahead[i].frame
        <3>1. ~(i < k)
            <4>1. CASE i < k
                <5>1. i \in 1..k - 1 /\ i + 1 <= Len(buffer)
                    BY <1>3, <4>1
                <5> QED
                    BY <2>2, <2>5, <5>1
            <4> QED
                BY <4>1
        <3>2. buffer[k + 2].byte \in Nat
            BY RunAhead
        <3>3. ~(k < i)
            <4>1. CASE k < i
                <5>1. k \in Nat /\ i \in Nat /\ i <= k + buffer[k + 2].byte + 4
                    BY <1>3, <2>5, <3>2
                <5>2. buffer[i].place # 1
                    BY <2>5, <3>2, <4>1, <5>1, OneStart
                <5> QED
                    BY <1>6, <2>2, <5>2 DEF Start
            <4> QED
                BY <4>1
        <3>4. i = k
            BY <1>3, <3>1, <3>3
        <3>5. \E h \in 1..Len(passed') : passed'[h] = buffer[k].frame
            <4> DEFINE f == buffer[k].frame
            <4>1. passed' = Append(passed, f)
                BY <2>5
            <4> HIDE DEF f
            <4>2. \E h \in 1..Len(passed') : passed'[h] = f
                BY <1>4, <4>1, Added
            <4> QED
                BY <4>2 DEF f
        <3> QED
            BY <2>2, <3>4, <3>5
    <2> QED
        BY <1>1, <2>3, <2>4, <2>5
<1> QED
    BY <1>2, <1>3, <1>5, <1>6, TakeLoss

\* In front of the receiver stands the magic.  As long as frames contain it
\* at their start only, a frame starts there, or its second byte is spoilt.
LEMMA MagicIsStart ==
    ASSUME NEW s \in Seq(AnyToken), NEW bad, Whole(s, bad), Inside(s, bad, TRUE),
           Len(s) >= 2, s[1].byte = A, s[2].byte = L, ~Spoilt(s[2], bad)
    PROVE  Start(s[1], bad)
<1> DEFINE f == s[2].frame
           m == s[2].place
<1>1. f \in Nat /\ m \in Nat /\ f > 0 /\ f \notin bad /\ Len(s) \in Nat
    <2>1. s[2] \in AnyToken
        OBVIOUS
    <2> QED
        BY <2>1 DEF AnyToken, Spoilt
<1>2. 2 \in 1..Len(s) /\ 2 \in 2..Len(s)
    BY <1>1
<1>3. PICK msg \in Messages : Sits(s, 2, msg, f)
    BY <1>1, <1>2 DEF Whole
<1>4. m # 1
    <2>1. SUFFICES ASSUME m = 1 PROVE FALSE
        OBVIOUS
    <2>2. Len(Encoded(msg, f)) \in Nat /\ Encoded(msg, f)[1].byte = A
        BY <1>1, EncodedFacts
    <2>3. /\ m \in 1..Len(Encoded(msg, f))
          /\ \A j \in m..Len(Encoded(msg, f)) : s[2 + j - m] = Encoded(msg, f)[j]
        BY <1>3 DEF Sits
    <2>4. 1 \in m..Len(Encoded(msg, f)) /\ 2 + 1 - m = 2
        BY <2>1, <2>2, <2>3
    <2>5. s[2] = Encoded(msg, f)[1]
        BY <2>3, <2>4
    <2> QED
        BY <2>2, <2>5, Sizes
<1>5. m > 1
    <2>1. m >= 1
        BY <1>1, <1>3, EncodedFacts DEF Sits
    <2> QED
        BY <1>1, <1>4, <2>1
<1>6. s[2 - 1].frame = f /\ s[2 - 1].place = m - 1 /\ (s[2 - 1].byte = A => m = 2)
    BY <1>2, <1>5 DEF Inside
<1>7. s[1].frame = f /\ s[1].place = 1
    BY <1>6
<1> QED
    BY <1>1, <1>7 DEF Start

\* The FC drops what no frame begins with, and whole frames.  One that it
\* refuses can contain sound frames, but then it begins with a spoilt byte,
\* from which a longest frame does not reach far.
LEMMA FcTurnLoss ==
    ASSUME TypeOK, TypeOK', LineInv, LossInv, FcTurn
    PROVE  LossInv'
<1>1. PICK d \in Nat :
        /\ Suffix(buffer, buffer', d)
        /\ \/ passed' = passed /\ d = 0
           \/ /\ passed' = passed /\ d = 1 /\ Len(buffer) >= 5
              /\ HasMagic(buffer, 1) => buffer[3].byte > MaxPayload
           \/ /\ HasMagic(buffer, 1) /\ buffer[3].byte \in 0..MaxPayload
              /\ d = buffer[3].byte + 5
              /\ LET run == /\ buffer[1].frame > 0
                            /\ RunAt(buffer, 1, buffer[1].frame, buffer[3].byte + 5)
                 IN  passed' = IF run THEN Append(passed, buffer[1].frame) ELSE passed
    BY FcTurnEffect
<1>2. UNCHANGED <<wire, side, sent, damaged, plain, hurt>> /\ side = "fc"
    BY DEF FcTurn, line
<1>3. /\ Suffix(Ahead, Ahead', d) /\ Len(buffer) \in Nat /\ d <= Len(buffer)
      /\ Len(buffer) <= Len(Ahead) /\ \A i \in 1..Len(buffer) : Ahead[i] = buffer[i]
    BY <1>1, <1>2, SuffixAhead
<1>4. passed \in Seq(1..sent) /\ passed' \in Seq(1..sent)
    BY <1>2 DEF TypeOK
<1>5. \A k \in 1..Len(passed) : k \in 1..Len(passed') /\ passed'[k] = passed[k]
    <2>1. passed' = passed \/ passed' = Append(passed, buffer[1].frame)
        BY <1>1
    <2> QED
        BY <1>4, <2>1, Added
<1>6. ASSUME NEW i \in 1..d, Start(Ahead[i], damaged)
      PROVE  \/ \E k \in 1..Len(passed') : passed'[k] = Ahead[i].frame
             \/ plain => Excused(Ahead[i].frame, hurt)
    <2>1. i \in 1..Len(buffer) /\ MaxPayload \in Nat
        BY <1>3, Sizes
    <2>2. PICK m \in 0..MaxPayload :
            /\ Ahead[i] = buffer[i] /\ buffer[i].byte = A
            /\ i + 1 <= Len(buffer) => HasMagic(buffer, i)
            /\ i + 2 <= Len(buffer) => buffer[i + 2].byte = m
            /\ i + m + 4 <= Len(buffer) => RunAt(buffer, i, buffer[i].frame, m + 5)
        BY <1>6, <2>1, StartInBuffer
    <2>3. ~(d = 1 /\ Len(buffer) >= 5 /\ (HasMagic(buffer, 1) => buffer[3].byte > MaxPayload))
        <3>1. CASE d = 1 /\ Len(buffer) >= 5
            <4>1. i = 1 /\ 1 + 1 <= Len(buffer) /\ 1 + 2 <= Len(buffer) /\ 1 + 2 = 3
                BY <1>3, <3>1
            <4>2. HasMagic(buffer, 1) /\ buffer[3].byte = m
                BY <2>2, <4>1
            <4> QED
                BY <2>1, <4>2
        <3> QED
            BY <3>1
    <2> DEFINE n == buffer[3].byte
               run == buffer[1].frame > 0 /\ RunAt(buffer, 1, buffer[1].frame, n + 5)
    <2>4. /\ HasMagic(buffer, 1) /\ n \in 0..MaxPayload /\ d = n + 5
          /\ passed' = IF run THEN Append(passed, buffer[1].frame) ELSE passed
        <3>1. d # 0
            OBVIOUS
        <3> QED
            BY <1>1, <2>3, <3>1
    <2>5. ASSUME i = 1
          PROVE  \E k \in 1..Len(passed') : passed'[k] = Ahead[i].frame
        <3>1. 1 + 2 <= Len(buffer) /\ 1 + 2 = 3 /\ 1 + n + 4 <= Len(buffer)
            BY <1>3, <2>4
        <3>2. m = n
            BY <2>2, <2>5, <3>1
        <3>3. run
            BY <1>6, <2>2, <2>5, <3>1, <3>2 DEF Start
        <3>4. passed' = Append(passed, buffer[1].frame)
            BY <2>4, <3>3
        <3> QED
            BY <1>4, <2>2, <2>5, <3>4, Added
    <2>6. ASSUME i # 1, plain
          PROVE  Excused(Ahead[i].frame, hurt)
        <3>1. ~run
            <4>1. CASE run
                <5>1. n \in Nat /\ i \in Nat /\ 1 < i /\ i <= 1 + n + 4
                    BY <2>4, <2>6
                <5>2. buffer[i].place # 1
                    BY <4>1, <5>1, OneStart
                <5> QED
                    BY <1>6, <2>2, <5>2 DEF Start
            <4> QED
                BY <4>1
        <3>2. Ahead \in Seq(AnyToken) /\ Len(Ahead) >= 2
            BY <1>3, <2>4, AheadTyped
        <3>3. 1 \in 1..Len(buffer) /\ 2 \in 1..Len(buffer)
            BY <1>3, <2>4
        <3>4. Ahead[1] = buffer[1] /\ Ahead[2] = buffer[2]
            BY <1>3, <3>3
        <3>5. Ahead[1].byte = A /\ Ahead[2].byte = L
            BY <2>4, <3>4 DEF HasMagic
        <3>6. Spoilt(Ahead[2], damaged)
            <4>1. ASSUME Start(Ahead[1], damaged)
                  PROVE  FALSE
                <5>1. PICK o \in 0..MaxPayload :
                        /\ 1 + 2 <= Len(buffer) => buffer[1 + 2].byte = o
                        /\ 1 + o + 4 <= Len(buffer) => RunAt(buffer, 1, buffer[1].frame, o + 5)
                    BY <3>3, <4>1, StartInBuffer
                <5>2. 1 + 2 <= Len(buffer) /\ 1 + 2 = 3 /\ 1 + n + 4 <= Len(buffer)
                    BY <1>3, <2>4
                <5>3. o = n
                    BY <5>1, <5>2
                <5>4. run
                    BY <3>4, <4>1, <5>1, <5>2, <5>3 DEF Start
                <5> QED
                    BY <3>1, <5>4
            <4>2. Whole(Ahead, damaged) /\ Inside(Ahead, damaged, TRUE)
                <5>1. Whole(Ahead, damaged) /\ Inside(Ahead, damaged, plain)
                    BY DEF LineInv
                <5> QED
                    BY <2>6, <5>1 DEF Inside
            <4> QED
                BY <3>2, <3>5, <4>1, <4>2, MagicIsStart
        <3>7. PICK g \in hurt : g <= Ahead[i].frame /\ 5 * (Ahead[i].frame - g - 1) < i - 2
            <4>1. i # 2
                BY <1>6, <3>6 DEF Spoilt, Start
            <4>2. 2 \in 1..Len(Ahead) /\ i \in 1..Len(Ahead) /\ 2 < i
                BY <1>3, <2>1, <2>6, <3>3, <4>1
            <4>3. Near(Ahead, damaged, hurt, sent)
                BY DEF LineInv
            <4> QED
                BY <1>6, <3>6, <4>2, <4>3 DEF Near
        <3>8. i - 2 < MaxFrame /\ MaxFrame \in Nat
            BY <2>1, <2>4, Sizes
        <3>9. Ahead[i].frame \in Nat /\ g \in Nat
            <4>1. i \in 1..Len(Ahead)
                BY <1>3, <2>1
            <4>2. hurt \subseteq 0..sent /\ sent \in Nat /\ Ahead[i].frame \in 0..sent
                BY <4>1, AheadTyped DEF TypeOK
            <4> QED
                BY <4>2
        <3> DEFINE f == Ahead[i].frame
        <3> HIDE DEF f
        <3>10. g <= f /\ 5 * (f - g - 1) < MaxFrame
            BY <3>7, <3>8, <3>9 DEF f
        <3> QED
            BY <3>10 DEF Excused, f
    <2> QED
        BY <2>5, <2>6
<1>7. \A i \in 1..d : Start(Ahead[i], damaged) =>
        \/ \E k \in 1..Len(passed') : passed'[k] = Ahead[i].frame
        \/ side = "fc" /\ (plain => Excused(Ahead[i].frame, hurt'))
    BY <1>2, <1>6
<1> QED
    BY <1>2, <1>3, <1>5, <1>7, TakeLoss

LEMMA StepLoss == TypeOK /\ TypeOK' /\ LineInv /\ LossInv /\ [Next]_vars => LossInv'
<1> SUFFICES ASSUME TypeOK, TypeOK', LineInv, LossInv, [Next]_vars
             PROVE  LossInv'
    OBVIOUS
<1>1. ASSUME NEW msg \in Messages, Send(msg)
      PROVE  LossInv'
    BY <1>1, SendEffect, SendLoss
<1>2. ASSUME NEW b \in Bytes, Insert(b)
      PROVE  LossInv'
    BY <1>2, InsertLoss
<1>3. ASSUME NEW n \in 0..Len(wire), RunFc(n)
      PROVE  LossInv'
    BY <1>3, RunFcLoss
<1>4. ASSUME NEW n \in 0..Len(wire), FeedPi(n)
      PROVE  LossInv'
    <2>1. Ahead' = Ahead
        BY <1>4, FeedPiEffect
    <2>2. UNCHANGED <<side, sent, plain, damaged, hurt, passed>>
        BY <1>4 DEF FeedPi
    <2>3. \A f : f \in Lost' <=> f \in Lost
        BY <2>1, <2>2 DEF Lost, Held, Ahead
    <2> QED
        BY <2>2, <2>3 DEF LossInv
<1>5. CASE FcTurn
    BY <1>5, FcTurnLoss
<1>6. CASE PiTurn
    BY <1>6, PiTurnLoss
<1>7. CASE UNCHANGED vars
    <2>1. \A f : f \in Lost' <=> f \in Lost
        BY <1>7 DEF Lost, Held, vars, line
    <2> QED
        BY <1>7, <2>1 DEF LossInv, vars, line
<1>8. wire \in Seq(AnyToken) /\ 1..Len(wire) \subseteq 0..Len(wire) /\ 0 \in 0..Len(wire)
    BY AheadTyped
<1> QED
    BY <1>1, <1>2, <1>3, <1>4, <1>5, <1>6, <1>7, <1>8 DEF Next, Receive

LEMMA InitLoss == Init => LossInv
    BY DEF Init, LossInv, Lost

-----------------------------------------------------------------------------

LEMMA Invariance == Spec => []IInv
<1>1. Init => IInv
    BY InitTyped, InitLine, InitPassed, InitLoss DEF IInv
<1>2. IInv /\ [Next]_vars => IInv'
    BY StepTyped, StepLine, StepPassed, StepLoss DEF IInv
<1> QED
    BY <1>1, <1>2, PTL DEF Spec

\* The buffers keep their limits: the FC's is never exceeded, and what the Pi
\* keeps between two chunks is less than a frame.
THEOREM StreamTypeCorrect == Spec => []TypeOK
    BY Invariance, PTL DEF IInv

\* However the stream is cut into chunks and disturbed, no frame is handed on
\* twice, out of order or damaged.
THEOREM PassedOnceInOrderHolds == Spec => []PassedOnceInOrder
<1>1. IInv => PassedOnceInOrder
    BY DEF IInv, PassedInv, PassedOnceInOrder
<1> QED
    BY <1>1, Invariance, PTL

\* The Pi loses no frame that arrives undisturbed, whatever came before it.
THEOREM PiLosesNothingHolds == Spec => []PiLosesNothing
<1>1. IInv => PiLosesNothing
    <2> SUFFICES ASSUME IInv, side = "pi", NEW f \in Lost
                 PROVE  FALSE
        BY DEF PiLosesNothing
    <2>1. side = "fc"
        BY DEF IInv, LossInv
    <2> QED
        BY <2>1
<1> QED
    BY <1>1, Invariance, PTL

\* The FC loses an undisturbed frame only behind a disturbance, and no further
\* behind than a longest frame reaches, while no frame contains
\* the magic anywhere but at its start.
THEOREM FcLossIsLocalHolds == Spec => []FcLossIsLocal
<1>1. IInv => FcLossIsLocal
    <2> SUFFICES ASSUME IInv, side = "fc", plain, NEW f \in Lost
                 PROVE  \E g \in hurt :
                           g <= f /\ (f - g - 1) * (HeaderSize + CrcSize) < MaxFrame
        BY DEF FcLossIsLocal
    <2>1. PICK g \in hurt : g <= f /\ 5 * (f - g - 1) < MaxFrame
        BY DEF IInv, LossInv, Excused
    <2>2. f \in Nat /\ g \in Nat
        BY DEF IInv, TypeOK, Lost
    <2>3. (f - g - 1) * (HeaderSize + CrcSize) = 5 * (f - g - 1)
        BY <2>2 DEF HeaderSize, CrcSize
    <2> QED
        BY <2>1, <2>3
<1> QED
    BY <1>1, Invariance, PTL
=============================================================================
