------------------------ MODULE RecordingFileProofs ------------------------
(***************************************************************************)
(* Theorems about RecordingFile, for every clock, frame and header size,   *)
(* every number of packets, sent at any times, and every number of writes  *)
(* that fail.                                                              *)
(***************************************************************************)
EXTENDS RecordingFile, FiniteSetTheorems, TLAPS

-----------------------------------------------------------------------------
(***************************************************************************)
(* Arithmetic.                                                             *)
(***************************************************************************)
LEMMA Products ==
    ASSUME NEW a \in Nat, NEW b \in Nat
    PROVE  a * b \in Nat
OBVIOUS

LEMMA Quotients ==
    ASSUME NEW a \in Nat, NEW b \in Nat \ {0}
    PROVE  a \div b \in Nat /\ a % b \in 0 .. (b - 1)
OBVIOUS

(* What is known of products, and of division by a positive number, from   *)
(* which the arithmetic of the clock follows.                              *)
LEMMA Multiples ==
    ASSUME NEW w \in Nat, NEW k \in Int
    PROVE  /\ w * k \in Int
           /\ k >= 1 => w * k >= w
           /\ k <= -1 => w * k <= -w
OBVIOUS

LEMMA Division ==
    ASSUME NEW a \in Int, NEW w \in Nat \ {0}
    PROVE  /\ a \div w \in Int /\ a % w \in 0 .. (w - 1)
           /\ a = w * (a \div w) + (a % w)
OBVIOUS

LEMMA Uniqueness ==
    ASSUME NEW w \in Nat \ {0}, NEW q \in Int, NEW p \in Int,
           NEW r \in 0 .. (w - 1), NEW s \in 0 .. (w - 1),
           w * q + r = w * p + s
    PROVE  q = p /\ r = s
<1>1. w * (q - p) = s - r
  OBVIOUS
<1>2. q - p \in Int
  OBVIOUS
<1>3. ~ (q - p >= 1) /\ ~ (q - p <= -1)
  BY <1>1, <1>2, Multiples
<1> QED
  BY <1>2, <1>3

LEMMA Remainder ==
    ASSUME NEW w \in Nat \ {0}, NEW q \in Int, NEW r \in 0 .. (w - 1)
    PROVE  (w * q + r) % w = r /\ (w * q + r) \div w = q
<1>1. w * q + r \in Int
  BY Multiples
<1> QED
  BY <1>1, Division, Uniqueness

(* A difference taken modulo the clock is that of the times.               *)
LEMMA DifferenceOfRemainders ==
    ASSUME NEW w \in Nat \ {0}, NEW a \in Nat, NEW b \in Nat
    PROVE  ((b % w) - (a % w)) % w = (b - a) % w
<1> DEFINE d == ((b % w) - (a % w))
           k == (b \div w) - (a \div w)
<1>1. /\ b = w * (b \div w) + (b % w) /\ a = w * (a \div w) + (a % w)
      /\ b \div w \in Int /\ a \div w \in Int /\ b % w \in Int /\ a % w \in Int
  BY Division
<1>2. d \in Int /\ k \in Int
  BY <1>1
<1>3. w * k = w * (b \div w) - w * (a \div w)
  BY <1>1
<1>4. b - a = w * k + d
  BY <1>1, <1>3, Multiples
<1>5. d = w * (d \div w) + (d % w) /\ d \div w \in Int /\ d % w \in 0 .. (w - 1)
  BY <1>2, Division
<1> HIDE DEF d, k
<1>6. b - a = w * (k + (d \div w)) + (d % w)
  BY <1>2, <1>4, <1>5
<1>7. k + (d \div w) \in Int
  BY <1>2, <1>5
<1>8. (w * (k + (d \div w)) + (d % w)) % w = d % w
  BY <1>5, <1>7, Remainder
<1>9. (b - a) % w = d % w
  BY <1>6, <1>8
<1> QED
  BY <1>9 DEF d

(* When a frame is a whole number of ticks to a sample, a gap gives a      *)
(* sample for each of them.                                                *)
LEMMA WholeSamples ==
    ASSUME NEW o \in Nat \ {0}, NEW t \in Nat \ {0}, o % t = 0
    PROVE  /\ o \div t \in Nat \ {0} /\ o = t * (o \div t)
           /\ \A g \in Nat : (g * t) \div o = g \div (o \div t)
<1> DEFINE p == o \div t
<1>1. p \in Int /\ o = t * p
  BY Division
<1>2. p \in Nat \ {0}
  BY <1>1, Multiples
<1> HIDE DEF p
<1>3. ASSUME NEW g \in Nat PROVE (g * t) \div o = g \div p
  <2> DEFINE s == g \div p
             r == g % p
  <2>1. g = p * s + r /\ s \in Int /\ r \in 0 .. (p - 1)
    BY <1>2, Division
  <2> HIDE DEF s, r
  <2>2. g * t = o * s + t * r
    BY <1>1, <1>2, <2>1
  <2>3. t * (p - r) \in Int /\ t * (p - r) >= t /\ t * r \in Nat
    BY <1>2, <2>1, Multiples
  <2>4. t * r \in 0 .. (o - 1)
    BY <1>1, <1>2, <2>1, <2>3
  <2>5. (o * s + t * r) \div o = s
    BY <2>1, <2>4, Remainder
  <2> QED
    BY <2>2, <2>5 DEF s
<1> QED
  BY <1>1, <1>2, <1>3 DEF p

LEMMA ShortDifferences ==
    ASSUME NEW w \in Nat \ {0}, NEW d \in Int
    PROVE  /\ 0 <= d /\ d < w => d % w = d
           /\ -w <= d /\ d < 0 => d % w = w + d
<1>1. d = w * 0 + d /\ (d = w * (-1) + (w + d))
  OBVIOUS
<1>2. ASSUME 0 <= d, d < w PROVE d % w = d
  BY <1>1, <1>2, Remainder
<1>3. ASSUME -w <= d, d < 0 PROVE d % w = w + d
  BY <1>1, <1>3, Remainder
<1> QED
  BY <1>2, <1>3

LEMMA ClockRuns == ClockWrap \in Nat \ {0} /\ MaxSilenceGapTicks < ClockWrap
<1>1. ClockWrap \div 2 > 0 /\ ClockWrap \in Nat
  BY FileConstants
<1> QED
  BY <1>1, FileConstants

(* Silence has some number of bytes, as has a frame.                       *)
LEMMA BytesAreNatural ==
    /\ FrameBytes \in Nat
    /\ \A gap \in Nat : SilenceBytes(gap) \in Nat
<1>1. FrameBytes \in Nat
  BY FileConstants, Products DEF FrameBytes
<1>2. ASSUME NEW gap \in Nat PROVE SilenceBytes(gap) \in Nat
  <2>1. gap * TargetFrameSamples \in Nat
    BY FileConstants, Products
  <2>2. (gap * TargetFrameSamples) \div OpusFrameSamples \in Nat
    BY <2>1, FileConstants, Quotients
  <2> QED
    BY <2>2, FileConstants, Products DEF SilenceBytes
<1> QED
  BY <1>1, <1>2

-----------------------------------------------------------------------------
(***************************************************************************)
(* The writes under way.                                                   *)
(***************************************************************************)
(* The writes of the set S are of n bytes together: there is a measure of  *)
(* its subsets that grows by the bytes of each write.                      *)
Additive(g, S) ==
    /\ g \in [SUBSET S -> Nat]
    /\ g[{}] = 0
    /\ \A A \in SUBSET S : \A w \in S \ A : g[A \cup {w}] = g[A] + w.bytes

Weighs(S, n) == \E g : Additive(g, S) /\ g[S] = n

LEMMA NothingWeighsNothing ==
    /\ Weighs({}, 0)
    /\ \A n : Weighs({}, n) => n = 0
<1>1. Weighs({}, 0)
  <2> DEFINE g == [A \in SUBSET {} |-> 0]
  <2>1. Additive(g, {}) /\ g[{}] = 0
    BY DEF Additive
  <2> HIDE DEF g
  <2> QED
    BY <2>1 DEF Weighs
<1> QED
  BY <1>1 DEF Weighs, Additive

LEMMA OneMoreWrite ==
    ASSUME NEW S, NEW n \in Nat, Weighs(S, n), \A v \in S : v.bytes \in Nat,
           NEW w, w \notin S, w.bytes \in Nat
    PROVE  Weighs(S \cup {w}, n + w.bytes)
<1>1. PICK g : Additive(g, S) /\ g[S] = n
  BY DEF Weighs
<1> DEFINE T == S \cup {w}
           h == [A \in SUBSET T |-> IF w \in A THEN g[A \ {w}] + w.bytes ELSE g[A]]
<1>2. \A A \in SUBSET T : w \in A => h[A] = g[A \ {w}] + w.bytes
  OBVIOUS
<1>3. \A A \in SUBSET T : w \notin A => h[A] = g[A]
  OBVIOUS
<1>4. \A A \in SUBSET T : A \ {w} \in SUBSET S /\ (w \notin A => A \in SUBSET S)
  OBVIOUS
<1>5. \A A \in SUBSET S : g[A] \in Nat
  BY <1>1 DEF Additive
<1>6. h \in [SUBSET T -> Nat]
  BY <1>4, <1>5
<1> HIDE DEF h
<1>7. h[{}] = 0
  BY <1>1, <1>3 DEF Additive
<1>8. ASSUME NEW A \in SUBSET T, NEW v \in T \ A
      PROVE  h[A \cup {v}] = h[A] + v.bytes
  <2>0. A \cup {v} \in SUBSET T
    OBVIOUS
  <2>1. CASE v = w
    <3>1. (A \cup {v}) \ {w} = A
      BY <1>8, <2>1
    <3> QED
      BY <1>2, <1>3, <1>8, <2>0, <2>1, <3>1
  <2>2. CASE v # w /\ w \in A
    <3>1. (A \cup {v}) \ {w} = (A \ {w}) \cup {v}
      BY <2>2
    <3>2. A \ {w} \in SUBSET S /\ v \in S \ (A \ {w})
      BY <1>4, <1>8, <2>2
    <3>3. g[(A \ {w}) \cup {v}] = g[A \ {w}] + v.bytes
      BY <1>1, <3>2 DEF Additive
    <3>4. h[A \cup {v}] = g[(A \ {w}) \cup {v}] + w.bytes
      BY <1>2, <2>0, <2>2, <3>1
    <3>5. h[A] = g[A \ {w}] + w.bytes
      BY <1>2, <2>2
    <3>6. g[A \ {w}] \in Nat /\ g[(A \ {w}) \cup {v}] \in Nat
      BY <1>5, <3>2
    <3> QED
      BY <2>2, <3>3, <3>4, <3>5, <3>6
  <2>3. CASE v # w /\ w \notin A
    <3>1. A \in SUBSET S /\ v \in S \ A /\ w \notin A \cup {v}
      BY <1>4, <1>8, <2>3
    <3> QED
      BY <1>1, <1>3, <2>0, <2>3, <3>1 DEF Additive
  <2> QED
    BY <2>1, <2>2, <2>3
<1>9. h[T] = n + w.bytes
  <2>1. T \ {w} = S /\ w \in T /\ T \in SUBSET T
    OBVIOUS
  <2> QED
    BY <1>1, <1>2, <2>1
<1>10. Additive(h, T)
  BY <1>6, <1>7, <1>8 DEF Additive
<1> QED
  BY <1>9, <1>10 DEF Weighs

LEMMA OneWriteLess ==
    ASSUME NEW S, NEW n, Weighs(S, n), NEW w \in S
    PROVE  \E m \in Nat : Weighs(S \ {w}, m) /\ n = m + w.bytes
<1>1. PICK g : Additive(g, S) /\ g[S] = n
  BY DEF Weighs
<1> DEFINE T == S \ {w}
           h == [A \in SUBSET T |-> g[A]]
<1>2. Additive(h, T)
  BY <1>1 DEF Additive
<1>3. h[T] = g[T] /\ g[T] \in Nat
  BY <1>1 DEF Additive
<1>4. T \cup {w} = S /\ w \in S \ T /\ T \in SUBSET S
  OBVIOUS
<1>5. g[S] = g[T] + w.bytes
  BY <1>1, <1>4 DEF Additive
<1> HIDE DEF h
<1> QED
  BY <1>1, <1>2, <1>3, <1>5 DEF Weighs

-----------------------------------------------------------------------------
(***************************************************************************)
(* Type correctness.                                                       *)
(***************************************************************************)
Times == 0 .. (ClockWrap - 1)

(* The silence before a packet is some number of bytes.                    *)
LEMMA SilenceIsNatural ==
    ASSUME TypeOK, NEW timestamp \in Times
    PROVE  SilenceBefore(timestamp) \in Nat
<1>1. CASE session.lastRtpTimestamp = Unset
  BY <1>1 DEF SilenceBefore
<1>2. CASE session.lastRtpTimestamp # Unset
  <2>1. session.lastRtpTimestamp \in Int
    BY ClockRuns DEF TypeOK, Unset
  <2>2. timestamp - session.lastRtpTimestamp \in Int
    BY <2>1, ClockRuns DEF Times
  <2>3. Gap(timestamp) \in Nat
    BY <2>2, ClockRuns DEF Gap
  <2> QED
    BY <2>3, BytesAreNatural DEF SilenceBefore
<1> QED
  BY <1>1, <1>2

(* What a packet that is handled does: it adds at most two writes.         *)
Handling(t, silence, pcm) ==
    /\ t \in network
    /\ ~ session.closed
    /\ network' = network \ {t}
    /\ session' = [session EXCEPT !.lastRtpTimestamp = t % ClockWrap,
                                  !.bytesWritten = @ + silence + pcm]
    /\ writing' = writing \cup Writes(silence, pcm)
    /\ received' = Append(received, t)
    /\ UNCHANGED <<sent, file, header, closer, faults>>

LEMMA HandlingSteps ==
    ASSUME TypeOK, NEW t \in network, HandleFrame(t) \/ HandleUndecodable(t)
    PROVE  /\ t \in Nat
           /\ \E silence, pcm \in Nat :
                 /\ Handling(t, silence, pcm)
                 /\ \/ pcm = FrameBytes /\ spoilt' = spoilt
                    \/ pcm = 0 /\ spoilt' = spoilt + 1
                 /\ silence = SilenceBefore(t % ClockWrap)
<1>1. t \in Nat
  BY DEF TypeOK, Range
<1>2. t % ClockWrap \in Times
  BY <1>1, ClockRuns, Quotients DEF Times
<1>3. SilenceBefore(t % ClockWrap) \in Nat
  BY <1>2, SilenceIsNatural
<1> QED
  BY <1>1, <1>3, BytesAreNatural
     DEF HandleFrame, HandleUndecodable, Handle, Handling

LEMMA WritesTyped ==
    ASSUME TypeOK, NEW silence \in Nat, NEW pcm \in Nat
    PROVE  \A w \in Writes(silence, pcm) : w \in [from : Nat, bytes : Nat \ {0}]
BY DEF TypeOK, Writes

LEMMA HandlingTyped ==
    ASSUME TypeOK, NEW t \in Nat, NEW silence \in Nat, NEW pcm \in Nat,
           Handling(t, silence, pcm), spoilt' \in Nat
    PROVE  TypeOK'
<1>1. t % ClockWrap \in Times
  BY ClockRuns, Quotients DEF Times
<1>2. session' \in [lastRtpTimestamp : Times \cup {Unset}, bytesWritten : Nat,
                    closed : BOOLEAN]
  <2>1. session \in [lastRtpTimestamp : Times \cup {Unset}, bytesWritten : Nat,
                     closed : BOOLEAN]
    BY DEF TypeOK, Times
  <2>2. session.bytesWritten + silence + pcm \in Nat
    BY <2>1
  <2>3. session' = [session EXCEPT !.lastRtpTimestamp = t % ClockWrap,
                                   !.bytesWritten =
                                      session.bytesWritten + silence + pcm]
    BY <2>1 DEF Handling
  <2> QED
    BY <1>1, <2>1, <2>2, <2>3
<1>3. \A w \in writing' : w \in [from : Nat, bytes : Nat \ {0}]
  BY WritesTyped DEF TypeOK, Handling
<1>4. received' \in Seq(Range(sent))
  BY DEF TypeOK, Handling
<1>5. network' \in SUBSET Range(sent)
  BY DEF TypeOK, Handling
<1> QED
  BY <1>2, <1>3, <1>4, <1>5 DEF TypeOK, Handling, Times

LEMMA SendingTyped ==
    ASSUME TypeOK, SendPacket
    PROVE  TypeOK'
<1>1. PICK t \in Nat : sent' = Append(sent, t) /\ network' = network \cup {t}
  <2>1. CASE sent = <<>>
    BY <2>1, FileConstants DEF SendPacket
  <2>2. CASE sent # <<>>
    <3>1. Last(sent) \in Nat
      BY <2>2 DEF TypeOK, Last
    <3> QED
      BY <2>2, <3>1, FileConstants DEF SendPacket
  <2> QED
    BY <2>1, <2>2
<1>2. sent' \in Seq(Nat)
  BY <1>1 DEF TypeOK
<1>3. Range(sent') = Range(sent) \cup {t}
  <2>1. /\ DOMAIN sent = 1 .. Len(sent) /\ DOMAIN sent' = 1 .. (Len(sent) + 1)
        /\ Len(sent) \in Nat
        /\ \A i \in 1 .. Len(sent) : sent'[i] = sent[i]
        /\ sent'[Len(sent) + 1] = t
    BY <1>1 DEF TypeOK
  <2> QED
    BY <2>1 DEF Range
<1>4. Seq(Range(sent)) \subseteq Seq(Range(sent'))
  BY <1>3
<1>5. /\ network' \in SUBSET Range(sent') /\ received' \in Seq(Range(sent'))
  BY <1>1, <1>3, <1>4 DEF TypeOK, SendPacket, audioVars
<1> QED
  BY <1>2, <1>5 DEF TypeOK, SendPacket, audioVars

(* Type correctness: the count of bytes and both sizes stay natural        *)
(* numbers, timestamps stay below the clock's wrap, and only what was sent *)
(* is received.                                                            *)
THEOREM TypeCorrect == Spec => []TypeOK
<1>1. Init => TypeOK
  BY FileConstants DEF Init, TypeOK, Unset, Range
<1>2. TypeOK /\ [Next]_vars => TypeOK'
  <2> SUFFICES ASSUME TypeOK, [Next]_vars PROVE TypeOK'
    OBVIOUS
  <2> USE DEF streamVars, audioVars
  <2>1. ASSUME NEW t \in network, HandleFrame(t) \/ HandleUndecodable(t)
        PROVE  TypeOK'
    <3>1. /\ t \in Nat
          /\ \E silence, pcm \in Nat : Handling(t, silence, pcm) /\ spoilt' \in Nat
      BY <2>1, HandlingSteps DEF TypeOK
    <3> QED
      BY <3>1, HandlingTyped
  <2>2. ASSUME NEW w \in writing, WriteEnds(w) \/ WriteFails(w) PROVE TypeOK'
    <3>1. w.bytes \in Nat
      BY DEF TypeOK
    <3>2. file' \in [audio : Nat, lost : Nat]
      <4>1. file \in [audio : Nat, lost : Nat]
        BY DEF TypeOK
      <4>2. \/ file' = [file EXCEPT !.audio = file.audio + w.bytes]
            \/ file' = [file EXCEPT !.lost = file.lost + w.bytes]
        BY <2>2, <4>1 DEF WriteEnds, WriteFails
      <4> QED
        BY <3>1, <4>1, <4>2
    <3>3. faults' \in 0 .. MaxFaults
      <4>1. faults \in 0 .. MaxFaults
        BY DEF TypeOK
      <4>2. faults' = faults \/ (faults < MaxFaults /\ faults' = faults + 1)
        BY <2>2 DEF WriteEnds, WriteFails
      <4> QED
        BY <4>1, <4>2, FileConstants
    <3> QED
      BY <2>2, <3>2, <3>3 DEF TypeOK, WriteEnds, WriteFails
  <2>3. ASSUME StartClosing \/ RemovePeer PROVE TypeOK'
    <3>1. session' \in [lastRtpTimestamp : 0 .. (ClockWrap - 1) \cup {Unset},
                        bytesWritten : Nat, closed : BOOLEAN]
      BY <2>3 DEF TypeOK, StartClosing, RemovePeer
    <3> QED
      BY <2>3, <3>1 DEF TypeOK, StartClosing, RemovePeer
  <2>4. ASSUME WriteRiffSize \/ WriteDataSize PROVE TypeOK'
    <3>1. session.bytesWritten \in Nat
      BY DEF TypeOK
    <3>2. session.bytesWritten + WavHeaderSize - 8 \in Nat
      BY <3>1, FileConstants
    <3>3. header' \in [riff : Nat, data : Nat]
      BY <2>4, <3>1, <3>2 DEF TypeOK, WriteRiffSize, WriteDataSize
    <3> QED
      BY <2>4, <3>3 DEF TypeOK, WriteRiffSize, WriteDataSize
  <2>5. CASE SizeFails
    BY <2>5, FileConstants DEF TypeOK, SizeFails
  <2>6. CASE CloseHandle
    BY <2>6 DEF TypeOK, CloseHandle
  <2>7. CASE UNCHANGED vars
    BY <2>7 DEF TypeOK, vars
  <2> QED
    BY <2>1, <2>2, <2>3, <2>4, <2>5, <2>6, <2>7, SendingTyped DEF Next
<1> QED
  BY <1>1, <1>2, PTL DEF Spec

-----------------------------------------------------------------------------
(***************************************************************************)
(* The count of bytes and the header.                                      *)
(***************************************************************************)
(* What has been counted is in the file, was lost by a failing write or is *)
(* being written; and a write under way starts below the count, so that a  *)
(* new one is never one of them.                                           *)
Counting ==
    /\ \A w \in writing : w.from < session.bytesWritten
    /\ \E n \in Nat : /\ Weighs(writing, n)
                     /\ session.bytesWritten = file.audio + file.lost + n

(* From its closing on a session counts nothing; each size that has been   *)
(* written is the count's, and the file is closed after the last write.    *)
Closing ==
    /\ closer # "open" => session.closed
    /\ closer \in {"data", "handle", "done"} =>
          header.riff = session.bytesWritten + WavHeaderSize - 8
    /\ closer \in {"handle", "done"} => header.data = session.bytesWritten
    /\ closer = "done" => writing = {}

FileInv == TypeOK /\ Counting /\ Closing

LEMMA Counts ==
    ASSUME TypeOK
    PROVE  /\ session.bytesWritten \in Nat
           /\ file.audio \in Nat /\ file.lost \in Nat
           /\ \A w \in writing : w.from \in Nat /\ w.bytes \in Nat /\ w.bytes # 0
BY DEF TypeOK

(* The silence and the frame of a packet are new writes, of their bytes    *)
(* together.                                                               *)
LEMMA NewWrites ==
    ASSUME TypeOK, NEW n \in Nat, Weighs(writing, n),
           \A w \in writing : w.from < session.bytesWritten,
           NEW silence \in Nat, NEW pcm \in Nat
    PROVE  Weighs(writing \cup Writes(silence, pcm), n + silence + pcm)
<1> DEFINE b == session.bytesWritten
           v == [from |-> b, bytes |-> silence]
           u == [from |-> b + silence, bytes |-> pcm]
           S == IF silence > 0 THEN writing \cup {v} ELSE writing
           T == IF pcm > 0 THEN S \cup {u} ELSE S
<1>1. b \in Nat /\ \A w \in writing : w.bytes \in Nat /\ w.from \in Nat /\ w.from < b
  BY Counts
<1>2. v \notin writing /\ u \notin writing
  BY <1>1
<1>3. u \notin S
  <2>1. silence > 0 => u # v
    BY <1>1
  <2> QED
    BY <1>2, <2>1
<1>4. v.bytes = silence /\ u.bytes = pcm
  OBVIOUS
<1>5. writing \cup Writes(silence, pcm) = T
  BY <1>4 DEF Writes
<1> HIDE DEF v, u
<1>6. Weighs(S, n + silence) /\ \A w \in S : w.bytes \in Nat
  <2>1. CASE silence > 0
    <3>1. Weighs(writing \cup {v}, n + silence)
      BY <1>1, <1>2, <1>4, OneMoreWrite
    <3> QED
      BY <1>1, <1>4, <2>1, <3>1
  <2>2. CASE ~ silence > 0
    BY <1>1, <2>2
  <2> QED
    BY <2>1, <2>2
<1> HIDE DEF S
<1>7. Weighs(T, n + silence + pcm)
  <2>1. CASE pcm > 0
    <3>1. n + silence \in Nat
      OBVIOUS
    <3>2. Weighs(S \cup {u}, (n + silence) + pcm)
      BY <1>3, <1>4, <1>6, <3>1, OneMoreWrite
    <3> QED
      BY <2>1, <3>2
  <2>2. CASE ~ pcm > 0
    BY <1>6, <2>2
  <2> QED
    BY <2>1, <2>2
<1> QED
  BY <1>5, <1>7

LEMMA HandlingCounts ==
    ASSUME FileInv, NEW t \in Nat, NEW silence \in Nat, NEW pcm \in Nat,
           Handling(t, silence, pcm)
    PROVE  Counting' /\ Closing'
<1>1. PICK n \in Nat : /\ Weighs(writing, n)
                       /\ session.bytesWritten = file.audio + file.lost + n
  BY DEF FileInv, Counting
<1>2. /\ session.bytesWritten \in Nat /\ file.audio \in Nat /\ file.lost \in Nat
      /\ \A w \in writing : w.from \in Nat /\ w.from < session.bytesWritten
  BY Counts DEF FileInv, Counting
<1>3. session'.bytesWritten = session.bytesWritten + silence + pcm
  BY DEF Handling, FileInv, TypeOK
<1>4. Weighs(writing', n + silence + pcm)
  BY <1>1, <1>2, NewWrites DEF Handling, FileInv
<1>5. \A w \in writing' : w.from < session'.bytesWritten
  BY <1>2, <1>3 DEF Handling, Writes
<1>6. file' = file /\ n + silence + pcm \in Nat
  BY DEF Handling
<1>7. Counting'
  BY <1>1, <1>2, <1>3, <1>4, <1>5, <1>6 DEF Counting
<1>8. closer = "open" /\ closer' = "open"
  BY DEF Handling, FileInv, Closing
<1> QED
  BY <1>7, <1>8 DEF Closing

LEMMA WriteCounts ==
    ASSUME FileInv, NEW w \in writing, WriteEnds(w) \/ WriteFails(w)
    PROVE  Counting' /\ Closing'
<1>1. PICK n \in Nat : /\ Weighs(writing, n)
                       /\ session.bytesWritten = file.audio + file.lost + n
  BY DEF FileInv, Counting
<1>2. /\ session.bytesWritten \in Nat /\ file.audio \in Nat /\ file.lost \in Nat
      /\ w.bytes \in Nat
  BY Counts DEF FileInv
<1>3. PICK m \in Nat : Weighs(writing \ {w}, m) /\ n = m + w.bytes
  BY <1>1, OneWriteLess
<1>4. writing' = writing \ {w} /\ UNCHANGED <<session, header, closer>>
  BY DEF WriteEnds, WriteFails, audioVars
<1>5. file'.audio + file'.lost = file.audio + file.lost + w.bytes
  <2>1. file \in [audio : Nat, lost : Nat]
    BY DEF FileInv, TypeOK
  <2>2. \/ file' = [file EXCEPT !.audio = file.audio + w.bytes]
        \/ file' = [file EXCEPT !.lost = file.lost + w.bytes]
    BY <2>1 DEF WriteEnds, WriteFails
  <2>3. \/ file'.audio = file.audio + w.bytes /\ file'.lost = file.lost
        \/ file'.audio = file.audio /\ file'.lost = file.lost + w.bytes
    BY <2>1, <2>2
  <2> QED
    BY <1>2, <2>3
<1>6. session.bytesWritten = file'.audio + file'.lost + m
  BY <1>1, <1>2, <1>3, <1>5
<1>7. Counting'
  BY <1>3, <1>4, <1>6 DEF FileInv, Counting
<1>8. Closing'
  BY <1>4 DEF FileInv, Closing
<1> QED
  BY <1>7, <1>8

LEMMA FileStep ==
    ASSUME FileInv, [Next]_vars
    PROVE  Counting' /\ Closing'
<1> USE DEF streamVars, audioVars
<1>0. /\ session \in [lastRtpTimestamp : 0 .. (ClockWrap - 1) \cup {Unset},
                       bytesWritten : Nat, closed : BOOLEAN]
      /\ header \in [riff : Nat, data : Nat]
  BY DEF FileInv, TypeOK
<1>1. ASSUME NEW t \in network, HandleFrame(t) \/ HandleUndecodable(t)
      PROVE  Counting' /\ Closing'
  <2>1. t \in Nat /\ \E silence, pcm \in Nat : Handling(t, silence, pcm)
    BY <1>1, HandlingSteps DEF FileInv
  <2> QED
    BY <2>1, HandlingCounts
<1>2. ASSUME NEW w \in writing, WriteEnds(w) \/ WriteFails(w)
      PROVE  Counting' /\ Closing'
  BY <1>2, WriteCounts
<1>3. ASSUME UNCHANGED <<writing, file>>, session'.bytesWritten = session.bytesWritten
      PROVE  Counting'
  BY <1>3 DEF FileInv, Counting
<1>4. ASSUME StartClosing \/ RemovePeer PROVE Counting' /\ Closing'
  <2>1. session'.bytesWritten = session.bytesWritten /\ session'.closed
    BY <1>0, <1>4 DEF StartClosing, RemovePeer
  <2>2. UNCHANGED <<writing, file, header>> /\ closer' \in {"riff", "removed"}
    BY <1>4 DEF StartClosing, RemovePeer
  <2> QED
    BY <1>3, <2>1, <2>2 DEF Closing
<1>5. ASSUME WriteRiffSize PROVE Counting' /\ Closing'
  <2>1. /\ header'.riff = session.bytesWritten + WavHeaderSize - 8
        /\ closer = "riff" /\ closer' = "data"
        /\ UNCHANGED <<session, writing, file>>
    BY <1>0, <1>5 DEF WriteRiffSize
  <2> QED
    BY <1>3, <2>1 DEF FileInv, Closing
<1>6. ASSUME WriteDataSize PROVE Counting' /\ Closing'
  <2>1. /\ header'.riff = header.riff /\ header'.data = session.bytesWritten
        /\ closer = "data" /\ closer' = "handle"
        /\ UNCHANGED <<session, writing, file>>
    BY <1>0, <1>6 DEF WriteDataSize
  <2> QED
    BY <1>3, <2>1 DEF FileInv, Closing
<1>7. ASSUME SizeFails PROVE Counting' /\ Closing'
  BY <1>3, <1>7 DEF SizeFails, FileInv, Closing
<1>8. ASSUME CloseHandle PROVE Counting' /\ Closing'
  BY <1>3, <1>8 DEF CloseHandle, FileInv, Closing
<1>9. ASSUME SendPacket \/ UNCHANGED vars PROVE Counting' /\ Closing'
  <2>1. UNCHANGED <<session, writing, file, header, closer>>
    BY <1>9 DEF SendPacket, vars
  <2> QED
    BY <1>3, <2>1 DEF FileInv, Closing
<1> QED
  BY <1>1, <1>2, <1>4, <1>5, <1>6, <1>7, <1>8, <1>9 DEF Next

LEMMA FileInvariant == Spec => []FileInv
<1>1. Init => Counting /\ Closing
  <2> SUFFICES ASSUME Init PROVE Counting /\ Closing
    OBVIOUS
  <2>1. /\ session.bytesWritten = 0 /\ file.audio = 0 /\ file.lost = 0
        /\ writing = {} /\ closer = "open"
    BY DEF Init
  <2>2. Counting
    BY <2>1, NothingWeighsNothing DEF Counting
  <2> QED
    BY <2>1, <2>2 DEF Closing
<1>2. FileInv /\ [Next]_vars => Counting' /\ Closing'
  BY FileStep
<1> QED
  BY <1>1, <1>2, TypeCorrect, PTL DEF Spec, FileInv

(* The count of bytes is kept up with writes that nobody awaits and that   *)
(* end in any order or fail: once they have ended it is what the file      *)
(* holds and what was lost.                                                *)
THEOREM CountIsExact == Spec => []CountMatchesWrites
<1>1. FileInv => CountMatchesWrites
  <2> SUFFICES ASSUME FileInv, writing = {}
               PROVE  session.bytesWritten = file.audio + file.lost
    BY DEF CountMatchesWrites
  <2>1. PICK n \in Nat : /\ Weighs({}, n)
                         /\ session.bytesWritten = file.audio + file.lost + n
    BY DEF FileInv, Counting
  <2>2. n = 0
    BY <2>1, NothingWeighsNothing
  <2> QED
    BY <2>1, <2>2, Counts DEF FileInv
<1> QED
  BY <1>1, FileInvariant, PTL

(* The header of a session that was closed the ordinary way gives the      *)
(* bytes that follow it, whatever packets and writes the closing raced.    *)
THEOREM HeaderIsExact == Spec => []HeaderMatchesFile
<1>1. FileInv /\ CountMatchesWrites => HeaderMatchesFile
  BY DEF FileInv, Closing, CountMatchesWrites, HeaderMatchesFile
<1> QED
  BY <1>1, FileInvariant, CountIsExact, PTL

-----------------------------------------------------------------------------
(***************************************************************************)
(* The clock.                                                              *)
(***************************************************************************)
(* Packets are sent a frame or more apart, each after those before.        *)
Spacing ==
    /\ \A a, b \in Range(sent) : a < b => OpusFrameSamples <= b - a
    /\ sent # <<>> => \A a \in Range(sent) : a <= Last(sent)

(* The session knows the time of the last packet up to a turn of the       *)
(* clock, and counts whole samples.                                        *)
ClockIsLast ==
    /\ received = <<>> => /\ session.lastRtpTimestamp = Unset
                          /\ session.bytesWritten = 0
    /\ received # <<>> =>
          session.lastRtpTimestamp = Last(received) % ClockWrap
    /\ \E n \in Nat : session.bytesWritten = BytesPerSample * n

TimeInv == TypeOK /\ Spacing /\ ClockIsLast

LEMMA Sequences ==
    ASSUME NEW S, NEW s \in Seq(S), NEW t \in S
    PROVE  /\ Len(Append(s, t)) = Len(s) + 1 /\ Len(s) \in Nat
           /\ Append(s, t) # <<>>
           /\ Last(Append(s, t)) = t
           /\ Append(s, t)[Len(s) + 1] = t
           /\ \A i \in 1 .. Len(s) : Append(s, t)[i] = s[i]
           /\ s # <<>> => /\ Last(s) = s[Len(s)] /\ Last(s) \in S
                          /\ Head(Append(s, t)) = Head(s) /\ Head(s) \in S
                          /\ 1 <= Len(s)
           /\ s = <<>> => Head(Append(s, t)) = t /\ Len(s) = 0
<1>1. /\ Len(Append(s, t)) = Len(s) + 1 /\ Len(s) \in Nat
      /\ Append(s, t)[Len(s) + 1] = t
      /\ \A i \in 1 .. Len(s) : Append(s, t)[i] = s[i]
  OBVIOUS
<1>2. Append(s, t) # <<>>
  BY <1>1
<1>3. Last(Append(s, t)) = t
  BY <1>1 DEF Last
<1>4. ASSUME s # <<>>
      PROVE  /\ Last(s) = s[Len(s)] /\ Last(s) \in S
             /\ Head(Append(s, t)) = Head(s) /\ Head(s) \in S
             /\ 1 <= Len(s)
  <2>1. Len(s) \in 1 .. Len(s) /\ 1 \in 1 .. Len(s)
    BY <1>4
  <2>2. Last(s) = s[Len(s)] /\ Last(s) \in S
    BY <2>1 DEF Last
  <2>3. Head(s) = s[1] /\ Head(Append(s, t)) = Append(s, t)[1] /\ s[1] \in S
    BY <1>2, <1>4, <2>1
  <2> QED
    BY <1>1, <2>1, <2>2, <2>3
<1>5. s = <<>> => Head(Append(s, t)) = t /\ Len(s) = 0
  OBVIOUS
<1> QED
  BY <1>1, <1>2, <1>3, <1>4, <1>5

LEMMA RangeOfAppend ==
    ASSUME NEW S, NEW s \in Seq(S), NEW t \in S
    PROVE  Range(Append(s, t)) = Range(s) \cup {t}
<1>1. /\ DOMAIN s = 1 .. Len(s) /\ DOMAIN Append(s, t) = 1 .. (Len(s) + 1)
      /\ Len(s) \in Nat
      /\ \A i \in 1 .. Len(s) : Append(s, t)[i] = s[i]
      /\ Append(s, t)[Len(s) + 1] = t
  OBVIOUS
<1> QED
  BY <1>1 DEF Range

LEMMA SentAreTimes ==
    ASSUME TypeOK
    PROVE  /\ Range(sent) \subseteq Nat
           /\ sent # <<>> => Last(sent) \in Nat /\ Last(sent) \in Range(sent)
<1>1. Range(sent) \subseteq Nat
  BY DEF TypeOK, Range
<1>2. ASSUME sent # <<>> PROVE Last(sent) \in Nat /\ Last(sent) \in Range(sent)
  <2>1. Len(sent) \in 1 .. Len(sent) /\ DOMAIN sent = 1 .. Len(sent)
    BY <1>2 DEF TypeOK
  <2> QED
    BY <1>1, <2>1 DEF Last, Range
<1> QED
  BY <1>1, <1>2

LEMMA SpacingStep ==
    ASSUME TypeOK, Spacing, [Next]_vars
    PROVE  Spacing'
<1>1. CASE SendPacket
  <2>1. PICK t \in Nat : /\ sent' = Append(sent, t)
                         /\ sent # <<>> => Last(sent) + OpusFrameSamples <= t
    <3>1. CASE sent = <<>>
      BY <1>1, <3>1, FileConstants DEF SendPacket
    <3>2. CASE sent # <<>>
      <4>1. PICK d \in Pauses : sent' = Append(sent, Last(sent) + d)
        BY <1>1, <3>2 DEF SendPacket
      <4>2. d \in Nat /\ OpusFrameSamples <= d /\ OpusFrameSamples \in Nat
        BY <4>1, FileConstants
      <4>3. Last(sent) \in Nat
        BY <3>2, SentAreTimes
      <4> QED
        BY <4>1, <4>2, <4>3
    <3> QED
      BY <3>1, <3>2
  <2>2. Range(sent') = Range(sent) \cup {t}
    BY <2>1, RangeOfAppend DEF TypeOK
  <2>3. Last(sent') = t
    BY <2>1, Sequences DEF TypeOK
  <2>4. \A a \in Range(sent) : a \in Nat /\ a + OpusFrameSamples <= t
    <3>1. sent = <<>> => Range(sent) = {}
      BY DEF Range
    <3>2. ASSUME NEW a \in Range(sent) PROVE a \in Nat /\ a + OpusFrameSamples <= t
      <4>1. a \in Nat /\ sent # <<>> /\ Last(sent) \in Nat
        BY <3>1, <3>2, SentAreTimes
      <4>2. a <= Last(sent) /\ Last(sent) + OpusFrameSamples <= t
        BY <2>1, <3>2, <4>1 DEF Spacing
      <4> QED
        BY <2>1, <4>1, <4>2, FileConstants
    <3> QED
      BY <3>2
  <2>5. OpusFrameSamples \in Nat \ {0}
    BY FileConstants
  <2>6. \A a, b \in Range(sent') : a < b => OpusFrameSamples <= b - a
    BY <2>1, <2>2, <2>4, <2>5 DEF Spacing
  <2>7. \A a \in Range(sent') : a <= Last(sent')
    BY <2>1, <2>2, <2>3, <2>4, <2>5
  <2> QED
    BY <2>6, <2>7 DEF Spacing
<1>2. CASE ~ SendPacket
  <2>1. sent' = sent
    BY <1>2 DEF Next, HandleFrame, HandleUndecodable, Handle, WriteEnds,
        WriteFails, StartClosing, WriteRiffSize, WriteDataSize, SizeFails,
        RemovePeer, CloseHandle, vars, streamVars
  <2> QED
    BY <2>1 DEF Spacing
<1> QED
  BY <1>1, <1>2

(* Only the handling of a packet moves the clock and the count.            *)
LEMMA CountAndClockRest ==
    ASSUME TypeOK, [Next]_vars,
           \A t \in network : ~ HandleFrame(t) /\ ~ HandleUndecodable(t)
    PROVE  /\ UNCHANGED <<received, spoilt>>
           /\ session'.lastRtpTimestamp = session.lastRtpTimestamp
           /\ session'.bytesWritten = session.bytesWritten
<1>1. session \in [lastRtpTimestamp : 0 .. (ClockWrap - 1) \cup {Unset},
                   bytesWritten : Nat, closed : BOOLEAN]
  BY DEF TypeOK
<1>2. UNCHANGED <<received, spoilt>>
  BY DEF Next, SendPacket, WriteEnds, WriteFails, StartClosing, WriteRiffSize,
      WriteDataSize, SizeFails, RemovePeer, CloseHandle, vars, audioVars
<1>3. session' = session \/ session' = [session EXCEPT !.closed = TRUE]
  BY DEF Next, SendPacket, WriteEnds, WriteFails, StartClosing, WriteRiffSize,
      WriteDataSize, SizeFails, RemovePeer, CloseHandle, vars, audioVars
<1> QED
  BY <1>1, <1>2, <1>3

(* Silence and frames are whole samples.                                   *)
LEMMA WholeBytes ==
    /\ FrameBytes = BytesPerSample * TargetFrameSamples
    /\ \A gap \in Nat :
          LET n == (gap * TargetFrameSamples) \div OpusFrameSamples
          IN  n \in Nat /\ SilenceBytes(gap) = BytesPerSample * n
<1>1. BytesPerSample \in Nat /\ TargetFrameSamples \in Nat
  BY FileConstants
<1>2. FrameBytes = BytesPerSample * TargetFrameSamples
  BY <1>1 DEF FrameBytes
<1>3. ASSUME NEW gap \in Nat
      PROVE  LET n == (gap * TargetFrameSamples) \div OpusFrameSamples
             IN  n \in Nat /\ SilenceBytes(gap) = BytesPerSample * n
  <2> DEFINE n == (gap * TargetFrameSamples) \div OpusFrameSamples
  <2>1. n \in Nat
    BY FileConstants, Products, Quotients
  <2>2. SilenceBytes(gap) = n * BytesPerSample
    BY DEF SilenceBytes
  <2> HIDE DEF n
  <2>3. n * BytesPerSample = BytesPerSample * n
    BY <1>1, <2>1
  <2> QED
    BY <2>1, <2>2, <2>3 DEF n
<1> QED
  BY <1>2, <1>3

(* What the code computes from the timestamps is the time that passed.     *)
LEMMA GapIsPassed ==
    ASSUME TimeInv, NEW t \in network, received # <<>>
    PROVE  LET last == Last(received)
           IN  /\ t \in Nat /\ last \in Nat
               /\ t \in Range(sent) /\ last \in Range(sent)
               /\ session.lastRtpTimestamp # Unset
               /\ Gap(t % ClockWrap) \in Nat
               /\ 0 <= t - last /\ t - last < ClockWrap
                     => Gap(t % ClockWrap) = t - last
               /\ -ClockWrap <= t - last /\ t - last < 0
                     => Gap(t % ClockWrap) = ClockWrap + (t - last)
<1> DEFINE last == Last(received)
<1>1. t \in Range(sent) /\ last \in Range(sent)
  BY Sequences DEF TimeInv, TypeOK
<1>2. t \in Nat /\ last \in Nat
  BY <1>1, SentAreTimes DEF TimeInv
<1>3. ClockWrap \in Nat \ {0}
  BY ClockRuns
<1>4. session.lastRtpTimestamp = last % ClockWrap
  BY DEF TimeInv, ClockIsLast
<1> HIDE DEF last
<1>5. session.lastRtpTimestamp # Unset
  BY <1>2, <1>3, <1>4, Quotients DEF Unset
<1>6. Gap(t % ClockWrap) = (t - last) % ClockWrap
  BY <1>2, <1>3, <1>4, DifferenceOfRemainders DEF Gap
<1>7. t - last \in Int
  BY <1>2
<1>8. Gap(t % ClockWrap) \in Nat
  <2>1. (t - last) % ClockWrap \in 0 .. (ClockWrap - 1)
    BY <1>3, <1>7, Division
  <2> QED
    BY <1>3, <1>6, <2>1
<1> QED
  BY <1>1, <1>2, <1>3, <1>5, <1>6, <1>7, <1>8, ShortDifferences DEF last

LEMMA ClockStep ==
    ASSUME TimeInv, [Next]_vars
    PROVE  ClockIsLast'
<1>1. ASSUME NEW t \in network, HandleFrame(t) \/ HandleUndecodable(t)
      PROVE  ClockIsLast'
  <2>1. PICK silence \in Nat, pcm \in Nat :
           /\ Handling(t, silence, pcm)
           /\ pcm = FrameBytes \/ pcm = 0
           /\ silence = SilenceBefore(t % ClockWrap)
    BY <1>1, HandlingSteps DEF TimeInv
  <2>2. received' = Append(received, t) /\ t \in Range(sent)
    BY <2>1 DEF Handling, TimeInv, TypeOK
  <2>3. received' # <<>> /\ Last(received') = t
    BY <2>2, Sequences DEF TimeInv, TypeOK
  <2>4. /\ session'.lastRtpTimestamp = t % ClockWrap
        /\ session'.bytesWritten = session.bytesWritten + silence + pcm
    BY <2>1 DEF Handling, TimeInv, TypeOK
  <2>5. PICK n \in Nat : session.bytesWritten = BytesPerSample * n
    BY DEF TimeInv, ClockIsLast
  <2>6. BytesPerSample \in Nat /\ TargetFrameSamples \in Nat
    BY FileConstants
  <2>7. \E m \in Nat : silence = BytesPerSample * m
    <3>1. CASE silence = 0
      BY <2>6, <3>1
    <3>2. CASE silence # 0
      <4>1. received # <<>>
        BY <2>1, <3>2 DEF TimeInv, ClockIsLast, SilenceBefore
      <4>2. silence = SilenceBytes(Gap(t % ClockWrap))
        BY <2>1, <3>2 DEF SilenceBefore
      <4> QED
        BY <4>1, <4>2, GapIsPassed, WholeBytes
    <3> QED
      BY <3>1, <3>2
  <2>8. \E m \in Nat : pcm = BytesPerSample * m
    <3>1. 0 = BytesPerSample * 0
      BY <2>6
    <3> QED
      BY <2>1, <2>6, <3>1, WholeBytes
  <2>9. \E m \in Nat : session'.bytesWritten = BytesPerSample * m
    <3>1. PICK m1 \in Nat, m2 \in Nat :
             silence = BytesPerSample * m1 /\ pcm = BytesPerSample * m2
      BY <2>7, <2>8
    <3>2. session'.bytesWritten = BytesPerSample * (n + m1 + m2)
      BY <2>4, <2>5, <2>6, <3>1
    <3> QED
      BY <3>2
  <2> QED
    BY <2>3, <2>4, <2>9 DEF ClockIsLast
<1>2. ASSUME \A t \in network : ~ HandleFrame(t) /\ ~ HandleUndecodable(t)
      PROVE  ClockIsLast'
  BY <1>2, CountAndClockRest DEF TimeInv, ClockIsLast
<1> QED
  BY <1>1, <1>2

LEMMA TimeInvariant == Spec => []TimeInv
<1>1. Init => Spacing /\ ClockIsLast
  <2> SUFFICES ASSUME Init PROVE Spacing /\ ClockIsLast
    OBVIOUS
  <2>1. BytesPerSample * 0 = 0
    BY FileConstants
  <2> QED
    BY <2>1 DEF Init, Spacing, ClockIsLast, Range
<1>2. TimeInv /\ [Next]_vars => Spacing' /\ ClockIsLast'
  BY SpacingStep, ClockStep DEF TimeInv
<1> QED
  BY <1>1, <1>2, TypeCorrect, PTL DEF Spec, TimeInv

-----------------------------------------------------------------------------
(***************************************************************************)
(* The file keeps time.                                                    *)
(***************************************************************************)
(* So many samples, with so many gaps among them, stand for so much time.  *)
StandsFor(samples, gaps, passed) ==
    LET perSample == OpusFrameSamples \div TargetFrameSamples
    IN  /\ passed <= perSample * (samples + gaps)
        /\ perSample * samples <= passed + gaps * OpusFrameSamples

InOrder == /\ received # <<>>
           /\ spoilt = 0
           /\ \A d \in Steps : 0 < d /\ d < MaxSilenceGapTicks

WholeTicks == OpusFrameSamples % TargetFrameSamples = 0

LEMMA FirstFrame ==
    ASSUME WholeTicks
    PROVE  StandsFor(TargetFrameSamples, 0, OpusFrameSamples)
<1> DEFINE p == OpusFrameSamples \div TargetFrameSamples
<1>1. /\ p \in Nat \ {0} /\ OpusFrameSamples = TargetFrameSamples * p
      /\ TargetFrameSamples \in Nat
  BY FileConstants, WholeSamples DEF WholeTicks
<1> HIDE DEF p
<1>2. OpusFrameSamples <= p * (TargetFrameSamples + 0)
  BY <1>1
<1>3. p * TargetFrameSamples <= OpusFrameSamples + 0 * OpusFrameSamples
  BY <1>1
<1> QED
  BY <1>2, <1>3 DEF StandsFor, p

LEMMA AnotherFrame ==
    ASSUME WholeTicks, NEW n \in Nat, NEW c \in Nat, NEW passed \in Int,
           StandsFor(n, c, passed), NEW d \in Nat
    PROVE  /\ d = OpusFrameSamples =>
                 StandsFor(n + TargetFrameSamples, c, passed + d)
           /\ StandsFor(n + ((d * TargetFrameSamples) \div OpusFrameSamples)
                          + TargetFrameSamples, c + 1, passed + d)
<1> DEFINE p == OpusFrameSamples \div TargetFrameSamples
           m == d \div p
           r == d % p
<1>1. /\ p \in Nat \ {0} /\ OpusFrameSamples = TargetFrameSamples * p
      /\ (d * TargetFrameSamples) \div OpusFrameSamples = m
      /\ TargetFrameSamples \in Nat
  <2>1. /\ OpusFrameSamples \in Nat \ {0} /\ TargetFrameSamples \in Nat \ {0}
        /\ OpusFrameSamples % TargetFrameSamples = 0
    BY FileConstants DEF WholeTicks
  <2>2. \A g \in Nat : (g * TargetFrameSamples) \div OpusFrameSamples =
                            g \div (OpusFrameSamples \div TargetFrameSamples)
    BY <2>1, WholeSamples, Zenon
  <2>3. /\ OpusFrameSamples \div TargetFrameSamples \in Nat \ {0}
        /\ OpusFrameSamples =
              TargetFrameSamples * (OpusFrameSamples \div TargetFrameSamples)
    BY <2>1, WholeSamples, Zenon
  <2> QED
    BY <2>1, <2>2, <2>3
<1>2. p * (n + c) \in Int /\ p * n \in Int /\ c * OpusFrameSamples \in Int
  <2>1. OpusFrameSamples \in Nat /\ p \in Nat
    BY <1>1, FileConstants
  <2> HIDE DEF p
  <2> QED
    BY <2>1
<1>3. passed <= p * (n + c) /\ p * n <= passed + c * OpusFrameSamples
  BY DEF StandsFor
<1> HIDE DEF p
<1>4. d = p * m + r /\ m \in Int /\ r \in 0 .. (p - 1)
  BY <1>1, Division
<1> HIDE DEF m, r
<1>5. ASSUME d = OpusFrameSamples
      PROVE  StandsFor(n + TargetFrameSamples, c, passed + d)
  <2>1. p * (n + TargetFrameSamples + c) = p * (n + c) + OpusFrameSamples
    BY <1>1
  <2>2. p * (n + TargetFrameSamples) = p * n + OpusFrameSamples
    BY <1>1
  <2> QED
    BY <1>1, <1>2, <1>3, <1>5, <2>1, <2>2 DEF StandsFor, p
<1>6. StandsFor(n + m + TargetFrameSamples, c + 1, passed + d)
  <2>1. p * m \in Int /\ p * TargetFrameSamples = OpusFrameSamples
        /\ OpusFrameSamples \in Nat
    BY <1>1, <1>4, FileConstants
  <2>2. p * ((n + m + TargetFrameSamples) + (c + 1)) =
            p * (n + c) + p * m + OpusFrameSamples + p
    BY <1>1, <1>4
  <2>3. p * (n + m + TargetFrameSamples) = p * n + p * m + OpusFrameSamples
    BY <1>1, <1>4
  <2>4. (c + 1) * OpusFrameSamples = c * OpusFrameSamples + OpusFrameSamples
    BY <2>1
  <2>5. passed + d <= p * ((n + m + TargetFrameSamples) + (c + 1))
    BY <1>1, <1>2, <1>3, <1>4, <2>1, <2>2
  <2>6. p * (n + m + TargetFrameSamples)
            <= (passed + d) + (c + 1) * OpusFrameSamples
    BY <1>1, <1>2, <1>3, <1>4, <2>1, <2>3, <2>4
  <2> QED
    BY <2>5, <2>6 DEF StandsFor, p
<1> QED
  BY <1>1, <1>5, <1>6

LEMMA BytesOfSamples ==
    ASSUME NEW n \in Nat
    PROVE  (BytesPerSample * n) \div BytesPerSample = n
<1>1. BytesPerSample \in Nat \ {0} /\ 0 \in 0 .. (BytesPerSample - 1)
  BY FileConstants
<1>2. (BytesPerSample * n + 0) \div BytesPerSample = n
  BY <1>1, Remainder
<1>3. BytesPerSample * n + 0 = BytesPerSample * n
  BY <1>1
<1> QED
  BY <1>2, <1>3

(* What a packet adds to the gaps and to the steps.                        *)
LEMMA StepsAndGaps ==
    ASSUME TypeOK, NEW t \in Nat, t \in Range(sent), received # <<>>,
           received' = Append(received, t)
    PROVE  LET d == t - Last(received)
           IN  /\ Steps' = Steps \cup {d}
               /\ Gaps' = IF d > OpusFrameSamples
                          THEN Gaps \cup {Len(received)} ELSE Gaps
               /\ Len(received) \notin Gaps
               /\ IsFiniteSet(Gaps)
<1> DEFINE n == Len(received)
           d == t - Last(received)
<1>1. /\ n \in Nat /\ 1 <= n /\ Len(received') = n + 1
      /\ received'[n + 1] = t /\ Last(received) = received[n]
      /\ \A i \in 1 .. n : received'[i] = received[i]
  BY Sequences DEF TypeOK
<1> HIDE DEF n
<1>2. Len(received) = n
  BY DEF n
<1>3. \A i \in 1 .. (n - 1) : received'[i + 1] - received'[i]
                                 = received[i + 1] - received[i]
  BY <1>1
<1>4. received'[n + 1] - received'[n] = d
  BY <1>1
<1> HIDE DEF d
<1>5. 1 .. n = (1 .. (n - 1)) \cup {n}
  BY <1>1
<1>6. Steps' = {received'[i + 1] - received'[i] : i \in 1 .. n}
  BY <1>1 DEF Steps
<1>7. Steps' = Steps \cup {d}
  BY <1>2, <1>3, <1>4, <1>5, <1>6 DEF Steps
<1>8. Gaps' = {i \in 1 .. n : received'[i + 1] - received'[i] > OpusFrameSamples}
  BY <1>1 DEF Gaps
<1>9. Gaps = {i \in 1 .. (n - 1) : received[i + 1] - received[i] > OpusFrameSamples}
  BY <1>2 DEF Gaps
<1>10. d > OpusFrameSamples => Gaps' = Gaps \cup {n}
  BY <1>3, <1>4, <1>5, <1>8, <1>9
<1>11. ~ d > OpusFrameSamples => Gaps' = Gaps
  BY <1>3, <1>4, <1>5, <1>8, <1>9
<1>12. n \notin Gaps
  BY <1>1, <1>9
<1>13. IsFiniteSet(Gaps)
  <2>1. n - 1 \in Int /\ 1 \in Int
    BY <1>1
  <2>2. IsFiniteSet(1 .. (n - 1))
    BY <2>1, FS_Interval
  <2>3. Gaps \subseteq 1 .. (n - 1)
    BY <1>9
  <2> QED
    BY <2>2, <2>3, FS_Subset
<1> QED
  BY <1>2, <1>7, <1>10, <1>11, <1>12, <1>13 DEF d

LEMMA FirstPacketKeepsTime ==
    ASSUME TimeInv, WholeTicks, received = <<>>,
           NEW t \in network, t \in Nat, Handling(t, 0, FrameBytes),
           TypeOK', InOrder'
    PROVE  FileKeepsTime'
<1>1. received' = <<t>>
  BY DEF Handling
<1>2. session.bytesWritten = 0
  BY DEF TimeInv, ClockIsLast
<1>3. session'.bytesWritten = 0 + 0 + FrameBytes
  BY <1>2 DEF Handling, TimeInv, TypeOK
<1>4. session'.bytesWritten = BytesPerSample * TargetFrameSamples
  BY <1>3, WholeBytes, BytesAreNatural
<1>5. Last(received') = t /\ Head(received') = t
  BY <1>1 DEF Last
<1>6. Gaps' = {}
  BY <1>1 DEF Gaps
<1>7. Cardinality(Gaps') = 0
  BY <1>6, FS_EmptySet
<1>8. Last(received') - Head(received') + OpusFrameSamples = OpusFrameSamples
  BY <1>5, FileConstants
<1>9. TargetFrameSamples \in Nat
  BY FileConstants
<1>10. session'.bytesWritten \div BytesPerSample = TargetFrameSamples
  BY <1>4, <1>9, BytesOfSamples
<1> QED
  BY <1>7, <1>8, <1>10, FirstFrame DEF StandsFor, FileKeepsTime

LEMMA NextPacketKeepsTime ==
    ASSUME TimeInv, WholeTicks, FileKeepsTime, received # <<>>,
           NEW t \in network, NEW silence \in Nat,
           Handling(t, silence, FrameBytes), spoilt' = spoilt,
           silence = SilenceBefore(t % ClockWrap), InOrder'
    PROVE  FileKeepsTime'
<1> DEFINE d == t - Last(received)
           passed == Last(received) - Head(received) + OpusFrameSamples
           c == Cardinality(Gaps)
           m == (d * TargetFrameSamples) \div OpusFrameSamples
<1>1. /\ t \in Nat /\ Last(received) \in Nat
      /\ t \in Range(sent) /\ Last(received) \in Range(sent)
      /\ session.lastRtpTimestamp # Unset
      /\ 0 <= d /\ d < ClockWrap => Gap(t % ClockWrap) = d
  BY GapIsPassed
<1>2. received' = Append(received, t)
  BY DEF Handling
<1>3. /\ Steps' = Steps \cup {d}
      /\ d > OpusFrameSamples => Gaps' = Gaps \cup {Len(received)}
      /\ ~ d > OpusFrameSamples => Gaps' = Gaps
      /\ Len(received) \notin Gaps /\ IsFiniteSet(Gaps)
  BY <1>1, <1>2, StepsAndGaps DEF TimeInv
<1>4. InOrder /\ 0 < d /\ d < MaxSilenceGapTicks
  BY <1>3 DEF InOrder
<1>5. /\ OpusFrameSamples \in Nat \ {0} /\ MaxSilenceGapTicks \in Nat
      /\ MaxSilenceGapTicks < ClockWrap /\ ClockWrap \in Nat
      /\ TargetFrameSamples \in Nat /\ BytesPerSample \in Nat
  BY FileConstants, ClockRuns
<1>6. d \in Nat /\ Gap(t % ClockWrap) = d /\ OpusFrameSamples <= d
  BY <1>1, <1>4, <1>5 DEF TimeInv, Spacing
<1>7. c \in Nat
  BY <1>3, FS_CardinalityType
<1>8. PICK n \in Nat : session.bytesWritten = BytesPerSample * n
  BY DEF TimeInv, ClockIsLast
<1>9. session.bytesWritten \div BytesPerSample = n
  BY <1>8, BytesOfSamples
<1>10. StandsFor(n, c, passed)
  BY <1>4, <1>9 DEF StandsFor, FileKeepsTime, InOrder
<1>11. Head(received) \in Nat /\ Head(received') = Head(received) /\ Last(received') = t
  <2>1. Head(received) \in Range(sent) /\ Head(received') = Head(received)
        /\ Last(received') = t
    BY <1>1, <1>2, Sequences DEF TimeInv, TypeOK
  <2> QED
    BY <2>1, SentAreTimes DEF TimeInv
<1>12. /\ passed \in Int
       /\ Last(received') - Head(received') + OpusFrameSamples = passed + d
  BY <1>1, <1>5, <1>11
<1>13. session'.bytesWritten = session.bytesWritten + silence + FrameBytes
  BY DEF Handling, TimeInv, TypeOK
<1>14. /\ m \in Nat
       /\ SilenceBytes(d) = BytesPerSample * m
       /\ FrameBytes = BytesPerSample * TargetFrameSamples
  BY <1>6, WholeBytes
<1> HIDE DEF d, passed, c, m
<1>15. CASE d > OpusFrameSamples
  <2>1. silence = BytesPerSample * m
    BY <1>1, <1>4, <1>6, <1>14, <1>15 DEF SilenceBefore, NeedsSilence
  <2>2. session'.bytesWritten = BytesPerSample * (n + m + TargetFrameSamples)
    BY <1>5, <1>8, <1>13, <1>14, <2>1
  <2>3. n + m + TargetFrameSamples \in Nat
    BY <1>5, <1>14
  <2>4. session'.bytesWritten \div BytesPerSample = n + m + TargetFrameSamples
    BY <2>2, <2>3, BytesOfSamples
  <2>5. Cardinality(Gaps') = c + 1
    BY <1>3, <1>15, FS_AddElement DEF c
  <2>6. StandsFor(n + m + TargetFrameSamples, c + 1, passed + d)
    BY <1>6, <1>7, <1>10, <1>12, AnotherFrame DEF m
  <2> QED
    BY <1>12, <2>4, <2>5, <2>6 DEF StandsFor, FileKeepsTime
<1>16. CASE ~ d > OpusFrameSamples
  <2>1. d = OpusFrameSamples
    BY <1>5, <1>6, <1>16
  <2>2. silence = 0
    BY <1>1, <1>6, <1>16 DEF SilenceBefore, NeedsSilence
  <2>3. session'.bytesWritten = BytesPerSample * (n + TargetFrameSamples)
    BY <1>5, <1>8, <1>13, <1>14, <2>2
  <2>4. n + TargetFrameSamples \in Nat
    BY <1>5
  <2>5. session'.bytesWritten \div BytesPerSample = n + TargetFrameSamples
    BY <2>3, <2>4, BytesOfSamples
  <2>6. Cardinality(Gaps') = c
    BY <1>3, <1>16 DEF c
  <2>7. StandsFor(n + TargetFrameSamples, c, passed + d)
    BY <1>6, <1>7, <1>10, <1>12, <2>1, AnotherFrame
  <2> QED
    BY <1>12, <2>5, <2>6, <2>7 DEF StandsFor, FileKeepsTime
<1> QED
  BY <1>15, <1>16

(* Where a frame is a whole number of ticks to a sample (960 to 320, as    *)
(* 48000 to 16000 Hz), a stream that comes in order and without a gap of   *)
(* the limit makes a file that is as long as the stream, up to a frame for *)
(* each gap: the silence that is computed from timestamps which wrap       *)
(* neither piles up nor is missing.                                        *)
THEOREM TimeIsKept ==
    ASSUME OpusFrameSamples % TargetFrameSamples = 0
    PROVE  Spec => []FileKeepsTime
<1>0. WholeTicks
  BY DEF WholeTicks
<1>1. Init => FileKeepsTime
  BY DEF Init, FileKeepsTime
<1>2. TimeInv /\ TimeInv' /\ FileKeepsTime /\ [Next]_vars => FileKeepsTime'
  <2> SUFFICES ASSUME TimeInv, TimeInv', FileKeepsTime, [Next]_vars
               PROVE  FileKeepsTime'
    OBVIOUS
  <2>1. ASSUME NEW t \in network, HandleFrame(t) \/ HandleUndecodable(t), InOrder'
        PROVE  FileKeepsTime'
    <3>1. spoilt \in Nat /\ spoilt' = 0
      BY <2>1 DEF TimeInv, TypeOK, InOrder
    <3>2. PICK silence \in Nat : /\ t \in Nat
                                 /\ Handling(t, silence, FrameBytes)
                                 /\ spoilt' = spoilt
                                 /\ silence = SilenceBefore(t % ClockWrap)
      BY <2>1, <3>1, HandlingSteps DEF TimeInv
    <3>3. CASE received = <<>>
      <4>1. silence = 0
        BY <3>2, <3>3 DEF SilenceBefore, TimeInv, ClockIsLast
      <4> QED
        BY <1>0, <2>1, <3>2, <3>3, <4>1, FirstPacketKeepsTime DEF TimeInv
    <3>4. CASE received # <<>>
      BY <1>0, <2>1, <3>2, <3>4, NextPacketKeepsTime
    <3> QED
      BY <3>3, <3>4
  <2>2. ASSUME \A t \in network : ~ HandleFrame(t) /\ ~ HandleUndecodable(t)
        PROVE  FileKeepsTime'
    BY <2>2, CountAndClockRest DEF FileKeepsTime, Steps, Gaps, TimeInv
  <2>3. ~ InOrder' => FileKeepsTime'
    BY DEF InOrder, FileKeepsTime
  <2> QED
    BY <2>1, <2>2, <2>3
<1> QED
  BY <1>1, <1>2, TimeInvariant, PTL DEF Spec

-----------------------------------------------------------------------------
(***************************************************************************)
(* Silence is of time.                                                     *)
(***************************************************************************)
(* No two packets of the stream are as far apart as the clock can tell,    *)
(* some 24 hours.                                                          *)
StreamIsShort ==
    \A a, b \in Range(sent) : b - a <= ClockWrap - MaxSilenceGapTicks

LastSilence == SilenceAt(received, Len(received))

(* Handling a packet adds the frame, if it can be decoded, and the silence *)
(* of the time that passed.                                                *)
SilenceIsOfTime ==
    received' # received =>
        session'.bytesWritten =
            session.bytesWritten + LastSilence'
            + (IF spoilt' = spoilt THEN FrameBytes ELSE 0)

LEMMA SilencePassed ==
    ASSUME TimeInv, StreamIsShort, [Next]_vars, received' # received
    PROVE  SilenceIsOfTime
<1>1. PICK t \in network : HandleFrame(t) \/ HandleUndecodable(t)
  BY CountAndClockRest DEF TimeInv
<1>2. PICK silence \in Nat, pcm \in Nat :
         /\ Handling(t, silence, pcm)
         /\ \/ pcm = FrameBytes /\ spoilt' = spoilt
            \/ pcm = 0 /\ spoilt' = spoilt + 1
         /\ silence = SilenceBefore(t % ClockWrap)
  BY <1>1, HandlingSteps DEF TimeInv
<1>3. session'.bytesWritten = session.bytesWritten + silence + pcm
  BY <1>2 DEF Handling, TimeInv, TypeOK
<1>4. spoilt \in Nat /\ pcm = IF spoilt' = spoilt THEN FrameBytes ELSE 0
  BY <1>2 DEF TimeInv, TypeOK
<1>5. CASE received = <<>>
  <2>1. silence = 0
    BY <1>2, <1>5 DEF SilenceBefore, TimeInv, ClockIsLast
  <2>2. received' = <<t>>
    BY <1>2, <1>5 DEF Handling
  <2>3. LastSilence' = 0
    BY <2>2 DEF LastSilence, SilenceAt
  <2> QED
    BY <1>3, <1>4, <2>1, <2>3 DEF SilenceIsOfTime
<1>6. CASE received # <<>>
  <2> DEFINE d == t - Last(received)
  <2>1. /\ t \in Range(sent) /\ Last(received) \in Range(sent)
        /\ t \in Nat /\ Last(received) \in Nat
        /\ session.lastRtpTimestamp # Unset
        /\ 0 <= d /\ d < ClockWrap => Gap(t % ClockWrap) = d
        /\ -ClockWrap <= d /\ d < 0 => Gap(t % ClockWrap) = ClockWrap + d
    BY <1>6, GapIsPassed
  <2>2. /\ d <= ClockWrap - MaxSilenceGapTicks
        /\ -d <= ClockWrap - MaxSilenceGapTicks
    BY <2>1 DEF StreamIsShort
  <2>3. /\ ClockWrap \in Nat /\ MaxSilenceGapTicks \in Nat \ {0}
        /\ OpusFrameSamples \in Nat \ {0}
    BY FileConstants
  <2>4. LastSilence' = IF NeedsSilence(d) THEN SilenceBytes(d) ELSE 0
    <3>1. received' = Append(received, t)
      BY <1>2 DEF Handling
    <3>2. /\ received'[Len(received) + 1] = t
          /\ received'[Len(received)] = Last(received)
          /\ Len(received') = Len(received) + 1
          /\ Len(received) \in Nat /\ 1 <= Len(received)
      BY <1>6, <2>1, <3>1, Sequences DEF TimeInv, TypeOK
    <3>3. /\ received'[Len(received')] = t
          /\ received'[Len(received') - 1] = Last(received)
          /\ Len(received') - 1 + 1 = Len(received') /\ ~ Len(received') < 2
      BY <3>2
    <3> QED
      BY <3>3 DEF LastSilence, SilenceAt
  <2>5. silence = IF NeedsSilence(d) THEN SilenceBytes(d) ELSE 0
    <3>1. CASE 0 <= d
      BY <1>2, <2>1, <2>2, <2>3, <3>1 DEF SilenceBefore
    <3>2. CASE d < 0
      BY <1>2, <2>1, <2>2, <2>3, <3>2 DEF SilenceBefore, NeedsSilence
    <3> QED
      BY <2>1, <3>1, <3>2
  <2> QED
    BY <1>3, <1>4, <1>6, <2>4, <2>5 DEF SilenceIsOfTime
<1> QED
  BY <1>5, <1>6

(* While a stream is shorter than the clock, no wrap between two packets   *)
(* and no late packet adds silence or takes it away: each packet adds what *)
(* the times say, not the timestamps.                                          *)
THEOREM WrapIsInvisibleInAStep ==
    Spec /\ []StreamIsShort => [][SilenceIsOfTime]_vars
<1>1. TimeInv /\ StreamIsShort /\ [Next]_vars => [SilenceIsOfTime]_vars
  BY SilencePassed DEF SilenceIsOfTime
<1> QED
  BY <1>1, TimeInvariant, PTL DEF Spec

-----------------------------------------------------------------------------
(***************************************************************************)
(* A wrap cannot be heard.  The reference sums the silence of all packets  *)
(* by recursion; that such a sum exists, and that it is what the session   *)
(* counted, is an invariant each: a packet that is handled makes the sum   *)
(* longer by one.                                                          *)
(***************************************************************************)
IsSum(times, g) ==
    g = [n \in 0 .. Len(times) |->
            IF n = 0 THEN 0 ELSE g[n - 1] + SilenceAt(times, n)]

LEMMA ReferenceIsASum ==
    ASSUME NEW times, \E g : IsSum(times, g)
    PROVE  \E g : IsSum(times, g) /\ ReferenceSilence(times) = g[Len(times)]
BY Zenon DEF ReferenceSilence, IsSum

(* The sum over a longer stream restricts to one over the shorter.         *)
LEMMA SumIsLonger ==
    ASSUME NEW times \in Seq(Nat), NEW t \in Nat, NEW g, IsSum(times, g)
    PROVE  \E h : IsSum(Append(times, t), h)
<1> DEFINE more == Append(times, t)
           h == [n \in 0 .. Len(more) |->
                    IF n = Len(more) THEN g[Len(times)] + SilenceAt(more, n)
                    ELSE g[n]]
<1>1. /\ Len(times) \in Nat /\ Len(more) = Len(times) + 1
      /\ \A n \in 1 .. Len(times) : more[n] = times[n]
  OBVIOUS
<1>2. ASSUME NEW n \in 1 .. Len(times)
      PROVE  SilenceAt(more, n) = SilenceAt(times, n)
  BY <1>1 DEF SilenceAt
<1> HIDE DEF more
<1>3. ASSUME NEW n \in 0 .. Len(more)
      PROVE  h[n] = IF n = 0 THEN 0 ELSE h[n - 1] + SilenceAt(more, n)
  <2>1. CASE n = Len(more)
    BY <1>1, <2>1
  <2>2. CASE n \in 0 .. Len(times)
    <3>1. g[n] = IF n = 0 THEN 0 ELSE g[n - 1] + SilenceAt(times, n)
      BY <2>2 DEF IsSum
    <3> QED
      BY <1>1, <1>2, <2>2, <3>1
  <2> QED
    BY <1>1, <2>1, <2>2
<1>4. IsSum(more, h)
  BY <1>3 DEF IsSum
<1> QED
  BY <1>4 DEF more

LEMMA SumIsShorter ==
    ASSUME NEW times \in Seq(Nat), NEW t \in Nat, NEW h,
           IsSum(Append(times, t), h)
    PROVE  \E g : /\ IsSum(times, g)
                  /\ h[Len(times) + 1] =
                        g[Len(times)]
                        + SilenceAt(Append(times, t), Len(times) + 1)
<1> DEFINE more == Append(times, t)
           g == [n \in 0 .. Len(times) |-> h[n]]
<1>1. /\ Len(times) \in Nat /\ Len(more) = Len(times) + 1
      /\ \A n \in 1 .. Len(times) : more[n] = times[n]
  OBVIOUS
<1>2. ASSUME NEW n \in 1 .. Len(times)
      PROVE  SilenceAt(more, n) = SilenceAt(times, n)
  BY <1>1 DEF SilenceAt
<1>3. IsSum(more, h)
  OBVIOUS
<1> HIDE DEF more
<1>4. ASSUME NEW n \in 0 .. Len(more)
      PROVE  h[n] = IF n = 0 THEN 0 ELSE h[n - 1] + SilenceAt(more, n)
  BY <1>3 DEF IsSum
<1>5. ASSUME NEW n \in 0 .. Len(times)
      PROVE  g[n] = IF n = 0 THEN 0 ELSE g[n - 1] + SilenceAt(times, n)
  BY <1>1, <1>2, <1>4
<1>6. IsSum(times, g)
  BY <1>5 DEF IsSum
<1>7. h[Len(times) + 1] = g[Len(times)] + SilenceAt(more, Len(times) + 1)
  BY <1>1, <1>4
<1> QED
  BY <1>6, <1>7 DEF more

SumsExist == \E g : IsSum(received, g)

SumsAgree ==
    \A g : IsSum(received, g) =>
        /\ g[Len(received)] \in Nat
        /\ session.bytesWritten =
              g[Len(received)] + (Len(received) - spoilt) * FrameBytes

LEMMA SumsAtFirst ==
    ASSUME Init
    PROVE  SumsExist /\ SumsAgree
<1>1. received = <<>> /\ spoilt = 0 /\ session.bytesWritten = 0
  BY DEF Init
<1> DEFINE g0 == [n \in 0 .. 0 |-> 0]
<1>2. IsSum(received, g0)
  BY <1>1 DEF IsSum
<1>3. ASSUME NEW g, IsSum(received, g)
      PROVE  g[0] = 0 /\ Len(received) = 0
  BY <1>1, <1>3 DEF IsSum
<1>4. FrameBytes \in Nat
  BY FileConstants DEF FrameBytes
<1>5. SumsAgree
  BY <1>1, <1>3, <1>4 DEF SumsAgree
<1> QED
  BY <1>2, <1>5 DEF SumsExist

LEMMA WholeFrame == FrameBytes \in Nat
BY FileConstants DEF FrameBytes

LEMMA SilenceAtIsNatural ==
    ASSUME NEW times \in Seq(Nat), NEW n \in 1 .. Len(times)
    PROVE  SilenceAt(times, n) \in Nat
<1> DEFINE passed == times[n] - times[n - 1]
<1>1. CASE n > 1 /\ NeedsSilence(passed)
  <2>1. times[n] \in Nat /\ times[n - 1] \in Nat
    BY <1>1
  <2>2. passed \in Nat
    BY <1>1, <2>1, FileConstants DEF NeedsSilence
  <2>3. PICK m \in Nat : SilenceBytes(passed) = BytesPerSample * m
    BY <2>2, WholeBytes
  <2>4. SilenceBytes(passed) \in Nat
    BY <2>3, FileConstants
  <2> QED
    BY <1>1, <2>4 DEF SilenceAt
<1>2. CASE ~ (n > 1 /\ NeedsSilence(passed))
  BY <1>2 DEF SilenceAt
<1> QED
  BY <1>1, <1>2

LEMMA SumsGrow ==
    ASSUME TimeInv, StreamIsShort, [Next]_vars, received' # received,
           SumsExist, SumsAgree
    PROVE  SumsExist' /\ SumsAgree'
<1>1. PICK t \in network : HandleFrame(t) \/ HandleUndecodable(t)
  BY CountAndClockRest DEF TimeInv
<1>2. PICK silence \in Nat, pcm \in Nat :
         /\ Handling(t, silence, pcm)
         /\ \/ pcm = FrameBytes /\ spoilt' = spoilt
            \/ pcm = 0 /\ spoilt' = spoilt + 1
  BY <1>1, HandlingSteps DEF TimeInv
<1>3. received' = Append(received, t)
  BY <1>2 DEF Handling
<1>4. received \in Seq(Nat) /\ t \in Nat
  BY <1>1, SentAreTimes DEF TimeInv, TypeOK
<1>5. Len(received) \in Nat /\ Len(received') = Len(received) + 1
  BY <1>3, <1>4
<1>6. SumsExist'
  BY <1>3, <1>4, SumIsLonger DEF SumsExist
<1>7. ASSUME NEW h, IsSum(received', h)
      PROVE  /\ h[Len(received')] \in Nat
             /\ session'.bytesWritten =
                   h[Len(received')] + (Len(received') - spoilt') * FrameBytes
  <2>1. PICK g : /\ IsSum(received, g)
                 /\ h[Len(received')] =
                       g[Len(received)] + SilenceAt(received', Len(received'))
    BY <1>3, <1>4, <1>5, <1>7, SumIsShorter
  <2> DEFINE before == g[Len(received)]
             added == SilenceAt(received', Len(received'))
             frames == Len(received) - spoilt
  <2>2. before \in Nat /\ session.bytesWritten = before + frames * FrameBytes
    BY <2>1 DEF SumsAgree
  <2>3. session'.bytesWritten = session.bytesWritten + added
                + (IF spoilt' = spoilt THEN FrameBytes ELSE 0)
    BY SilencePassed DEF SilenceIsOfTime, LastSilence
  <2>4. added \in Nat
    <3>1. received' \in Seq(Nat) /\ Len(received') \in 1 .. Len(received')
      BY <1>3, <1>4
    <3> QED
      BY <3>1, SilenceAtIsNatural
  <2>5. /\ h[Len(received')] = before + added
        /\ FrameBytes \in Nat /\ frames \in Int
        /\ Len(received') - spoilt' =
              IF spoilt' = spoilt THEN frames + 1 ELSE frames
    <3>1. spoilt \in Nat /\ spoilt' \in {spoilt, spoilt + 1}
      BY <1>2 DEF TimeInv, TypeOK
    <3>2. CASE spoilt' = spoilt
      BY <1>5, <2>1, <3>1, <3>2, WholeFrame
    <3>3. CASE spoilt' = spoilt + 1
      BY <1>5, <2>1, <3>1, <3>3, WholeFrame
    <3> QED
      BY <3>1, <3>2, <3>3
  <2> HIDE DEF before, added, frames
  <2>6. CASE spoilt' = spoilt
    <3>1. (frames + 1) * FrameBytes = frames * FrameBytes + FrameBytes
      BY <2>5
    <3>2. frames * FrameBytes \in Int
      BY <2>5
    <3> QED
      BY <2>2, <2>3, <2>4, <2>5, <2>6, <3>1, <3>2
  <2>7. CASE spoilt' # spoilt
    <3>1. frames * FrameBytes \in Int
      BY <2>5
    <3> QED
      BY <2>2, <2>3, <2>4, <2>5, <2>7, <3>1
  <2> QED
    BY <2>6, <2>7
<1> QED
  BY <1>6, <1>7 DEF SumsAgree

(* The file is as long as the times of the packets say, whatever wraps and *)
(* whatever comes late, as long as no two packets are a clock apart.       *)
THEOREM WrapCannotBeHeard == Spec /\ []StreamIsShort => []WrapIsInvisible
<1>1. Init => SumsExist /\ SumsAgree
  BY SumsAtFirst
<1>2. TimeInv /\ StreamIsShort /\ SumsExist /\ SumsAgree /\ [Next]_vars
         => SumsExist' /\ SumsAgree'
  <2>1. CASE received' # received
    BY <2>1, SumsGrow
  <2>2. CASE received' = received
    <3> SUFFICES ASSUME TimeInv, SumsExist, SumsAgree, [Next]_vars
                 PROVE  SumsExist' /\ SumsAgree'
      OBVIOUS
    <3>1. \A t \in network : ~ HandleFrame(t) /\ ~ HandleUndecodable(t)
      <4> SUFFICES ASSUME NEW t \in network, HandleFrame(t) \/ HandleUndecodable(t)
                   PROVE  FALSE
        OBVIOUS
      <4>1. received' = Append(received, t)
        BY HandlingSteps DEF TimeInv, Handling
      <4>2. received \in Seq(Nat)
        BY SentAreTimes DEF TimeInv, TypeOK
      <4> QED
        BY <2>2, <4>1, <4>2
    <3>2. spoilt' = spoilt /\ session'.bytesWritten = session.bytesWritten
      BY <3>1, CountAndClockRest DEF TimeInv
    <3> QED
      BY <2>2, <3>2 DEF SumsExist, SumsAgree
  <2> QED
    BY <2>1, <2>2
<1>3. SumsExist /\ SumsAgree => WrapIsInvisible
  <2> SUFFICES ASSUME SumsExist, SumsAgree PROVE WrapIsInvisible
    OBVIOUS
  <2>1. PICK g : /\ IsSum(received, g)
                 /\ ReferenceSilence(received) = g[Len(received)]
    BY ReferenceIsASum DEF SumsExist
  <2> QED
    BY <2>1 DEF SumsAgree, WrapIsInvisible, ReferenceBytes
<1> QED
  BY <1>1, <1>2, <1>3, TimeInvariant, PTL DEF Spec
=============================================================================
