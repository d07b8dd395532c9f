---------------------------- MODULE FramingProofs -----------------------------
(***************************************************************************)
(* Proofs about module Framing, for every width of a byte, every limit and *)
(* every number of messages: the codec of the length, what can be known of *)
(* the bytes that are still to come, and that the loop implements the      *)
(* exchange of messages.                                                   *)
(***************************************************************************)
EXTENDS Framing, SequenceTheorems, TLAPS

------------------------------------------------------------------------------
\* The codec.

\* Two digits to the base b are a number below its square, and give it back.
LEMMA TwoDigits ==
    ASSUME NEW b \in Nat \ {0, 1}, NEW x \in 0..b - 1, NEW y \in 0..b - 1
    PROVE  /\ x + b * y \in 0..b * b - 1
           /\ (x + b * y) % b = x
           /\ (x + b * y) \div b = y
<1>1. x + b * y \in 0..b * b - 1
  <2>1. b * y >= 0 /\ b * y <= b * (b - 1)
    OBVIOUS
  <2>2. b * (b - 1) = b * b - b
    OBVIOUS
  <2>3. b * y \in Int /\ b * b \in Int
    OBVIOUS
  <2> QED BY <2>1, <2>2, <2>3
<1>2. (x + b * y) % b = x
  OBVIOUS
<1>3. (x + b * y) \div b = y
  OBVIOUS
<1> QED BY <1>1, <1>2, <1>3

\* A number below the square of b has two digits.
LEMMA DigitsOf ==
    ASSUME NEW b \in Nat \ {0, 1}, NEW n \in 0..b * b - 1
    PROVE  /\ n % b \in 0..b - 1
           /\ n \div b \in 0..b - 1
           /\ (n % b) + b * (n \div b) = n
<1>1. n % b \in 0..b - 1
  OBVIOUS
<1>2. n \div b \in 0..b - 1
  OBVIOUS
<1>3. (n % b) + b * (n \div b) = n
  OBVIOUS
<1> QED BY <1>1, <1>2, <1>3

\* A length is written as a header that is read as that length.
LEMMA EncodeProperties ==
    ASSUME NEW n \in 0..MaxLength
    PROVE  /\ Encode(n) \in Seq(Byte)
           /\ Len(Encode(n)) = HeaderBytes
           /\ Decode(Encode(n)) = n
<1>1. n % Base \in Byte /\ n \div Base \in Byte /\ (n % Base) + Base * (n \div Base) = n
  BY FramingAssumption, DigitsOf DEF MaxLength, Byte
<1> QED BY <1>1 DEF Encode, Decode, HeaderBytes

\* A header is the one its length is written as.
LEMMA DecodeProperties ==
    ASSUME NEW h \in Seq(Byte), Len(h) = HeaderBytes
    PROVE  /\ Decode(h) \in 0..MaxLength
           /\ Encode(Decode(h)) = h
<1>1. h[1] \in Byte /\ h[2] \in Byte
  BY ElementOfSeq DEF HeaderBytes
<1>2. /\ Decode(h) \in 0..MaxLength
      /\ Decode(h) % Base = h[1]
      /\ Decode(h) \div Base = h[2]
  BY <1>1, FramingAssumption, TwoDigits DEF Decode, MaxLength, Byte
<1>3. <<h[1], h[2]>> = h
  BY <1>1, SeqEqual DEF HeaderBytes
<1> QED BY <1>2, <1>3 DEF Encode

------------------------------------------------------------------------------
\* Bytes.

\* Concatenation, for the provers a function of which they know only what the
\* next lemmas say.
x \odot y == x \o y

\* Bytes joined to bytes are bytes.
LEMMA JoinType ==
    /\ \A a, b \in Seq(Byte) : a \odot b \in Seq(Byte)
    /\ <<>> \in Seq(Byte)
  BY ConcatProperties, EmptySeq DEF \odot

\* Their number is the sum.
LEMMA JoinLen ==
    ASSUME NEW a \in Seq(Byte), NEW b \in Seq(Byte)
    PROVE  /\ Len(a \odot b) = Len(a) + Len(b)
           /\ Len(a) \in Nat
           /\ Len(b) \in Nat
  BY ConcatProperties, LenProperties DEF \odot

\* No bytes add nothing.
LEMMA JoinEmpty == \A a \in Seq(Byte) : a \odot <<>> = a /\ <<>> \odot a = a
  BY ConcatEmptySeq DEF \odot

\* All of this, and that they can be grouped in any way.
LEMMA Joined ==
    /\ \A a, b, c \in Seq(Byte) : (a \odot b) \odot c = a \odot (b \odot c)
    /\ \A a \in Seq(Byte) : a \odot <<>> = a /\ <<>> \odot a = a
    /\ <<>> \in Seq(Byte)
    /\ \A a, b \in Seq(Byte) : a \odot b \in Seq(Byte)
<1>1. \A a, b, c \in Seq(Byte) : (a \odot b) \odot c = a \odot (b \odot c)
  BY ConcatAssociative DEF \odot
<1> QED BY <1>1, JoinEmpty, JoinType

\* The same bytes, with beginnings of the same length, have the same beginning
\* and the same end.
LEMMA SameBeginning ==
    ASSUME NEW a \in Seq(Byte), NEW b \in Seq(Byte), NEW x \in Seq(Byte), NEW y \in Seq(Byte),
           a \odot x = b \odot y, Len(a) = Len(b)
    PROVE  a = b /\ x = y
<1>1. a \o x = b \o y
  BY DEF \odot
<1>2. \A i \in 1..Len(a) : (a \o x)[i] = a[i] /\ (b \o y)[i] = b[i]
  BY ConcatProperties, LenProperties
<1>3. a = b
  BY <1>1, <1>2, SeqEqual
<1>4. x = y
  BY <1>1, <1>3, ConcatSimplifications
<1> QED BY <1>3, <1>4

------------------------------------------------------------------------------
\* Frames.

\* The length of a message fits the header, one above the limit included.
LEMMA MessageProperties ==
    ASSUME NEW m \in Messages
    PROVE  m \in Seq(Byte) /\ Len(m) \in 0..MaxRequest + 1 /\ Len(m) <= MaxLength
<1>1. PICK n \in 0..MaxRequest + 1 : m \in BytesOf(n)
  BY DEF Messages
<1>2. m \in Seq(Byte) /\ Len(m) = n
  BY <1>1, FramingAssumption DEF BytesOf
<1>3. MaxLength \in Int
  BY FramingAssumption DEF MaxLength
<1> QED BY <1>1, <1>2, <1>3, FramingAssumption

\* A frame is a header and as many bytes as it says.
LEMMA FrameProperties ==
    ASSUME NEW m \in Seq(Byte), Len(m) <= MaxLength
    PROVE  /\ Encode(Len(m)) \in Seq(Byte) /\ Len(Encode(Len(m))) = HeaderBytes
           /\ Frame(m) = Encode(Len(m)) \odot m
           /\ Frame(m) \in Seq(Byte) /\ Len(Frame(m)) = HeaderBytes + Len(m)
<1>1. MaxLength \in Int /\ Len(m) \in 0..MaxLength
  BY FramingAssumption, LenProperties DEF MaxLength
<1>2. Encode(Len(m)) \in Seq(Byte) /\ Len(Encode(Len(m))) = HeaderBytes
  BY <1>1, EncodeProperties
<1>3. Frame(m) = Encode(Len(m)) \odot m
  BY DEF Frame, \odot
<1>4. Encode(Len(m)) \odot m \in Seq(Byte)
      /\ Len(Encode(Len(m)) \odot m) = Len(Encode(Len(m))) + Len(m)
  BY <1>2, JoinType, JoinLen
<1> QED BY <1>2, <1>3, <1>4

\* The bytes that begin with a frame tell its length and what follows.
LEMMA HeaderOfFrame ==
    ASSUME NEW m \in Seq(Byte), Len(m) <= MaxLength, NEW r \in Seq(Byte),
           NEW h \in Seq(Byte), Len(h) = HeaderBytes, NEW p \in Seq(Byte),
           h \odot p = Frame(m) \odot r
    PROVE  h = Encode(Len(m)) /\ p = m \odot r
<1>1. h \odot p = Encode(Len(m)) \odot (m \odot r)
  BY FrameProperties, Joined
<1>2. m \odot r \in Seq(Byte)
  BY Joined
<1> QED BY <1>1, <1>2, FrameProperties, SameBeginning

\* So do those of a frame that is cut off.
LEMMA HeaderOfTornFrame ==
    ASSUME NEW m \in Seq(Byte), Len(m) <= MaxLength, NEW q \in Seq(Byte), q # <<>>,
           NEW h \in Seq(Byte), Len(h) = HeaderBytes, NEW p \in Seq(Byte),
           (h \odot p) \odot q = Frame(m)
    PROVE  h = Encode(Len(m)) /\ Len(p) < Len(m)
<1>1. h \odot (p \odot q) = Encode(Len(m)) \odot m
  BY FrameProperties, Joined
<1>2. p \odot q \in Seq(Byte)
  BY Joined
<1>3. h = Encode(Len(m)) /\ p \odot q = m
  BY <1>1, <1>2, FrameProperties, SameBeginning
<1>4. Len(p \odot q) = Len(p) + Len(q) /\ Len(p) \in Nat /\ Len(q) \in Nat
  BY JoinLen
<1>5. Len(q) # 0
  BY EmptySeq
<1> QED BY <1>3, <1>4, <1>5

\* The bytes of a frame are the bytes of no other.
LEMMA FrameIsUnique ==
    ASSUME NEW m \in Seq(Byte), Len(m) <= MaxLength, NEW r \in Seq(Byte),
           NEW b \in Seq(Byte), Len(b) <= MaxLength, NEW p \in Seq(Byte),
           Encode(Len(b)) \odot (b \odot p) = Frame(m) \odot r
    PROVE  b = m /\ p = r
<1>1. b \odot p \in Seq(Byte)
  BY Joined
<1>2. Encode(Len(b)) = Encode(Len(m)) /\ b \odot p = m \odot r
  BY <1>1, FrameProperties, HeaderOfFrame
<1>3. Len(b) \in 0..MaxLength /\ Len(m) \in 0..MaxLength
  BY FramingAssumption, LenProperties DEF MaxLength
<1>4. Len(b) = Len(m)
  BY <1>2, <1>3, EncodeProperties
<1> QED BY <1>2, <1>4, SameBeginning

------------------------------------------------------------------------------
\* Types.

Reply == [id : Byte, code : Codes, big : BOOLEAN]
Answer == {r \in Reply : ~r.big}

Types ==
    /\ sent \in Seq(Messages)
    /\ torn \in Seq(Messages) /\ Len(torn) <= 1
    /\ closed \in BOOLEAN /\ (torn # <<>> => closed)
    /\ deaf \in BOOLEAN
    /\ fault \in BOOLEAN
    /\ pipe \in Seq(Byte)
    /\ pc \in {"start", "header", "payload", "write", "exited"}
    /\ need \in 0..MaxLength
    /\ buffer \in Seq(Byte)
    /\ pc \in {"start", "write"} => buffer = <<>>
    /\ pc = "header" => Len(buffer) <= HeaderBytes
    /\ pc = "payload" => need <= MaxRequest /\ Len(buffer) <= need
    /\ pc = "write" => reply \in Reply
    /\ answers \in Seq(Answer)
    /\ exit \in 0..2

\* A response is about the envelope it answers, and what is sent of it is small.
LEMMA ResponseProperties ==
    ASSUME NEW m \in Seq(Byte), NEW r \in Responses(m)
    PROVE  r \in Reply
<1>1. 0 \in Byte
  BY FramingAssumption DEF Byte
<1>2. Len(m) = 2 => m[1] \in Byte
  BY ElementOfSeq
<1>3. CASE Len(m) # 2 \/ m[1] = 0
  <2>1. r = [id |-> 0, code |-> "invalid_request", big |-> FALSE]
    BY <1>3 DEF Responses
  <2> QED BY <1>1, <2>1 DEF Reply, Codes
<1>4. CASE ~(Len(m) # 2 \/ m[1] = 0) /\ m[2] # Version
  <2>1. r = [id |-> m[1], code |-> "unsupported_protocol_version", big |-> FALSE]
    BY <1>4 DEF Responses
  <2>2. m[1] \in Byte
    BY <1>2, <1>4
  <2> QED BY <2>1, <2>2 DEF Reply, Codes
<1>5. CASE ~(Len(m) # 2 \/ m[1] = 0) /\ m[2] = Version
  <2>1. PICK b \in BOOLEAN : r = [id |-> m[1], code |-> "handled", big |-> b]
    BY <1>5 DEF Responses
  <2> QED BY <1>2, <1>5, <2>1 DEF Reply, Codes
<1> QED BY <1>3, <1>4, <1>5

\* What is sent of a response is small.
LEMMA ReplacedProperties ==
    ASSUME NEW r \in Reply
    PROVE  Replaced(r) \in Answer
<1>1. CASE r.big
  <2>1. Replaced(r) = [id |-> r.id, code |-> "response_too_large", big |-> FALSE]
    BY <1>1 DEF Replaced
  <2>2. [id |-> r.id, code |-> "response_too_large", big |-> FALSE] \in Reply
    BY DEF Reply, Codes
  <2> QED BY <2>1, <2>2 DEF Answer
<1>2. CASE ~r.big
  BY <1>2 DEF Replaced, Answer
<1> QED BY <1>1, <1>2

\* What a read takes and what it leaves are the bytes there were.
LEMMA ReadProperties ==
    ASSUME NEW p \in Seq(Byte), NEW k \in 1..Len(p)
    PROVE  /\ SubSeq(p, 1, k) \in Seq(Byte) /\ Len(SubSeq(p, 1, k)) = k
           /\ SubSeq(p, k + 1, Len(p)) \in Seq(Byte)
           /\ SubSeq(p, 1, k) \odot SubSeq(p, k + 1, Len(p)) = p
<1>1. Len(p) \in Nat /\ \A i \in 1..Len(p) : p[i] \in Byte
  BY LenProperties, ElementOfSeq
<1>2. SubSeq(p, 1, k) \in Seq(Byte) /\ Len(SubSeq(p, 1, k)) = k
  BY <1>1, SubSeqProperties
<1>3. SubSeq(p, k + 1, Len(p)) \in Seq(Byte)
  BY <1>1, SubSeqProperties
<1>4. SubSeq(p, 1, k) \o SubSeq(p, k + 1, Len(p)) = SubSeq(p, 1, Len(p))
  BY <1>1, ConcatAdjacentSubSeq
<1>5. SubSeq(p, 1, Len(p)) = p
  BY SubSeqFull
<1> QED BY <1>2, <1>3, <1>4, <1>5 DEF \odot

\* What is written of a frame that is torn is a part of it, and not all.
LEMMA TornProperties ==
    ASSUME NEW m \in Messages, NEW k \in 0..HeaderBytes + Len(m) - 1
    PROVE  /\ SubSeq(Frame(m), 1, k) \in Seq(Byte)
           /\ k = 0 => SubSeq(Frame(m), 1, k) = <<>>
           /\ \E q \in Seq(Byte) \ {<<>>} : SubSeq(Frame(m), 1, k) \odot q = Frame(m)
<1> DEFINE f == Frame(m)
<1>1. f \in Seq(Byte) /\ Len(f) = HeaderBytes + Len(m) /\ Len(m) \in Nat
  BY MessageProperties, FrameProperties, LenProperties
<1> HIDE DEF f
<1>2. f # <<>>
  BY <1>1, EmptySeq DEF HeaderBytes
<1>3. CASE k = 0
  <2>1. SubSeq(f, 1, k) = <<>>
    BY <1>3, SubSeqEmpty
  <2>2. <<>> \in Seq(Byte) /\ <<>> \odot f = f
    BY <1>1, Joined
  <2> QED BY <1>1, <1>2, <2>1, <2>2 DEF f
<1>4. CASE k # 0
  <2>1. k \in 1..Len(f)
    BY <1>1, <1>4 DEF HeaderBytes
  <2> DEFINE q == SubSeq(f, k + 1, Len(f))
  <2>2. SubSeq(f, 1, k) \in Seq(Byte) /\ Len(SubSeq(f, 1, k)) = k
        /\ q \in Seq(Byte) /\ SubSeq(f, 1, k) \odot q = f
    BY <1>1, <2>1, ReadProperties
  <2> HIDE DEF q
  <2>3. q # <<>>
    <3>1. SUFFICES ASSUME q = <<>> PROVE FALSE
      OBVIOUS
    <3>2. Len(f) = Len(SubSeq(f, 1, k))
      BY <2>2, <3>1, Joined
    <3> QED BY <1>1, <2>2, <3>2 DEF HeaderBytes
  <2> QED BY <1>4, <2>2, <2>3 DEF f
<1> QED BY <1>3, <1>4

\* The types hold at the start.
LEMMA TypesInit == Init => Types
<1>1. 0 \in 0..MaxLength
  <2>1. MaxLength \in Int
    BY FramingAssumption DEF MaxLength
  <2> QED BY <2>1, FramingAssumption
<1>2. <<>> \in Seq(Messages) /\ <<>> \in Seq(Byte) /\ <<>> \in Seq(Answer) /\ Len(<<>>) = 0
  BY EmptySeq
<1> SUFFICES ASSUME Init PROVE Types
  OBVIOUS
<1>3. closed \in BOOLEAN /\ deaf \in BOOLEAN /\ fault \in BOOLEAN /\ torn = <<>>
  BY DEF Init
<1>4. /\ pc = "start" /\ buffer = <<>> /\ exit \in 0..2 /\ need \in 0..MaxLength
      /\ sent \in Seq(Messages) /\ torn \in Seq(Messages) /\ Len(torn) <= 1
      /\ pipe \in Seq(Byte) /\ buffer \in Seq(Byte) /\ answers \in Seq(Answer)
  BY <1>1, <1>2 DEF Init
<1> QED BY <1>3, <1>4 DEF Types

\* Every step keeps them: a part is not filled beyond its length.
LEMMA TypesStep == Types /\ [Next]_vars => Types'
<1> SUFFICES ASSUME Types, [Next]_vars PROVE Types'
  OBVIOUS
<1> USE FramingAssumption
<1>1. ASSUME NEW m \in Messages, Send(m) PROVE Types'
  <2>1. Frame(m) \in Seq(Byte)
    BY MessageProperties, FrameProperties
  <2>2. pipe' \in Seq(Byte)
    BY <1>1, <2>1, ConcatProperties DEF Send, Types
  <2>3. sent' \in Seq(Messages)
    BY <1>1, AppendProperties DEF Send, Types
  <2> QED BY <1>1, <2>2, <2>3 DEF Send, Types
<1>2. ASSUME NEW m \in Messages, NEW k \in 0..HeaderBytes + Len(m) - 1, Hangup(m, k)
      PROVE  Types'
  <2>1. SubSeq(Frame(m), 1, k) \in Seq(Byte)
    BY TornProperties
  <2>2. pipe' \in Seq(Byte)
    BY <1>2, <2>1, ConcatProperties DEF Hangup, Types
  <2>3. torn' \in Seq(Messages) /\ Len(torn') <= 1
    BY <1>2, EmptySeq DEF Hangup
  <2> QED BY <1>2, <2>2, <2>3 DEF Hangup, Types
<1>3. CASE StopReading
  BY <1>3 DEF StopReading, Types, input
<1>4. CASE \E args \in Arguments : Start(args)
  BY <1>4, EmptySeq DEF Start, ExitWith, Types, browser, input, HeaderBytes
<1>5. CASE ReadSome
  <2>1. PICK k \in 1..Wanted - Len(buffer) :
            /\ k <= Len(pipe)
            /\ buffer' = buffer \o SubSeq(pipe, 1, k)
            /\ pipe' = SubSeq(pipe, k + 1, Len(pipe))
    BY <1>5 DEF ReadSome
  <2>2. Len(pipe) \in Nat /\ Len(buffer) \in Nat
    BY LenProperties DEF Types
  <2>3. k \in Nat /\ Len(buffer) + k <= Wanted
    BY <2>2, FramingAssumption DEF Wanted, HeaderBytes, Types
  <2>4. k \in 1..Len(pipe)
    BY <2>1, <2>2, <2>3
  <2>5. SubSeq(pipe, 1, k) \in Seq(Byte) /\ Len(SubSeq(pipe, 1, k)) = k /\ pipe' \in Seq(Byte)
    BY <2>1, <2>4, ReadProperties DEF Types
  <2>6. buffer' \in Seq(Byte) /\ Len(buffer') = Len(buffer) + k
    BY <2>1, <2>5, ConcatProperties DEF Types
  <2> QED BY <1>5, <2>3, <2>5, <2>6 DEF ReadSome, Reading, Wanted, Types, browser
<1>6. CASE EndOfInput
  BY <1>6 DEF EndOfInput, ExitWith, Types, browser, input
<1>11. CASE ReadFails
  <2>1. exit' \in 0..2
    BY <1>11 DEF ReadFails, ExitWith
  <2> QED BY <1>11, <2>1 DEF ReadFails, ExitWith, Types, browser, input
<1>7. CASE TakeHeader
  <2>1. Decode(buffer) \in 0..MaxLength
    BY <1>7, DecodeProperties DEF TakeHeader, HeaderComplete, Types
  <2> QED BY <1>7, <2>1, EmptySeq DEF TakeHeader, HeaderComplete, ExitWith, Types, browser
<1>8. CASE Handle
  <2>1. reply' \in Reply
    BY <1>8, ResponseProperties DEF Handle, Types
  <2> QED BY <1>8, <2>1, EmptySeq DEF Handle, Types, browser
<1>9. CASE Write
  <2>1. Replaced(reply) \in Answer
    BY <1>9, ReplacedProperties DEF Write, Types
  <2>2. answers' \in Seq(Answer)
    BY <1>9, <2>1, AppendProperties DEF Write, Types
  <2> QED BY <1>9, <2>2 DEF Write, ExitWith, Types, browser, input, HeaderBytes
<1>10. CASE UNCHANGED vars
  BY <1>10 DEF vars, browser, input, Types
<1> QED BY <1>1, <1>2, <1>3, <1>4, <1>5, <1>6, <1>7, <1>8, <1>9, <1>10, <1>11 DEF Next, Host

------------------------------------------------------------------------------
\* The bytes that are still to come.

\* What has not been taken yet of what was written, the header included of a
\* payload that is being read.
Stream == (IF pc = "payload" THEN Encode(need) ELSE <<>>) \odot (buffer \odot pipe)

\* rest[i] is what the browser wrote after its i-th message: the frames of the
\* later ones, and the beginning of the torn one.
Suffixes(rest) ==
    /\ rest \in [0..Len(sent) -> Seq(Byte)]
    /\ \A i \in 1..Len(sent) : rest[i - 1] = Frame(sent[i]) \odot rest[i]
    /\ IF torn = <<>> THEN rest[Len(sent)] = <<>>
       ELSE \E q \in Seq(Byte) \ {<<>>} : rest[Len(sent)] \odot q = Frame(torn[1])

\* d messages have been taken, and answered but for the one in hand.
Taken(rest, d) ==
    /\ d \in 0..Len(sent)
    /\ Stream = rest[d]
    /\ \A i \in 1..d : Legal(sent[i])
    /\ pc = "write" => d > 0 /\ reply \in Responses(sent[d])
    /\ ~deaf => Len(answers) = IF pc = "write" THEN d - 1 ELSE d

InStep == \E rest, d : Suffixes(rest) /\ Taken(rest, d)

Inv ==
    /\ Types
    /\ pc # "exited" => exit = 0 /\ ~fault /\ InStep
    /\ pc = "exited" /\ exit = 0 /\ ~fault /\ ~deaf => closed
    /\ NothingSkipped

\* A read moves bytes, and takes none.
LEMMA ReadKeepsStream == Types /\ ReadSome => Stream' = Stream
<1> SUFFICES ASSUME Types, ReadSome PROVE Stream' = Stream
  OBVIOUS
<1>1. PICK k \in 1..Wanted - Len(buffer) :
          /\ k <= Len(pipe)
          /\ buffer' = buffer \o SubSeq(pipe, 1, k)
          /\ pipe' = SubSeq(pipe, k + 1, Len(pipe))
  BY DEF ReadSome
<1>2. k \in 1..Len(pipe)
  <2>1. Len(pipe) \in Nat /\ Len(buffer) \in Nat
    BY LenProperties DEF Types
  <2>2. Wanted \in Int
    BY FramingAssumption DEF Wanted, HeaderBytes, Types
  <2> QED BY <1>1, <2>1, <2>2
<1> DEFINE u == SubSeq(pipe, 1, k)
           v == SubSeq(pipe, k + 1, Len(pipe))
<1>3. u \in Seq(Byte) /\ v \in Seq(Byte) /\ u \odot v = pipe
  BY <1>2, ReadProperties DEF Types
<1>4. buffer' = buffer \odot u /\ pipe' = v
  BY <1>1 DEF \odot
<1> HIDE DEF u, v
<1>5. buffer' \odot pipe' = buffer \odot pipe
  BY <1>3, <1>4, Joined DEF Types
<1> QED BY <1>5 DEF ReadSome, Stream

\* Nor does the end of a header.
LEMMA HeaderKeepsStream == Types /\ TakeHeader /\ pc' = "payload" => Stream' = Stream
<1> SUFFICES ASSUME Types, TakeHeader, pc' = "payload" PROVE Stream' = Stream
  OBVIOUS
<1>1. pc = "header" /\ Len(buffer) = HeaderBytes /\ buffer' = <<>> /\ need' = Decode(buffer)
      /\ pipe' = pipe
  BY DEF TakeHeader, HeaderComplete
<1>2. Encode(need') = buffer
  BY <1>1, DecodeProperties DEF Types
<1>3. Stream' = buffer \odot (<<>> \odot pipe)
  BY <1>1, <1>2 DEF Stream
<1>4. Stream = <<>> \odot (buffer \odot pipe)
  BY <1>1 DEF Stream
<1> QED BY <1>3, <1>4, Joined DEF Types

\* What is added at the end of one suffix is added at the end of all.
LEMMA FrameThen ==
    ASSUME NEW m \in Messages, NEW r \in Seq(Byte), NEW t \in Seq(Byte)
    PROVE  (Frame(m) \odot r) \odot t = Frame(m) \odot (r \odot t)
<1>1. Frame(m) \in Seq(Byte)
  BY MessageProperties, FrameProperties
<1> QED BY <1>1, Joined

\* A message that is sent follows all that was to come.
LEMMA SuffixesOfSend ==
    ASSUME Types, NEW m \in Messages, Send(m), NEW rest, Suffixes(rest)
    PROVE  \E more : /\ Suffixes(more)'
                     /\ \A i \in 0..Len(sent) : more[i] = rest[i] \odot Frame(m)
<1>1. PICK n \in Nat : n = Len(sent)
  BY LenProperties DEF Types
<1>2. PICK f \in Seq(Byte) : f = Frame(m)
  BY MessageProperties, FrameProperties
<1>3. PICK more : more = [i \in 0..n + 1 |-> IF i = n + 1 THEN <<>> ELSE rest[i] \odot f]
  OBVIOUS
<1>4. torn = <<>> /\ torn' = <<>> /\ rest[n] = <<>>
  BY <1>1 DEF Send, Types, Suffixes
<1>5. Len(sent') = n + 1 /\ sent'[n + 1] = m /\ \A i \in 1..n : sent'[i] = sent[i]
  BY <1>1, AppendProperties DEF Send, Types
<1>6. \A i \in 0..n : rest[i] \in Seq(Byte)
  BY <1>1 DEF Suffixes
<1>7. /\ \A i \in 0..n : more[i] = rest[i] \odot f
      /\ more[n + 1] = <<>>
  BY <1>3
<1>8. more \in [0..n + 1 -> Seq(Byte)]
  <2>1. \A i \in 0..n : rest[i] \odot f \in Seq(Byte)
    BY <1>6, Joined
  <2>2. <<>> \in Seq(Byte)
    BY Joined
  <2>3. \A i \in 0..n + 1 : i # n + 1 => i \in 0..n
    OBVIOUS
  <2> QED BY <1>3, <2>1, <2>2, <2>3
<1>9. ASSUME NEW i \in 1..n + 1 PROVE more[i - 1] = Frame(sent'[i]) \odot more[i]
  <2>1. CASE i = n + 1
    <3>1. more[n] = <<>> \odot f
      BY <1>4, <1>7
    <3>2. more[n] = f \odot more[n + 1]
      BY <1>7, <3>1, Joined
    <3> QED BY <1>2, <1>5, <2>1, <3>2
  <2>2. CASE i # n + 1
    <3>1. i \in 1..n /\ i \in 0..n /\ i - 1 \in 0..n
      BY <2>2
    <3>2. sent[i] \in Messages
      BY <1>1, <3>1, ElementOfSeq DEF Types
    <3>3. rest[i - 1] = Frame(sent[i]) \odot rest[i]
      BY <1>1, <3>1 DEF Suffixes
    <3>4. (Frame(sent[i]) \odot rest[i]) \odot f = Frame(sent[i]) \odot (rest[i] \odot f)
      BY <1>6, <3>1, <3>2, FrameThen
    <3> QED BY <1>5, <1>7, <3>1, <3>3, <3>4
  <2> QED BY <2>1, <2>2
<1>10. Suffixes(more)'
  BY <1>4, <1>5, <1>7, <1>8, <1>9 DEF Suffixes
<1> QED BY <1>1, <1>2, <1>7, <1>10

\* So does the beginning of the one the browser dies in.
LEMMA SuffixesOfHangup ==
    ASSUME Types, NEW m \in Messages, NEW k \in 0..HeaderBytes + Len(m) - 1, Hangup(m, k),
           NEW rest, Suffixes(rest)
    PROVE  \E more : /\ Suffixes(more)'
                     /\ \A i \in 0..Len(sent) : more[i] = rest[i] \odot SubSeq(Frame(m), 1, k)
<1>1. PICK n \in Nat : n = Len(sent)
  BY LenProperties DEF Types
<1>2. PICK t \in Seq(Byte) : /\ t = SubSeq(Frame(m), 1, k)
                             /\ k = 0 => t = <<>>
                             /\ \E q \in Seq(Byte) \ {<<>>} : t \odot q = Frame(m)
  BY TornProperties
<1>3. PICK more : more = [i \in 0..n |-> rest[i] \odot t]
  OBVIOUS
<1>4. /\ torn = <<>> /\ rest[n] = <<>> /\ sent' = sent
      /\ torn' = IF k = 0 THEN <<>> ELSE <<m>>
  BY <1>1 DEF Hangup, Types, Suffixes
<1>5. \A i \in 0..n : rest[i] \in Seq(Byte)
  BY <1>1 DEF Suffixes
<1>6. \A i \in 0..n : more[i] = rest[i] \odot t
  BY <1>3
<1>7. more \in [0..n -> Seq(Byte)]
  BY <1>3, <1>5, Joined
<1>8. ASSUME NEW i \in 1..n PROVE more[i - 1] = Frame(sent[i]) \odot more[i]
  <2>1. i - 1 \in 0..n /\ i \in 0..n
    OBVIOUS
  <2>2. sent[i] \in Messages
    BY <1>1, ElementOfSeq DEF Types
  <2>3. rest[i - 1] = Frame(sent[i]) \odot rest[i]
    BY <1>1 DEF Suffixes
  <2>4. (Frame(sent[i]) \odot rest[i]) \odot t = Frame(sent[i]) \odot (rest[i] \odot t)
    BY <1>5, <2>1, <2>2, FrameThen
  <2> QED BY <1>6, <2>1, <2>3, <2>4
<1>9. more[n] = t
  <2>1. more[n] = <<>> \odot t
    BY <1>4, <1>6
  <2> QED BY <2>1, Joined
<1>10. IF torn' = <<>> THEN more[n] = <<>>
       ELSE \E q \in Seq(Byte) \ {<<>>} : more[n] \odot q = Frame(torn'[1])
  <2>1. CASE k = 0
    BY <1>2, <1>4, <1>9, <2>1
  <2>2. CASE k # 0
    <3>1. torn' # <<>> /\ torn'[1] = m
      BY <1>4, <2>2
    <3> QED BY <1>2, <1>9, <3>1
  <2> QED BY <2>1, <2>2
<1>11. Suffixes(more)'
  BY <1>1, <1>4, <1>7, <1>8, <1>10 DEF Suffixes
<1> QED BY <1>1, <1>2, <1>6, <1>11

------------------------------------------------------------------------------
\* The invariant.

\* At the end of the input, all that was sent whole has been taken.
LEMMA AllTakenAtTheEnd ==
    ASSUME Types, EndOfInput, NEW rest, NEW d, Suffixes(rest), Taken(rest, d)
    PROVE  d = Len(sent)
<1> SUFFICES ASSUME d # Len(sent) PROVE FALSE
  OBVIOUS
<1>1. Len(sent) \in Nat /\ d \in 0..Len(sent) /\ d + 1 \in 1..Len(sent)
  BY LenProperties DEF Taken, Types
<1>2. PICK m \in Messages : m = sent[d + 1]
  BY <1>1, ElementOfSeq DEF Types
<1>3. PICK r \in Seq(Byte) : r = rest[d + 1]
  BY <1>1 DEF Suffixes
<1>4. Stream = Frame(m) \odot r
  <2>1. rest[(d + 1) - 1] = Frame(sent[d + 1]) \odot rest[d + 1]
    BY <1>1 DEF Suffixes
  <2> QED BY <1>1, <1>2, <1>3, <2>1 DEF Taken
<1>5. /\ m \in Seq(Byte) /\ Len(m) \in Nat /\ Len(m) <= MaxLength
      /\ Frame(m) \in Seq(Byte) /\ Len(Frame(m)) = HeaderBytes + Len(m)
  BY MessageProperties, FrameProperties, LenProperties
<1>6. pipe = <<>> /\ buffer \odot pipe = buffer /\ buffer \in Seq(Byte) /\ Len(buffer) \in Nat
  BY Joined DEF EndOfInput, Types
<1>7. Len(Stream) = HeaderBytes + Len(m) + Len(r) /\ Len(r) \in Nat
  <2>1. Len(Frame(m) \odot r) = Len(Frame(m)) + Len(r) /\ Len(r) \in Nat
    BY <1>5, JoinLen
  <2> QED BY <1>4, <1>5, <2>1
<1>8. CASE pc = "header"
  <2>1. Stream = buffer
    BY <1>6, <1>8, Joined DEF Stream
  <2> QED BY <1>5, <1>6, <1>7, <1>8, <2>1 DEF EndOfInput, Reading, Wanted, HeaderBytes
<1>9. CASE pc = "payload"
  <2>1. Stream = Encode(need) \odot buffer
    BY <1>6, <1>9 DEF Stream
  <2>2. Encode(need) \in Seq(Byte) /\ Len(Encode(need)) = HeaderBytes /\ Decode(Encode(need)) = need
    BY EncodeProperties DEF Types
  <2>3. Encode(need) = Encode(Len(m))
    <3>1. Encode(need) \odot buffer = Frame(m) \odot r
      BY <1>4, <2>1
    <3> QED BY <1>5, <1>6, <2>2, <3>1, HeaderOfFrame
  <2>4. need = Len(m)
    BY <1>5, <2>2, <2>3, EncodeProperties, FramingAssumption DEF MaxLength
  <2>5. Len(Stream) = HeaderBytes + Len(buffer)
    <3>1. Len(Encode(need) \odot buffer) = Len(Encode(need)) + Len(buffer)
      BY <1>6, <2>2, JoinLen
    <3> QED BY <2>1, <2>2, <3>1
  <2> QED BY <1>5, <1>6, <1>7, <1>9, <2>4, <2>5 DEF EndOfInput, Reading, Wanted, HeaderBytes
<1> QED BY <1>8, <1>9 DEF EndOfInput, Reading

\* Bytes that begin with a header are some.
LEMMA NotEmpty ==
    ASSUME NEW h \in Seq(Byte), Len(h) = HeaderBytes, NEW p \in Seq(Byte)
    PROVE  h \odot p # <<>>
<1>1. Len(h \odot p) = Len(h) + Len(p) /\ Len(p) \in Nat
  BY JoinLen
<1>2. Len(h \odot p) # 0
  BY <1>1 DEF HeaderBytes
<1> QED BY <1>2, EmptySeq

\* At most one message is torn.
LEMMA TornMessage == Types /\ torn # <<>> => Len(torn) = 1 /\ torn[1] \in Messages
<1> SUFFICES ASSUME Types, torn # <<>> PROVE Len(torn) = 1 /\ torn[1] \in Messages
  OBVIOUS
<1>1. torn \in Seq(Messages) /\ Len(torn) <= 1
  BY DEF Types
<1>2. PICK n \in Nat \ {0} : n = Len(torn)
  BY <1>1, EmptySeq
<1>3. Len(torn) = 1
  <2>1. n <= 1
    BY <1>1, <1>2
  <2>2. n = 1
    BY <2>1
  <2> QED BY <1>2, <2>2
<1>4. torn[1] \in Messages
  <2>1. 1 \in 1..Len(torn)
    BY <1>3
  <2> QED BY <1>1, <2>1, ElementOfSeq
<1> QED BY <1>3, <1>4

\* A header above the limit announces the next message, whole or torn.
LEMMA TooLargeIsNext ==
    ASSUME Types, HeaderComplete, Decode(buffer) > MaxRequest,
           NEW rest, NEW d, Suffixes(rest), Taken(rest, d)
    PROVE  d < Len(sent \o torn) /\ ~Legal((sent \o torn)[d + 1])
<1>1. /\ Len(sent) \in Nat /\ d \in 0..Len(sent)
      /\ Len(sent \o torn) = Len(sent) + Len(torn)
      /\ \A i \in 1..Len(sent) + Len(torn) :
             (sent \o torn)[i] = IF i <= Len(sent) THEN sent[i] ELSE torn[i - Len(sent)]
  BY LenProperties, ConcatProperties DEF Taken, Types
<1>2. /\ buffer \in Seq(Byte) /\ Len(buffer) = HeaderBytes /\ pipe \in Seq(Byte)
      /\ Stream = buffer \odot pipe
  BY Joined DEF HeaderComplete, Stream, Types
<1>3. MaxLength \in Int /\ MaxRequest \in Nat
  BY FramingAssumption DEF MaxLength
<1>4. CASE d < Len(sent)
  <2>1. d + 1 \in 1..Len(sent)
    BY <1>1, <1>4
  <2>2. PICK m \in Messages : m = sent[d + 1]
    BY <2>1, ElementOfSeq DEF Types
  <2>3. m \in Seq(Byte) /\ Len(m) \in 0..MaxLength /\ Len(m) <= MaxLength
    BY <1>3, MessageProperties, LenProperties
  <2>4. PICK r \in Seq(Byte) : buffer \odot pipe = Frame(m) \odot r
    <3>1. rest[(d + 1) - 1] = Frame(sent[d + 1]) \odot rest[d + 1] /\ rest[d + 1] \in Seq(Byte)
      BY <2>1 DEF Suffixes
    <3>2. (d + 1) - 1 = d
      BY <1>1
    <3>3. buffer \odot pipe = Frame(m) \odot rest[d + 1]
      BY <1>2, <2>2, <3>1, <3>2 DEF Taken
    <3> QED BY <3>1, <3>3
  <2>5. buffer = Encode(Len(m))
    BY <1>2, <2>3, <2>4, HeaderOfFrame
  <2>6. Len(m) > MaxRequest
    BY <2>3, <2>5, EncodeProperties
  <2>7. (sent \o torn)[d + 1] = m /\ Len(torn) \in Nat
    BY <1>1, <2>1, <2>2, LenProperties DEF Types
  <2> QED BY <1>1, <1>3, <1>4, <2>3, <2>6, <2>7 DEF Legal
<1>5. CASE d = Len(sent)
  <2>1. Stream = rest[Len(sent)] /\ Stream # <<>>
    <3>1. Stream # <<>>
      BY <1>2, NotEmpty
    <3> QED BY <1>5, <3>1 DEF Taken
  <2>2. torn # <<>> /\ \E q \in Seq(Byte) \ {<<>>} : Stream \odot q = Frame(torn[1])
    BY <2>1 DEF Suffixes
  <2>3. PICK q \in Seq(Byte) \ {<<>>} : (buffer \odot pipe) \odot q = Frame(torn[1])
    BY <1>2, <2>2
  <2>4. Len(torn) = 1 /\ torn[1] \in Messages
    BY <2>2, TornMessage
  <2>5. PICK m \in Messages : m = torn[1]
    BY <2>4
  <2>6. m \in Seq(Byte) /\ Len(m) \in 0..MaxLength /\ Len(m) <= MaxLength
    BY <1>3, MessageProperties, LenProperties
  <2>7. buffer = Encode(Len(m))
    BY <1>2, <2>3, <2>5, <2>6, HeaderOfTornFrame
  <2>8. Len(m) > MaxRequest
    BY <2>6, <2>7, EncodeProperties
  <2>9. (sent \o torn)[d + 1] = m
    BY <1>1, <1>5, <2>4, <2>5
  <2> QED BY <1>1, <1>3, <1>5, <2>4, <2>6, <2>8, <2>9 DEF Legal
<1> QED BY <1>1, <1>4, <1>5

\* A payload that is complete is the next message.
LEMMA PayloadIsNext ==
    ASSUME Types, pc = "payload", Len(buffer) = need,
           NEW rest, NEW d, Suffixes(rest), Taken(rest, d)
    PROVE  d < Len(sent) /\ buffer = sent[d + 1] /\ pipe = rest[d + 1]
<1>1. Len(sent) \in Nat /\ d \in 0..Len(sent)
  BY LenProperties DEF Taken, Types
<1>2. MaxLength \in Int /\ MaxRequest \in Nat /\ MaxRequest < MaxLength
  BY FramingAssumption DEF MaxLength
<1>3. /\ buffer \in Seq(Byte) /\ Len(buffer) \in 0..MaxLength /\ Len(buffer) <= MaxLength
      /\ pipe \in Seq(Byte) /\ buffer \odot pipe \in Seq(Byte)
      /\ Stream = Encode(Len(buffer)) \odot (buffer \odot pipe)
  BY <1>2, Joined DEF Stream, Types
<1>4. Encode(Len(buffer)) \in Seq(Byte) /\ Len(Encode(Len(buffer))) = HeaderBytes
  BY <1>3, EncodeProperties
<1>5. CASE d < Len(sent)
  <2>1. d + 1 \in 1..Len(sent)
    BY <1>1, <1>5
  <2>2. PICK m \in Messages : m = sent[d + 1]
    BY <2>1, ElementOfSeq DEF Types
  <2>3. m \in Seq(Byte) /\ Len(m) <= MaxLength
    BY MessageProperties
  <2>4. PICK r \in Seq(Byte) : r = rest[d + 1]
    BY <2>1 DEF Suffixes
  <2>5. Stream = Frame(m) \odot r
    <3>1. rest[(d + 1) - 1] = Frame(sent[d + 1]) \odot rest[d + 1]
      BY <2>1 DEF Suffixes
    <3>2. (d + 1) - 1 = d
      BY <1>1
    <3> QED BY <2>2, <2>4, <3>1, <3>2 DEF Taken
  <2>6. Encode(Len(buffer)) \odot (buffer \odot pipe) = Frame(m) \odot r
    BY <1>3, <2>5
  <2>7. buffer = m /\ pipe = r
    BY <1>3, <2>3, <2>6, FrameIsUnique
  <2> QED BY <1>5, <2>2, <2>4, <2>7
<1>6. CASE d = Len(sent)
  <2>1. Stream = rest[Len(sent)] /\ Stream # <<>>
    <3>1. Stream # <<>>
      BY <1>3, <1>4, NotEmpty
    <3> QED BY <1>6, <3>1 DEF Taken
  <2>2. torn # <<>> /\ \E q \in Seq(Byte) \ {<<>>} : Stream \odot q = Frame(torn[1])
    BY <2>1 DEF Suffixes
  <2>3. PICK q \in Seq(Byte) \ {<<>>} :
            (Encode(Len(buffer)) \odot (buffer \odot pipe)) \odot q = Frame(torn[1])
    BY <1>3, <2>2
  <2>4. Len(torn) = 1 /\ torn[1] \in Messages
    BY <2>2, TornMessage
  <2>5. PICK m \in Messages : m = torn[1]
    BY <2>4
  <2>6. m \in Seq(Byte) /\ Len(m) \in 0..MaxLength /\ Len(m) <= MaxLength
    BY <1>2, MessageProperties, LenProperties
  <2>7. Encode(Len(buffer)) = Encode(Len(m)) /\ Len(buffer \odot pipe) < Len(m)
    BY <1>3, <1>4, <2>3, <2>5, <2>6, HeaderOfTornFrame
  <2>8. Len(buffer) = Len(m)
    BY <1>3, <2>6, <2>7, EncodeProperties
  <2>9. Len(buffer \odot pipe) = Len(buffer) + Len(pipe) /\ Len(pipe) \in Nat
    BY <1>3, JoinLen
  <2> QED BY <1>3, <2>6, <2>7, <2>8, <2>9
<1> QED BY <1>1, <1>5, <1>6

\* The invariant holds at the start, where nothing was sent.
LEMMA InvInit == Init => Inv
<1> SUFFICES ASSUME Init PROVE Inv
  OBVIOUS
<1>1. Types
  BY TypesInit
<1>2. /\ sent = <<>> /\ torn = <<>> /\ pipe = <<>> /\ buffer = <<>> /\ answers = <<>>
      /\ pc = "start" /\ exit = 0 /\ ~fault
  BY DEF Init
<1>3. Len(sent) = 0 /\ Len(answers) = 0
  BY <1>2
<1>4. PICK rest : rest = [i \in 0..0 |-> <<>>]
  OBVIOUS
<1>5. Suffixes(rest)
  BY <1>2, <1>3, <1>4, JoinType DEF Suffixes
<1>6. Stream = <<>>
  BY <1>2, JoinType, JoinEmpty DEF Stream
<1>7. Taken(rest, 0)
  BY <1>2, <1>3, <1>4, <1>6 DEF Taken
<1> QED BY <1>1, <1>2, <1>5, <1>7 DEF Inv, InStep, NothingSkipped

\* A step of the host that leaves the stream and what it has done alone.
LEMMA TakenStays ==
    ASSUME Types, InStep, pc # "write", pc' # "write", Stream' = Stream,
           UNCHANGED <<sent, torn, deaf, answers>>
    PROVE  InStep'
<1>1. PICK rest, d : Suffixes(rest) /\ Taken(rest, d)
  BY DEF InStep
<1>2. Suffixes(rest)'
  BY <1>1 DEF Suffixes
<1>3. Taken(rest, d)'
  BY <1>1 DEF Taken
<1> QED BY <1>2, <1>3 DEF InStep

\* Sending keeps the host in step with the messages.
LEMMA InStepSend ==
    ASSUME Types, InStep, NEW m \in Messages, Send(m)
    PROVE  InStep'
<1>1. PICK rest, d : Suffixes(rest) /\ Taken(rest, d)
  BY DEF InStep
<1>2. PICK more : /\ Suffixes(more)'
                  /\ \A i \in 0..Len(sent) : more[i] = rest[i] \odot Frame(m)
  BY <1>1, SuffixesOfSend
<1>3. d \in 0..Len(sent) /\ Len(sent) \in Nat
  BY <1>1, LenProperties DEF Taken, Types
<1>4. Len(sent') = Len(sent) + 1 /\ \A i \in 1..Len(sent) : sent'[i] = sent[i]
  BY AppendProperties DEF Send, Types
<1>5. Stream' = Stream \odot Frame(m)
  <2>1. PICK h \in Seq(Byte) : /\ h = IF pc = "payload" THEN Encode(need) ELSE <<>>
    BY EncodeProperties, JoinType DEF Types
  <2>2. Frame(m) \in Seq(Byte) /\ buffer \in Seq(Byte) /\ pipe \in Seq(Byte)
        /\ buffer \odot pipe \in Seq(Byte)
    BY MessageProperties, FrameProperties, JoinType DEF Types
  <2>3. pipe' = pipe \odot Frame(m)
    BY DEF Send, \odot
  <2>4. Stream' = h \odot (buffer \odot (pipe \odot Frame(m)))
    BY <2>1, <2>3 DEF Send, Stream
  <2>5. Stream = h \odot (buffer \odot pipe)
    BY <2>1 DEF Stream
  <2>6. buffer \odot (pipe \odot Frame(m)) = (buffer \odot pipe) \odot Frame(m)
    BY <2>2, Joined
  <2>7. h \odot ((buffer \odot pipe) \odot Frame(m)) = (h \odot (buffer \odot pipe)) \odot Frame(m)
    BY <2>2, Joined
  <2> QED BY <2>4, <2>5, <2>6, <2>7
<1>6. Stream' = more[d]
  BY <1>1, <1>2, <1>3, <1>5 DEF Taken
<1>7. Taken(more, d)'
  BY <1>1, <1>3, <1>4, <1>6 DEF Taken, Send
<1> QED BY <1>2, <1>7 DEF InStep

\* So does the end of the browser, in the middle of a frame or not.
LEMMA InStepHangup ==
    ASSUME Types, InStep, NEW m \in Messages, NEW k \in 0..HeaderBytes + Len(m) - 1,
           Hangup(m, k)
    PROVE  InStep'
<1>1. PICK rest, d : Suffixes(rest) /\ Taken(rest, d)
  BY DEF InStep
<1>2. PICK t \in Seq(Byte) : t = SubSeq(Frame(m), 1, k)
  BY TornProperties
<1>3. PICK more : /\ Suffixes(more)'
                  /\ \A i \in 0..Len(sent) : more[i] = rest[i] \odot t
  BY <1>1, <1>2, SuffixesOfHangup
<1>4. d \in 0..Len(sent)
  BY <1>1 DEF Taken
<1>5. Stream' = Stream \odot t
  <2>1. PICK h \in Seq(Byte) : /\ h = IF pc = "payload" THEN Encode(need) ELSE <<>>
    BY EncodeProperties, JoinType DEF Types
  <2>2. buffer \in Seq(Byte) /\ pipe \in Seq(Byte) /\ buffer \odot pipe \in Seq(Byte)
    BY JoinType DEF Types
  <2>3. pipe' = pipe \odot t
    BY <1>2 DEF Hangup, \odot
  <2>4. Stream' = h \odot (buffer \odot (pipe \odot t))
    BY <2>1, <2>3 DEF Hangup, Stream
  <2>5. Stream = h \odot (buffer \odot pipe)
    BY <2>1 DEF Stream
  <2>6. buffer \odot (pipe \odot t) = (buffer \odot pipe) \odot t
    BY <2>2, Joined
  <2>7. h \odot ((buffer \odot pipe) \odot t) = (h \odot (buffer \odot pipe)) \odot t
    BY <2>2, Joined
  <2> QED BY <2>4, <2>5, <2>6, <2>7
<1>6. Stream' = more[d]
  BY <1>1, <1>3, <1>4, <1>5 DEF Taken
<1>7. Taken(more, d)'
  BY <1>1, <1>6 DEF Taken, Hangup
<1> QED BY <1>3, <1>7 DEF InStep

\* Handling a payload takes one message, the next one.
LEMMA InStepHandle == Types /\ InStep /\ Handle => InStep'
<1> SUFFICES ASSUME Types, InStep, Handle PROVE InStep'
  OBVIOUS
<1>1. PICK rest, d : Suffixes(rest) /\ Taken(rest, d)
  BY DEF InStep
<1>2. pc = "payload" /\ Len(buffer) = need /\ need <= MaxRequest
  BY DEF Handle, Types
<1>3. d < Len(sent) /\ buffer = sent[d + 1] /\ pipe = rest[d + 1]
  BY <1>1, <1>2, PayloadIsNext
<1>4. Len(sent) \in Nat /\ d \in 0..Len(sent) /\ d + 1 \in 1..Len(sent)
  BY <1>1, <1>3, LenProperties DEF Taken, Types
<1>5. Suffixes(rest)'
  BY <1>1 DEF Suffixes, Handle, browser
<1>6. Stream' = rest[d + 1]
  <2>1. Stream' = <<>> \odot (<<>> \odot pipe) /\ pipe \in Seq(Byte)
    BY DEF Handle, Stream, Types
  <2>2. <<>> \odot pipe = pipe
    BY <2>1, JoinEmpty
  <2> QED BY <1>3, <2>1, <2>2
<1>7. \A i \in 1..d + 1 : Legal(sent[i])
  <2>1. Legal(sent[d + 1])
    BY <1>2, <1>3 DEF Legal
  <2>2. \A i \in 1..d + 1 : i = d + 1 \/ i \in 1..d
    BY <1>4
  <2> QED BY <1>1, <2>1, <2>2 DEF Taken
<1>8. reply' \in Responses(sent[d + 1]) /\ pc' = "write" /\ sent' = sent /\ deaf' = deaf
      /\ answers' = answers
  BY <1>3 DEF Handle, browser
<1>9. ~deaf => Len(answers) = (d + 1) - 1
  BY <1>1, <1>2, <1>4 DEF Taken
<1>10. Taken(rest, d + 1)'
  BY <1>4, <1>6, <1>7, <1>8, <1>9 DEF Taken
<1> QED BY <1>5, <1>10 DEF InStep

\* Writing answers it.
LEMMA InStepWrite == Types /\ InStep /\ Write /\ pc' # "exited" => InStep'
<1> SUFFICES ASSUME Types, InStep, Write, pc' # "exited" PROVE InStep'
  OBVIOUS
<1>1. PICK rest, d : Suffixes(rest) /\ Taken(rest, d)
  BY DEF InStep
<1>2. pc = "write" /\ pc' = "header" /\ UNCHANGED <<sent, torn, deaf, pipe, need, buffer>>
  BY DEF Write, ExitWith, browser, input
<1>3. Suffixes(rest)'
  BY <1>1, <1>2 DEF Suffixes
<1>4. Stream' = Stream
  BY <1>2 DEF Stream
<1>5. ~deaf => Len(answers') = d
  <2> SUFFICES ASSUME ~deaf PROVE Len(answers') = d
    OBVIOUS
  <2>1. Replaced(reply) \in Answer
    BY <1>2, ReplacedProperties DEF Types
  <2>2. answers' = Append(answers, Replaced(reply))
    BY DEF Write
  <2>3. Len(answers') = Len(answers) + 1
    BY <2>1, <2>2, AppendProperties DEF Types
  <2>4. Len(answers) = d - 1 /\ d \in Int
    BY <1>1, <1>2 DEF Taken
  <2> QED BY <2>3, <2>4
<1>6. Taken(rest, d)'
  BY <1>1, <1>2, <1>4, <1>5 DEF Taken
<1> QED BY <1>3, <1>6 DEF InStep

\* The message above the limit that ended the loop stays where it is.
LEMMA MoreKeepsTooLarge ==
    ASSUME Types, torn = <<>>, NEW n \in Nat, n < Len(sent \o torn), ~Legal((sent \o torn)[n + 1]),
           \/ torn' = <<>> /\ \E m \in Messages : sent' = Append(sent, m)
           \/ sent' = sent /\ torn' \in Seq(Messages)
    PROVE  n < Len(sent' \o torn') /\ ~Legal((sent' \o torn')[n + 1])
<1>1. sent \in Seq(Messages) /\ sent \o torn = sent
  BY ConcatEmptySeq DEF Types
<1>2. Len(sent) \in Nat /\ n < Len(sent) /\ n + 1 \in 1..Len(sent) /\ ~Legal(sent[n + 1])
  BY <1>1, LenProperties
<1>3. CASE torn' = <<>> /\ \E m \in Messages : sent' = Append(sent, m)
  <2>1. PICK m \in Messages : sent' = Append(sent, m)
    BY <1>3
  <2>2. sent' \in Seq(Messages) /\ Len(sent') = Len(sent) + 1 /\ sent'[n + 1] = sent[n + 1]
    BY <1>1, <1>2, <2>1, AppendProperties
  <2>3. sent' \o torn' = sent'
    BY <1>3, <2>2, ConcatEmptySeq
  <2> QED BY <1>2, <2>2, <2>3
<1>4. CASE sent' = sent /\ torn' \in Seq(Messages)
  <2>1. Len(torn') \in Nat
    BY <1>4, LenProperties
  <2>2. Len(sent \o torn') = Len(sent) + Len(torn')
    BY <1>1, <1>4, ConcatProperties
  <2>3. n + 1 \in 1..Len(sent) + Len(torn') /\ n + 1 <= Len(sent)
    BY <1>2, <2>1
  <2>4. (sent \o torn')[n + 1] = sent[n + 1]
    BY <1>1, <1>4, <2>3, ConcatProperties
  <2> QED BY <1>2, <1>4, <2>1, <2>2, <2>4
<1> QED BY <1>3, <1>4

\* Once the host has ended, what it told stays true.
LEMMA EndedStays ==
    ASSUME Inv, pc = "exited", UNCHANGED <<pc, exit, fault, deaf, answers>>, ~closed, torn = <<>>,
           \/ torn' = <<>> /\ \E m \in Messages : sent' = Append(sent, m)
           \/ sent' = sent /\ torn' \in Seq(Messages)
    PROVE  NothingSkipped'
<1> SUFFICES ASSUME exit # 2, ~fault, ~deaf
             PROVE  exit = 1 /\ Len(answers) < Len(sent' \o torn')
                      /\ ~Legal((sent' \o torn')[Len(answers) + 1])
  BY DEF NothingSkipped
<1>1. exit = 1 /\ Len(answers) < Len(sent \o torn) /\ ~Legal((sent \o torn)[Len(answers) + 1])
  BY DEF Inv, NothingSkipped
<1>2. Len(answers) \in Nat
  BY LenProperties DEF Inv, Types
<1> QED BY <1>1, <1>2, MoreKeepsTooLarge DEF Inv

\* Every step keeps the invariant.
LEMMA InvStep == Inv /\ [Next]_vars => Inv'
<1> SUFFICES ASSUME Inv, [Next]_vars PROVE Inv'
  OBVIOUS
<1>1. Types /\ Types'
  BY TypesStep DEF Inv
<1>2. ASSUME NEW m \in Messages, Send(m) PROVE Inv'
  <2>1. ~closed /\ torn = <<>> /\ torn' = <<>> /\ sent' = Append(sent, m)
        /\ UNCHANGED <<pc, exit, fault, deaf, answers, closed>>
    BY <1>1, <1>2 DEF Send, Types
  <2>2. CASE pc = "exited"
    BY <1>1, <2>1, <2>2, EndedStays DEF Inv
  <2>3. CASE pc # "exited"
    <3>1. InStep'
      BY <1>1, <1>2, <2>3, InStepSend DEF Inv
    <3> QED BY <1>1, <2>1, <2>3, <3>1 DEF Inv, NothingSkipped
  <2> QED BY <2>2, <2>3
<1>3. ASSUME NEW m \in Messages, NEW k \in 0..HeaderBytes + Len(m) - 1, Hangup(m, k)
      PROVE  Inv'
  <2>1. ~closed /\ torn = <<>> /\ sent' = sent /\ torn' \in Seq(Messages)
        /\ UNCHANGED <<pc, exit, fault, deaf, answers>> /\ closed'
    BY <1>1, <1>3 DEF Hangup, Types
  <2>2. CASE pc = "exited"
    BY <1>1, <2>1, <2>2, EndedStays DEF Inv
  <2>3. CASE pc # "exited"
    <3>1. InStep'
      BY <1>1, <1>3, <2>3, InStepHangup DEF Inv
    <3> QED BY <1>1, <2>1, <2>3, <3>1 DEF Inv, NothingSkipped
  <2> QED BY <2>2, <2>3
<1>4. CASE StopReading
  <2>1. deaf' /\ UNCHANGED <<sent, torn, closed, input, pc, reply, answers, fault, exit>>
    BY <1>4 DEF StopReading
  <2>2. Stream' = Stream
    BY <2>1 DEF Stream, input
  <2>3. InStep => InStep'
    BY <2>1, <2>2 DEF InStep, Suffixes, Taken
  <2> QED BY <1>1, <2>1, <2>3 DEF Inv, NothingSkipped
<1>5. ASSUME NEW args \in Arguments, Start(args) PROVE Inv'
  <2>1. /\ pc = "start" /\ UNCHANGED <<browser, input, reply, answers, fault>>
        /\ \/ pc' = "header" /\ exit' = exit
           \/ pc' = "exited" /\ exit' = 2
    BY <1>5 DEF Start, ExitWith
  <2>2. CASE pc' = "exited"
    BY <1>1, <2>1, <2>2 DEF Inv, NothingSkipped
  <2>3. CASE pc' = "header"
    <3>1. Stream' = Stream
      BY <2>1, <2>3 DEF Stream, input
    <3>2. InStep'
      BY <1>1, <2>1, <2>3, <3>1, TakenStays DEF Inv, browser
    <3> QED BY <1>1, <2>1, <2>3, <3>2 DEF Inv, NothingSkipped
  <2> QED BY <2>1, <2>2, <2>3
<1>6. CASE ReadSome
  <2>1. pc # "exited" /\ pc # "write"
        /\ UNCHANGED <<browser, need, pc, reply, answers, fault, exit>>
    BY <1>6 DEF ReadSome, Reading
  <2>2. InStep'
    BY <1>1, <1>6, <2>1, ReadKeepsStream, TakenStays DEF Inv, browser
  <2> QED BY <1>1, <2>1, <2>2 DEF Inv, NothingSkipped
<1>7. CASE EndOfInput
  <2>1. /\ pc \in {"header", "payload"} /\ closed /\ pc' = "exited" /\ exit' = 0
        /\ UNCHANGED <<browser, input, reply, answers, fault>>
    BY <1>7 DEF EndOfInput, Reading, ExitWith
  <2>2. PICK rest, d : Suffixes(rest) /\ Taken(rest, d)
    BY <2>1 DEF Inv, InStep
  <2>3. ~deaf => Len(answers) = Len(sent)
    BY <1>1, <1>7, <2>1, <2>2, AllTakenAtTheEnd DEF Taken
  <2> QED BY <1>1, <2>1, <2>3 DEF Inv, NothingSkipped, browser
<1>8. CASE ReadFails
  BY <1>1, <1>8 DEF ReadFails, ExitWith, Inv, NothingSkipped
<1>9. CASE TakeHeader
  <2>1. /\ HeaderComplete /\ pc = "header" /\ UNCHANGED <<browser, pipe, reply, answers, fault>>
        /\ \/ Decode(buffer) > MaxRequest /\ pc' = "exited" /\ exit' = 1
           \/ pc' = "payload" /\ exit' = exit
    BY <1>9 DEF TakeHeader, HeaderComplete, ExitWith
  <2>2. CASE Decode(buffer) > MaxRequest /\ pc' = "exited" /\ exit' = 1
    <3>1. PICK rest, d : Suffixes(rest) /\ Taken(rest, d)
      BY <2>1 DEF Inv, InStep
    <3>2. d < Len(sent \o torn) /\ ~Legal((sent \o torn)[d + 1])
      BY <1>1, <2>1, <2>2, <3>1, TooLargeIsNext
    <3>3. ~deaf => Len(answers) = d
      BY <2>1, <3>1 DEF Taken
    <3> QED BY <1>1, <2>1, <2>2, <3>2, <3>3 DEF Inv, NothingSkipped, browser
  <2>3. CASE pc' = "payload" /\ exit' = exit
    <3>1. InStep'
      BY <1>1, <1>9, <2>1, <2>3, HeaderKeepsStream, TakenStays DEF Inv, browser
    <3> QED BY <1>1, <2>1, <2>3, <3>1 DEF Inv, NothingSkipped
  <2> QED BY <2>1, <2>2, <2>3
<1>10. CASE Handle
  <2>1. pc = "payload" /\ pc' = "write" /\ UNCHANGED <<fault, exit>>
    BY <1>10 DEF Handle
  <2>2. InStep'
    BY <1>1, <1>10, <2>1, InStepHandle DEF Inv
  <2> QED BY <1>1, <2>1, <2>2 DEF Inv, NothingSkipped
<1>11. CASE Write
  <2>1. /\ pc = "write" /\ UNCHANGED <<browser, input, fault>>
        /\ \/ deaf /\ pc' = "exited" /\ exit' = 0
           \/ pc' = "header" /\ exit' = exit
    BY <1>11 DEF Write, ExitWith
  <2>2. CASE deaf /\ pc' = "exited" /\ exit' = 0
    BY <1>1, <2>1, <2>2 DEF Inv, NothingSkipped, browser
  <2>3. CASE pc' = "header" /\ exit' = exit
    <3>1. InStep'
      BY <1>1, <1>11, <2>1, <2>3, InStepWrite DEF Inv
    <3> QED BY <1>1, <2>1, <2>3, <3>1 DEF Inv, NothingSkipped
  <2> QED BY <2>1, <2>2, <2>3
<1>12. CASE UNCHANGED vars
  <2>1. Stream' = Stream
    BY <1>12 DEF vars, input, Stream
  <2>2. InStep => InStep'
    BY <1>12, <2>1 DEF vars, browser, InStep, Suffixes, Taken
  <2> QED BY <1>1, <1>12, <2>2 DEF vars, browser, Inv, NothingSkipped
<1> QED BY <1>2, <1>3, <1>4, <1>5, <1>6, <1>7, <1>8, <1>9, <1>10, <1>11, <1>12 DEF Next, Host

------------------------------------------------------------------------------
\* The results.

\* What has not been taken of the pipe is always exactly the frames of the
\* messages that come next (read_message and the loop of native_mode).
THEOREM AlwaysInv == Spec => []Inv
  BY InvInit, InvStep, PTL DEF Spec

\* No read goes beyond the part it fills, no length above MAX_REQUEST_BYTES is
\* ever waited for, and what is written is small: for every limit and width.
THEOREM TypeCorrect == Spec => []TypeOK
<1>1. Inv => TypeOK
  <2> SUFFICES ASSUME Types PROVE TypeOK
    BY DEF Inv
  <2>1. \A i \in DOMAIN answers : answers[i] \in Answer
    BY ElementOfSeq, LenProperties DEF Types
  <2>2. \A i \in DOMAIN answers : answers[i].code \in Codes /\ ~answers[i].big
    BY <2>1 DEF Answer, Reply
  <2> QED BY <2>2 DEF Types, TypeOK
<1> QED BY <1>1, AlwaysInv, PTL

\* The exit code and the answers tell the truth, however the pipe cuts the
\* frames and wherever the browser dies in one (native_mode, main.rs).
THEOREM NothingIsSkipped == Spec => []NothingSkipped
  BY AlwaysInv, PTL DEF Inv

\* The loop starts as the exchange of messages does.
LEMMA InitMaps == Init => Messaging!Init
  BY DEF Init, Messaging!Init

\* A step of the loop, of the browser or of the pipe is a step of the exchange
\* of messages or leaves it as it is.
LEMMA StepMaps == Inv /\ [Next]_vars => [Messaging!Next]_Messaging!vars
<1> SUFFICES ASSUME Inv, [Next]_vars PROVE [Messaging!Next]_Messaging!vars
  OBVIOUS
<1> USE DEF Messaging!vars
<1>1. ASSUME NEW m \in Messages, Send(m) PROVE Messaging!Send
  BY <1>1 DEF Send, Messaging!Send
<1>2. ASSUME NEW m \in Messages, NEW k \in 0..HeaderBytes + Len(m) - 1, Hangup(m, k)
      PROVE  UNCHANGED Messaging!vars
  BY <1>2 DEF Hangup
<1>3. CASE StopReading
  BY <1>3 DEF StopReading
<1>4. ASSUME NEW args \in Arguments, Start(args)
      PROVE  UNCHANGED Messaging!vars \/ Messaging!Stop
  BY <1>4 DEF Start, ExitWith, browser, Messaging!Stop
<1>5. CASE ReadSome
  BY <1>5 DEF ReadSome, browser
<1>6. CASE EndOfInput \/ ReadFails
  BY <1>6 DEF EndOfInput, ReadFails, Reading, ExitWith, browser, Messaging!Stop, Messaging!Next
<1>7. CASE TakeHeader
  BY <1>7 DEF TakeHeader, HeaderComplete, ExitWith, browser, Messaging!Stop, Messaging!Next
<1>8. CASE Handle
  BY <1>8 DEF Handle, browser
<1>9. CASE Write
  <2>1. pc = "write" /\ sent' = sent
    BY <1>9 DEF Write, browser
  <2>2. CASE deaf
    BY <1>9, <2>1, <2>2 DEF Write, ExitWith, Messaging!Stop, Messaging!Next
  <2>3. CASE ~deaf
    <3>1. pc' = "header" /\ answers' = Append(answers, Replaced(reply))
      BY <1>9, <2>3 DEF Write
    <3>2. PICK rest, d : Taken(rest, d)
      BY <2>1 DEF Inv, InStep
    <3>3. d \in 0..Len(sent) /\ Len(answers) = d - 1 /\ Len(sent) \in Nat /\ d > 0
      BY <2>1, <2>3, <3>2, LenProperties DEF Taken, Inv, Types
    <3>4. Len(answers) + 1 = d /\ Len(answers) < Len(sent)
      BY <3>3
    <3>5. \A i \in 1..d : Legal(sent[i])
      BY <3>2 DEF Taken
    <3>6. Replaced(reply) \in {Replaced(r) : r \in Responses(sent[d])}
      BY <2>1, <3>2 DEF Taken
    <3>7. Messaging!Answer
      BY <2>1, <3>1, <3>4, <3>5, <3>6 DEF Messaging!Answer
    <3> QED BY <3>7 DEF Messaging!Next
  <2> QED BY <2>2, <2>3
<1>10. CASE UNCHANGED vars
  BY <1>10 DEF vars, browser
<1> QED BY <1>1, <1>2, <1>3, <1>4, <1>5, <1>6, <1>7, <1>8, <1>9, <1>10
    DEF Next, Host, Messaging!Next

\* The loop over bytes implements the exchange of messages (module Exchange):
\* each message that is answered is answered once, in order, by an answer to it,
\* and none above the limit nor any after it.
THEOREM Implements == Spec => Refinement
  BY InitMaps, StepMaps, AlwaysInv, PTL DEF Spec, Refinement, Messaging!Spec
===============================================================================
