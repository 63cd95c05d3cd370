-------------------------- MODULE ChassisLinkProofs --------------------------
(***************************************************************************)
(* Proofs about ChassisLink for frames of every length, every set of bytes *)
(* and codes, any checksum operator and any number of frames and glitches. *)
(* Nothing is used of the checksum but that both ends compute the same.    *)
(***************************************************************************)
EXTENDS ChassisLink, SequenceTheorems, TLAPS

-----------------------------------------------------------------------------
(* Frames.                                                                 *)

\* A frame is its header, its data, their checksum and its tail.
LEMMA FrameShape ==
    ASSUME NEW header \in Byte, NEW tail \in Byte, NEW size \in Nat, size >= 3,
           NEW p, IsData(header, p, size), NEW f, f = Frame(header, p, tail)
    PROVE  /\ f \in Seq(Byte) /\ Len(f) = size
           /\ f[1] = header /\ f[size] = tail
           /\ Check_Sum(SubSeq(f, 1, size - 2)) = f[size - 1]
<1> DEFINE head == <<header>> \o p
           sum  == Check_Sum(head)
           end  == <<sum, tail>>
<1>1. /\ <<header>> \in Seq(Byte) /\ Len(<<header>>) = 1 /\ <<header>>[1] = header
      /\ p \in Seq(Byte) /\ Len(p) = size - 3 /\ sum \in Byte
  BY DEF IsData
<1>2. /\ head \in Seq(Byte) /\ Len(head) = size - 2 /\ head[1] = header
  <2>1. /\ head \in Seq(Byte) /\ Len(head) = 1 + (size - 3)
        /\ \A i \in 1 .. 1 + (size - 3) : head[i] = IF i <= 1 THEN <<header>>[i] ELSE p[i - 1]
    BY <1>1, ConcatProperties
  <2> QED BY <1>1, <2>1
<1>3. end \in Seq(Byte) /\ Len(end) = 2 /\ end[1] = sum /\ end[2] = tail
  BY <1>1
<1> HIDE DEF head, sum, end
<1>4. f = head \o end
  BY DEF Frame, head, sum, end
<1>5. /\ f \in Seq(Byte) /\ Len(f) = (size - 2) + 2
      /\ \A i \in 1 .. (size - 2) + 2 : f[i] = IF i <= size - 2 THEN head[i] ELSE end[i - (size - 2)]
  <2>1. /\ head \o end \in Seq(Byte) /\ Len(head \o end) = Len(head) + Len(end)
        /\ \A i \in 1 .. Len(head) + Len(end) :
              (head \o end)[i] = IF i <= Len(head) THEN head[i] ELSE end[i - Len(head)]
    BY <1>2, <1>3, ConcatProperties
  <2> QED BY <1>2, <1>3, <1>4, <2>1
<1>6. /\ Len(f) = size /\ f[1] = header /\ f[size] = tail /\ f[size - 1] = sum
      /\ \A i \in 1 .. size - 2 : f[i] = head[i]
  <2>1. /\ \A i \in 1 .. size - 2 : f[i] = head[i]
        /\ f[size - 1] = end[size - 1 - (size - 2)] /\ f[size] = end[size - (size - 2)]
    BY <1>5
  <2>2. size - 1 - (size - 2) = 1 /\ size - (size - 2) = 2 /\ 1 \in 1 .. size - 2
    OBVIOUS
  <2> QED BY <1>2, <1>3, <1>5, <2>1, <2>2
<1>7. SubSeq(f, 1, size - 2) = head
  <2>1. \A i \in 1 .. size - 2 : f[i] \in Byte
    BY <1>2, <1>6, ElementOfSeq
  <2>2. /\ SubSeq(f, 1, size - 2) \in Seq(Byte)
        /\ Len(SubSeq(f, 1, size - 2)) = size - 2
        /\ \A i \in 1 .. size - 2 : SubSeq(f, 1, size - 2)[i] = f[i]
    BY <2>1, SubSeqProperties
  <2> QED BY <1>2, <1>6, <2>2, SeqEqual
<1> QED BY <1>5, <1>6, <1>7 DEF sum

\* What one parser needs to know of the byte after p bytes of a frame f: a frame
\* of its own is whole, and its header is found where such a frame begins only.
Suits(f, p, own, header, tail, size) ==
    /\ f \in Seq(Byte) /\ Len(f) \in Nat /\ Len(f) >= 3
    /\ f \in own => /\ Len(f) = size /\ f[1] = header /\ f[size] = tail
                    /\ Check_Sum(SubSeq(f, 1, size - 2)) = f[size - 1]
    /\ f[p + 1] = header => f \in own /\ p = 0

\* The frames of either kind.
LEMMA Shapes ==
    /\ \A f \in MotionFrames :
           /\ f \in Seq(Byte) /\ Len(f) = RECEIVE_DATA_SIZE
           /\ f[1] = FRAME_HEADER /\ f[Len(f)] = FRAME_TAIL
           /\ Check_Sum(SubSeq(f, 1, Len(f) - 2)) = f[Len(f) - 1]
    /\ \A f \in ChargeFrames :
           /\ f \in Seq(Byte) /\ Len(f) = AutoCharge_DATA_SIZE
           /\ f[1] = AutoCharge_HEADER /\ f[Len(f)] = AutoCharge_TAIL
           /\ Check_Sum(SubSeq(f, 1, Len(f) - 2)) = f[Len(f) - 1]
    /\ MotionFrames \cap ChargeFrames = {}
<1>0. Codes \subseteq Byte
  BY CodesAssumption
<1>1. ASSUME NEW f \in MotionFrames
      PROVE  /\ f \in Seq(Byte) /\ Len(f) = RECEIVE_DATA_SIZE
             /\ f[1] = FRAME_HEADER /\ f[Len(f)] = FRAME_TAIL
             /\ Check_Sum(SubSeq(f, 1, Len(f) - 2)) = f[Len(f) - 1]
  <2>1. PICK p \in Payloads : f = Frame(FRAME_HEADER, p, FRAME_TAIL)
    BY DEF MotionFrames
  <2> QED BY <1>0, <2>1, LinkAssumption, FrameShape DEF Codes
<1>2. ASSUME NEW f \in ChargeFrames
      PROVE  /\ f \in Seq(Byte) /\ Len(f) = AutoCharge_DATA_SIZE
             /\ f[1] = AutoCharge_HEADER /\ f[Len(f)] = AutoCharge_TAIL
             /\ Check_Sum(SubSeq(f, 1, Len(f) - 2)) = f[Len(f) - 1]
  <2>1. PICK p \in ChargePayloads : f = Frame(AutoCharge_HEADER, p, AutoCharge_TAIL)
    BY DEF ChargeFrames
  <2> QED BY <1>0, <2>1, LinkAssumption, FrameShape DEF Codes
<1> QED BY <1>1, <1>2, CodesAssumption

\* A byte that does not mislead suits both parsers, and as a tail ends a frame.
LEMMA ByteSuits ==
    ASSUME NEW f \in MotionFrames \cup ChargeFrames, NEW p \in 0 .. Len(f) - 1,
           ~Misleads(f, p + 1)
    PROVE  /\ Suits(f, p, MotionFrames, FRAME_HEADER, FRAME_TAIL, RECEIVE_DATA_SIZE)
           /\ Suits(f, p, ChargeFrames, AutoCharge_HEADER, AutoCharge_TAIL, AutoCharge_DATA_SIZE)
           /\ f[p + 1] = FRAME_TAIL => f \in MotionFrames /\ p + 1 = Len(f)
           /\ f[p + 1] = AutoCharge_TAIL => f \in ChargeFrames /\ p + 1 = Len(f)
<1>1. /\ f \in Seq(Byte) /\ Len(f) \in Nat /\ Len(f) >= 3 /\ p \in Nat
      /\ p = 0 \/ p + 1 = Len(f) \/ p + 1 \in 2 .. Len(f) - 1
  BY Shapes, LinkAssumption
<1>2. p = 0 \/ p + 1 = Len(f) \/ f[p + 1] \notin Codes
  BY <1>1 DEF Misleads
<1>3. CASE f \in MotionFrames
  <2>1. /\ Len(f) = RECEIVE_DATA_SIZE /\ f[1] = FRAME_HEADER /\ f[Len(f)] = FRAME_TAIL
        /\ Check_Sum(SubSeq(f, 1, Len(f) - 2)) = f[Len(f) - 1] /\ f \notin ChargeFrames
    BY <1>3, Shapes
  <2>2. /\ f[p + 1] \notin {AutoCharge_HEADER, AutoCharge_TAIL}
        /\ f[p + 1] = FRAME_TAIL => p + 1 = Len(f)
        /\ f[p + 1] = FRAME_HEADER => p = 0
    <3>1. CASE p = 0
      BY <1>1, <2>1, <3>1, CodesAssumption
    <3>2. CASE p + 1 = Len(f)
      BY <2>1, <3>2, CodesAssumption
    <3>3. CASE f[p + 1] \notin Codes
      BY <3>3 DEF Codes
    <3> QED BY <1>2, <3>1, <3>2, <3>3
  <2> QED BY <1>1, <1>3, <2>1, <2>2 DEF Suits
<1>4. CASE f \in ChargeFrames
  <2>1. /\ Len(f) = AutoCharge_DATA_SIZE /\ f[1] = AutoCharge_HEADER
        /\ f[Len(f)] = AutoCharge_TAIL
        /\ Check_Sum(SubSeq(f, 1, Len(f) - 2)) = f[Len(f) - 1] /\ f \notin MotionFrames
    BY <1>4, Shapes
  <2>2. /\ f[p + 1] \notin {FRAME_HEADER, FRAME_TAIL}
        /\ f[p + 1] = AutoCharge_TAIL => p + 1 = Len(f)
        /\ f[p + 1] = AutoCharge_HEADER => p = 0
    <3>1. CASE p = 0
      BY <1>1, <2>1, <3>1, CodesAssumption
    <3>2. CASE p + 1 = Len(f)
      BY <2>1, <3>2, CodesAssumption
    <3>3. CASE f[p + 1] \notin Codes
      BY <3>3 DEF Codes
    <3> QED BY <1>2, <3>1, <3>2, <3>3
  <2> QED BY <1>1, <1>4, <2>1, <2>2 DEF Suits
<1> QED BY <1>3, <1>4

-----------------------------------------------------------------------------
(* One parser.                                                             *)

\* What a parser may hold.
Holds(buf, size) == buf \in Seq(Byte) /\ Len(buf) \in Nat /\ Len(buf) < size

\* A parser never holds a whole frame.
LEMMA CollectHolds ==
    ASSUME NEW size \in Nat, size >= 3, NEW header, NEW buf, Holds(buf, size), NEW b \in Byte
    PROVE  /\ Holds(Collect(buf, b, header, size), size)
           /\ \/ Collect(buf, b, header, size) = <<>>
              \/ /\ Len(Collect(buf, b, header, size)) = Len(buf) + 1
                 /\ Collect(buf, b, header, size) = Append(buf, b)
  BY DEF Holds, Collect

\* In step: the parser holds the part of its frame that was sent so far.
InStep(buf, own, f, p) ==
    IF f \in own THEN Len(buf) = p /\ \A k \in 1 .. p : buf[k] = f[k]
                 ELSE buf = <<>>

\* Out of step, how many frames it may still fail to deliver before it is in
\* step again: the one being sent, and the next one as well if the parser
\* holds so little that the collection outlasts the frame.
Debt(buf, own, f, p) ==
    IF InStep(buf, own, f, p) THEN 0
    ELSE IF f \in own /\ p > 0 /\ buf # <<>> /\ Len(buf) < p THEN 2
    ELSE 1

\* At the start of a frame at most one frame is at stake.
LEMMA DebtBounds ==
    ASSUME NEW buf, NEW own, NEW f, NEW p \in Nat
    PROVE  /\ Debt(buf, own, f, p) \in 0 .. 2
           /\ p = 0 => Debt(buf, own, f, p) \in 0 .. 1
  BY DEF Debt

\* The byte after f[p + 1] is the next one of the frame, or the first of another.
NextByte(f, p, nf, np) == IF p + 1 < Len(f) THEN nf = f /\ np = p + 1 ELSE np = 0

\* A byte that suits a parser in step keeps it in step.
LEMMA StaysInStep ==
    ASSUME NEW header, NEW tail, NEW size \in Nat, size >= 3, NEW own, NEW f,
           NEW p \in 0 .. Len(f) - 1, Suits(f, p, own, header, tail, size),
           NEW buf, Holds(buf, size), InStep(buf, own, f, p),
           NEW nf, NEW np, NextByte(f, p, nf, np)
    PROVE  /\ InStep(Collect(buf, f[p + 1], header, size), own, nf, np)
           /\ Complete(buf, f[p + 1], tail, size) <=> f \in own /\ p + 1 = Len(f)
<1> DEFINE b == f[p + 1]
           nbuf == Collect(buf, b, header, size)
<1>0. b \in Byte /\ Len(f) \in Nat /\ p + 1 \in 1 .. Len(f)
  BY DEF Suits
<1>1. CASE f \notin own
  <2>1. buf = <<>> /\ b # header /\ Len(buf) = 0
    BY <1>0, <1>1 DEF InStep, Suits
  <2>2. nbuf = <<>> /\ ~Complete(buf, b, tail, size)
    BY <2>1 DEF Collect, Complete
  <2> QED BY <1>0, <1>1, <2>2 DEF InStep, NextByte
<1>2. CASE f \in own /\ p + 1 < Len(f)
  <2>1. Len(buf) = p /\ Len(f) = size /\ (buf = <<>> <=> p = 0) /\ (p = 0 => b = header)
    BY <1>0, <1>2 DEF InStep, Suits, Holds
  <2>2. nbuf = Append(buf, b) /\ ~Complete(buf, b, tail, size)
    BY <1>2, <2>1 DEF Collect, Complete
  <2>3. /\ Len(nbuf) = p + 1 /\ nbuf[p + 1] = b
        /\ \A k \in 1 .. p : nbuf[k] = buf[k]
    BY <1>0, <2>1, <2>2 DEF Holds
  <2>4. \A k \in 1 .. p + 1 : nbuf[k] = f[k]
    <3> SUFFICES ASSUME NEW k \in 1 .. p + 1 PROVE nbuf[k] = f[k]
      OBVIOUS
    <3>1. k \in 1 .. p \/ k = p + 1
      OBVIOUS
    <3> QED BY <1>2, <2>3, <3>1 DEF InStep
  <2> QED BY <1>2, <2>2, <2>3, <2>4 DEF InStep, NextByte
<1>3. CASE f \in own /\ p + 1 = Len(f)
  <2>1. /\ Len(buf) + 1 = size /\ Len(f) = size /\ buf # <<>> /\ b = tail
        /\ Check_Sum(SubSeq(f, 1, size - 2)) = f[size - 1]
        /\ \A k \in 1 .. size - 1 : buf[k] = f[k]
    BY <1>0, <1>3 DEF InStep, Suits, Holds
  <2>2. SubSeq(buf, 1, size - 2) = SubSeq(f, 1, size - 2)
    <3>1. \A i \in 1 .. size - 2 : buf[i] \in Byte /\ f[i] \in Byte /\ buf[i] = f[i]
      BY <2>1, ElementOfSeq DEF Holds, Suits
    <3>2. /\ SubSeq(buf, 1, size - 2) \in Seq(Byte) /\ Len(SubSeq(buf, 1, size - 2)) = size - 2
          /\ \A i \in 1 .. size - 2 : SubSeq(buf, 1, size - 2)[i] = buf[i]
      BY <3>1, SubSeqProperties
    <3>3. /\ SubSeq(f, 1, size - 2) \in Seq(Byte) /\ Len(SubSeq(f, 1, size - 2)) = size - 2
          /\ \A i \in 1 .. size - 2 : SubSeq(f, 1, size - 2)[i] = f[i]
      BY <3>1, SubSeqProperties
    <3> QED BY <3>1, <3>2, <3>3, SeqEqual
  <2>3. Complete(buf, b, tail, size) /\ nbuf = <<>>
    <3>1. size - 1 \in 1 .. size - 1
      OBVIOUS
    <3>2. Check_Sum(SubSeq(buf, 1, size - 2)) = buf[size - 1]
      BY <2>1, <2>2, <3>1, Zenon
    <3> QED BY <2>1, <3>2 DEF Complete, Collect
  <2> QED BY <1>3, <2>3 DEF InStep, NextByte
<1> QED BY <1>0, <1>1, <1>2, <1>3

\* The frame that is not delivered was one at stake.
LEMMA DebtPaid ==
    ASSUME NEW header, NEW tail, NEW size \in Nat, size >= 3, NEW own, NEW f,
           NEW p \in 0 .. Len(f) - 1, Suits(f, p, own, header, tail, size),
           NEW buf, Holds(buf, size),
           NEW nf, NEW np \in Nat, NextByte(f, p, nf, np)
    PROVE  (IF f \in own /\ p + 1 = Len(f) THEN 1 ELSE 0)
             + Debt(Collect(buf, f[p + 1], header, size), own, nf, np)
           <= Debt(buf, own, f, p) + (IF Complete(buf, f[p + 1], tail, size) THEN 1 ELSE 0)
<1> DEFINE b == f[p + 1]
           nbuf == Collect(buf, b, header, size)
           owed == Debt(nbuf, own, nf, np)
<1>0. b \in Byte /\ Len(f) \in Nat /\ p + 1 \in 1 .. Len(f)
  BY DEF Suits
<1>1. owed \in 0 .. 2 /\ (np = 0 => owed \in 0 .. 1)
  BY DebtBounds
<1>2. CASE InStep(buf, own, f, p)
  BY <1>0, <1>2, StaysInStep DEF Debt
<1>3. CASE ~InStep(buf, own, f, p) /\ f \notin own
  <2>1. Debt(buf, own, f, p) = 1
    BY <1>3 DEF Debt
  <2>2. p + 1 < Len(f) => owed <= 1
    BY <1>3 DEF NextByte, Debt
  <2> QED BY <1>0, <1>1, <1>3, <2>1, <2>2 DEF NextByte
<1>4. CASE ~InStep(buf, own, f, p) /\ f \in own /\ buf = <<>>
  <2>1. p > 0 /\ b # header /\ Len(f) = size
    BY <1>0, <1>4 DEF InStep, Suits, Holds
  <2>2. nbuf = <<>> /\ ~Complete(buf, b, tail, size) /\ Debt(buf, own, f, p) = 1
    BY <1>4, <2>1 DEF Collect, Complete, Debt
  <2>3. np = 0 => owed = 0
    BY <2>2 DEF Debt, InStep
  <2>4. owed <= 1
    BY <2>2 DEF Debt
  <2> QED BY <1>0, <1>1, <2>2, <2>3, <2>4 DEF NextByte
<1>5. CASE ~InStep(buf, own, f, p) /\ f \in own /\ buf # <<>> /\ p > 0 /\ Len(buf) < p
  <2>1. Len(buf) + 1 < size /\ Debt(buf, own, f, p) = 2
    BY <1>0, <1>5 DEF Suits, Holds, Debt
  <2> QED BY <1>0, <1>1, <1>5, <2>1 DEF NextByte
<1>6. CASE ~InStep(buf, own, f, p) /\ f \in own /\ buf # <<>> /\ Len(buf) >= p
  <2>1. Debt(buf, own, f, p) = 1 /\ Len(f) = size
    BY <1>0, <1>6 DEF Suits, Holds, Debt
  <2>2. CASE Len(buf) + 1 = size
    <3>1. nbuf = <<>>
      BY <2>2 DEF Collect
    <3>2. owed <= 1 /\ (np = 0 => owed = 0)
      BY <3>1 DEF Debt, InStep
    <3> QED BY <1>0, <1>1, <2>1, <3>2 DEF NextByte
  <2>3. CASE Len(buf) + 1 < size
    <3>1. p + 1 < Len(f) /\ nf = f /\ np = p + 1
      BY <1>0, <1>6, <2>1, <2>3 DEF Holds, NextByte
    <3>2. Len(nbuf) = Len(buf) + 1
      BY <1>0, <1>6, <2>3 DEF Collect, Holds
    <3>3. owed <= 1
      BY <1>0, <1>6, <3>1, <3>2 DEF Debt, Holds
    <3> QED BY <1>0, <1>1, <2>1, <3>1, <3>3
  <2> QED BY <2>2, <2>3 DEF Holds
<1> QED BY <1>0, <1>2, <1>3, <1>4, <1>5, <1>6 DEF Holds, InStep

-----------------------------------------------------------------------------
(* The link.                                                               *)

\* The controller stops at the bound.
IType == TypeOK /\ sent + sent2 <= MaxFrames

\* The controller's next byte is one of a frame.
LEMMA SentNext ==
    ASSUME IType, sent + sent2 < MaxFrames, Sent
    PROVE  /\ frame' \in MotionFrames \cup ChargeFrames /\ pos' \in 0 .. Len(frame') - 1
           /\ NextByte(frame, pos, frame', pos')
           /\ sent' = sent + (IF frame \in MotionFrames /\ pos + 1 = Len(frame) THEN 1 ELSE 0)
           /\ sent2' = sent2 + (IF frame \in ChargeFrames /\ pos + 1 = Len(frame) THEN 1 ELSE 0)
           /\ {sent', sent2'} \subseteq 0 .. MaxFrames /\ sent' + sent2' <= MaxFrames
<1>1. \A f \in MotionFrames \cup ChargeFrames : Len(f) \in Nat /\ Len(f) >= 3
  BY Shapes, LinkAssumption
<1>2. /\ frame \in MotionFrames \cup ChargeFrames /\ pos \in 0 .. Len(frame) - 1
      /\ sent \in Nat /\ sent2 \in Nat /\ sent + sent2 <= MaxFrames /\ MaxFrames \in Nat
      /\ frame \in MotionFrames <=> frame \notin ChargeFrames
  BY Shapes, LinkAssumption DEF IType, TypeOK
<1>3. CASE pos + 1 < Len(frame)
  BY <1>1, <1>2, <1>3 DEF Sent, NextByte
<1>4. CASE ~(pos + 1 < Len(frame))
  <2>1. frame' \in MotionFrames \cup ChargeFrames /\ pos' = 0 /\ pos + 1 = Len(frame)
    BY <1>1, <1>2, <1>4 DEF Sent
  <2> QED BY <1>1, <1>2, <1>4, <2>1 DEF Sent, NextByte
<1> QED BY <1>3, <1>4

\* The state as one parser's lemmas want it.
LEMMA LinkState ==
    ASSUME IType
    PROVE  /\ frame \in Seq(Byte) /\ Len(frame) \in Nat
           /\ pos \in 0 .. Len(frame) - 1 /\ pos \in Nat
           /\ frame[pos + 1] \in Byte
           /\ RECEIVE_DATA_SIZE \in Nat /\ RECEIVE_DATA_SIZE >= 3
           /\ AutoCharge_DATA_SIZE \in Nat /\ AutoCharge_DATA_SIZE >= 3
           /\ Holds(rx, RECEIVE_DATA_SIZE) /\ Holds(rx2, AutoCharge_DATA_SIZE)
<1>1. \A f \in MotionFrames \cup ChargeFrames : f \in Seq(Byte) /\ Len(f) \in Nat
  BY Shapes, LinkAssumption
<1>2. /\ frame \in Seq(Byte) /\ Len(frame) \in Nat
      /\ pos \in 0 .. Len(frame) - 1 /\ pos \in Nat
  BY <1>1 DEF IType, TypeOK
<1>3. frame[pos + 1] \in Byte
  BY <1>2, ElementOfSeq
<1>4. Holds(rx, RECEIVE_DATA_SIZE) /\ Holds(rx2, AutoCharge_DATA_SIZE)
  BY DEF IType, TypeOK, Holds
<1> QED BY <1>2, <1>3, <1>4, LinkAssumption

\* Both parsers take a byte.
LEMMA ParseTypes ==
    ASSUME IType, NEW b \in Byte, Get_Sensor_Data_New(b)
    PROVE  /\ Holds(rx', RECEIVE_DATA_SIZE) /\ Holds(rx2', AutoCharge_DATA_SIZE)
           /\ last' \in Byte /\ got' \in Nat /\ got2' \in Nat
<1>1. /\ Holds(Collect(rx, b, FRAME_HEADER, RECEIVE_DATA_SIZE), RECEIVE_DATA_SIZE)
      /\ Holds(Collect(rx2, b, AutoCharge_HEADER, AutoCharge_DATA_SIZE), AutoCharge_DATA_SIZE)
  BY LinkState, CollectHolds
<1>2. got \in Nat /\ got2 \in Nat
  BY DEF IType, TypeOK
<1> QED BY <1>1, <1>2 DEF Get_Sensor_Data_New

\* A step adds its glitch and its misleading byte, if any, to what is counted.
LEMMA CountsUp ==
    ASSUME IType, NEW g \in {0, 1}, NEW c \in {0, 1}, Count(g, c)
    PROVE  /\ glitches' = glitches + g /\ codes' = codes + c
           /\ {glitches, codes, trouble, codes', trouble'} \subseteq Nat
<1>1. {glitches, codes, trouble} \subseteq Nat
  BY LinkAssumption DEF IType, TypeOK
<1>2. g \in Nat /\ c \in Nat
  OBVIOUS
<1>3. glitches' = glitches + g /\ codes' = codes + c
  BY DEF Count
<1>4. since \in Nat
  BY <1>1 DEF since
<1>5. trouble' = g + c + since
  BY DEF Count
<1> QED BY <1>1, <1>2, <1>3, <1>4, <1>5

\* Whether the byte that arrives misleads.
mislead == IF Misleads(frame, pos + 1) THEN 1 ELSE 0

\* Every step of the link keeps the types.
LEMMA StepTyped ==
    ASSUME IType, [Next]_vars
    PROVE  IType'
<1>1. CASE Transfer
  <2>1. /\ sent + sent2 < MaxFrames /\ Sent /\ Get_Sensor_Data_New(frame[pos + 1])
        /\ Count(0, mislead) /\ mislead \in {0, 1}
    BY <1>1 DEF Transfer, mislead
  <2>2. /\ Holds(rx', RECEIVE_DATA_SIZE) /\ Holds(rx2', AutoCharge_DATA_SIZE)
        /\ last' \in Byte /\ got' \in Nat /\ got2' \in Nat
    BY <2>1, LinkState, ParseTypes
  <2>3. /\ frame' \in MotionFrames \cup ChargeFrames /\ pos' \in 0 .. Len(frame') - 1
        /\ {sent', sent2'} \subseteq 0 .. MaxFrames /\ sent' + sent2' <= MaxFrames
    BY <2>1, SentNext
  <2>4. glitches' \in 0 .. MaxGlitches /\ {codes', trouble'} \subseteq Nat
    <3>1. glitches \in 0 .. MaxGlitches
      BY DEF IType, TypeOK
    <3>2. glitches' = glitches + 0 /\ {codes', trouble'} \subseteq Nat
      BY <2>1, CountsUp
    <3> QED BY <3>1, <3>2
  <2> QED BY <2>2, <2>3, <2>4 DEF IType, TypeOK, Holds
<1>2. CASE Lose
  <2>1. /\ frame' \in MotionFrames \cup ChargeFrames /\ pos' \in 0 .. Len(frame') - 1
        /\ {sent', sent2'} \subseteq 0 .. MaxFrames /\ sent' + sent2' <= MaxFrames
    BY <1>2, SentNext DEF Lose
  <2>2. /\ glitches' = glitches + 1 /\ glitches < MaxGlitches
        /\ {codes', trouble'} \subseteq Nat
    BY <1>2, CountsUp DEF Lose
  <2> QED BY <1>2, <2>1, <2>2, LinkAssumption DEF Lose, IType, TypeOK
<1>3. ASSUME NEW b \in Byte, ReadTimeout(b) PROVE IType'
  <2>1. /\ Holds(rx', RECEIVE_DATA_SIZE) /\ Holds(rx2', AutoCharge_DATA_SIZE)
        /\ last' \in Byte /\ got' \in Nat /\ got2' \in Nat
    BY <1>3, ParseTypes DEF ReadTimeout
  <2>2. /\ glitches' = glitches + 1 /\ glitches < MaxGlitches
        /\ {codes', trouble'} \subseteq Nat
    BY <1>3, CountsUp DEF ReadTimeout
  <2> QED BY <1>3, <2>1, <2>2, LinkAssumption DEF ReadTimeout, IType, TypeOK, Holds
<1>4. CASE UNCHANGED vars
  BY <1>4 DEF vars, IType, TypeOK
<1> QED BY <1>1, <1>2, <1>3, <1>4 DEF Next

\* The types hold throughout.
LEMMA AlwaysTyped == Spec => []IType
<1>1. Init => IType
  BY Shapes, LinkAssumption, CodesAssumption DEF Init, IType, TypeOK, Codes
<1> QED BY <1>1, StepTyped, PTL DEF Spec

\* Neither parser's buffer (Receive_Data.rx, Receive_AutoCharge_Data.rx) is ever
\* written past its frame size, whatever bytes arrive, are lost or made up.
THEOREM TypeCorrect == Spec => []TypeOK
  BY AlwaysTyped, PTL DEF IType

-----------------------------------------------------------------------------
(* Frames lost.                                                            *)

\* What is still at stake is added to what was lost.
Owing ==
    /\ sent + Debt(rx, MotionFrames, frame, pos) <= got + 2 * (glitches + codes)
    /\ sent2 + Debt(rx2, ChargeFrames, frame, pos) <= got2 + 2 * (glitches + codes)

\* A byte that arrives and does not mislead costs nothing that was not at stake; a
\* glitch or a misleading byte puts at most two frames of a kind at stake, the
\* one it falls in included.
LEMMA StepOwing ==
    ASSUME IType, Owing, [Next]_vars
    PROVE  Owing'
<1> DEFINE motion  == IF frame \in MotionFrames /\ pos + 1 = Len(frame) THEN 1 ELSE 0
           charge  == IF frame \in ChargeFrames /\ pos + 1 = Len(frame) THEN 1 ELSE 0
           debt    == Debt(rx, MotionFrames, frame, pos)
           debt2   == Debt(rx2, ChargeFrames, frame, pos)
<1>0. /\ {sent, got, sent2, got2, glitches, codes} \subseteq Nat
      /\ frame \in MotionFrames \cup ChargeFrames
  BY LinkAssumption DEF IType, TypeOK
<1>1. debt \in 0 .. 2 /\ debt2 \in 0 .. 2
  BY LinkState, DebtBounds
<1>2. /\ sent + debt <= got + 2 * (glitches + codes)
      /\ sent2 + debt2 <= got2 + 2 * (glitches + codes)
  BY DEF Owing
<1>3. ~Misleads(frame, pos + 1) =>
        /\ Suits(frame, pos, MotionFrames, FRAME_HEADER, FRAME_TAIL, RECEIVE_DATA_SIZE)
        /\ Suits(frame, pos, ChargeFrames, AutoCharge_HEADER, AutoCharge_TAIL, AutoCharge_DATA_SIZE)
  BY <1>0, LinkState, ByteSuits
<1>4. IType'
  BY StepTyped
<1>5. pos' \in Nat /\ {sent', got', sent2', got2', glitches', codes'} \subseteq Nat
  BY <1>4, Shapes, LinkAssumption DEF IType, TypeOK
<1>6. /\ debt' \in 0 .. 2 /\ debt2' \in 0 .. 2
      /\ pos' = 0 => debt' \in 0 .. 1 /\ debt2' \in 0 .. 1
  BY <1>5, DebtBounds
<1>7. CASE Transfer /\ ~Misleads(frame, pos + 1)
  <2>1. /\ sent + sent2 < MaxFrames /\ Sent /\ glitches' = glitches /\ codes' = codes
        /\ Get_Sensor_Data_New(frame[pos + 1])
    BY <1>0, <1>7 DEF Transfer, Count
  <2>2. NextByte(frame, pos, frame', pos') /\ sent' = sent + motion /\ sent2' = sent2 + charge
    BY <2>1, SentNext
  <2>3. motion + debt' <= debt + (got' - got)
    <3>1. motion + Debt(Collect(rx, frame[pos + 1], FRAME_HEADER, RECEIVE_DATA_SIZE),
                        MotionFrames, frame', pos')
          <= debt + (IF Complete(rx, frame[pos + 1], FRAME_TAIL, RECEIVE_DATA_SIZE) THEN 1 ELSE 0)
      BY <1>3, <1>5, <1>7, <2>2, LinkState, DebtPaid
    <3> QED BY <1>0, <2>1, <3>1 DEF Get_Sensor_Data_New
  <2>4. charge + debt2' <= debt2 + (got2' - got2)
    <3>1. charge + Debt(Collect(rx2, frame[pos + 1], AutoCharge_HEADER, AutoCharge_DATA_SIZE),
                        ChargeFrames, frame', pos')
          <= debt2 + (IF Complete(rx2, frame[pos + 1], AutoCharge_TAIL, AutoCharge_DATA_SIZE)
                      THEN 1 ELSE 0)
      BY <1>3, <1>5, <1>7, <2>2, LinkState, DebtPaid
    <3> QED BY <1>0, <2>1, <3>1 DEF Get_Sensor_Data_New
  <2> HIDE DEF motion, charge, debt, debt2
  <2>5. motion \in {0, 1} /\ charge \in {0, 1}
    BY DEF motion, charge
  <2>6. /\ sent' + debt' <= got' + 2 * (glitches' + codes')
        /\ sent2' + debt2' <= got2' + 2 * (glitches' + codes')
    BY <1>0, <1>1, <1>2, <1>5, <1>6, <2>1, <2>2, <2>3, <2>4, <2>5
  <2> QED BY <2>6 DEF Owing, debt, debt2
<1>8. CASE Transfer /\ Misleads(frame, pos + 1)
  <2>1. /\ sent + sent2 < MaxFrames /\ Sent /\ glitches' = glitches /\ codes' = codes + 1
        /\ pos + 1 # Len(frame)
        /\ got' >= got /\ got2' >= got2
    <3>1. /\ sent + sent2 < MaxFrames /\ Sent /\ glitches' = glitches /\ codes' = codes + 1
          /\ Get_Sensor_Data_New(frame[pos + 1])
      BY <1>0, <1>8 DEF Transfer, Count
    <3>2. pos + 1 # Len(frame)
      BY <1>8, LinkState DEF Misleads
    <3>3. got' >= got /\ got2' >= got2
      BY <1>0, <3>1 DEF Get_Sensor_Data_New
    <3> QED BY <3>1, <3>2, <3>3
  <2>2. sent' = sent /\ sent2' = sent2
    BY <1>0, <2>1, SentNext
  <2> HIDE DEF motion, charge, debt, debt2
  <2>3. /\ sent' + debt' <= got' + 2 * (glitches' + codes')
        /\ sent2' + debt2' <= got2' + 2 * (glitches' + codes')
    <3>1. /\ sent' + debt' <= sent + 2 /\ sent2' + debt2' <= sent2 + 2
          /\ sent <= got + 2 * (glitches + codes) /\ sent2 <= got2 + 2 * (glitches + codes)
      <4>1. /\ {debt, debt2, debt', debt2'} \subseteq Nat /\ debt' <= 2 /\ debt2' <= 2
        BY <1>1, <1>6
      <4>2. sent' + debt' <= sent + 2 /\ sent2' + debt2' <= sent2 + 2
        BY <1>0, <2>2, <4>1
      <4>3. 2 * (glitches + codes) \in Nat
        BY <1>0
      <4>4. sent <= got + 2 * (glitches + codes)
        BY <1>0, <1>2, <4>1, <4>3
      <4>5. sent2 <= got2 + 2 * (glitches + codes)
        BY <1>0, <1>2, <4>1, <4>3
      <4> QED BY <4>2, <4>4, <4>5
    <3>2. glitches' + codes' = glitches + codes + 1
      BY <1>0, <2>1
    <3>3. /\ got + 2 * (glitches + codes) + 2 <= got' + 2 * (glitches' + codes')
          /\ got2 + 2 * (glitches + codes) + 2 <= got2' + 2 * (glitches' + codes')
      <4>1. \A n \in Nat : 2 * (n + 1) = 2 * n + 2
        OBVIOUS
      <4>2. glitches + codes \in Nat
        BY <1>0
      <4>3. 2 * (glitches' + codes') = 2 * (glitches + codes) + 2
        BY <3>2, <4>1, <4>2
      <4>4. 2 * (glitches + codes) \in Nat
        BY <4>2
      <4>5. got <= got' /\ got2 <= got2' /\ {got, got2, got', got2'} \subseteq Nat
        BY <1>0, <1>5, <2>1
      <4> QED BY <4>3, <4>4, <4>5
    <3> QED BY <1>0, <1>5, <1>6, <3>1, <3>3
  <2> QED BY <2>3 DEF Owing, debt, debt2
<1>9. CASE Lose
  <2>1. /\ sent + sent2 < MaxFrames /\ Sent /\ glitches' = glitches + 1 /\ codes' = codes
        /\ UNCHANGED <<got, got2>>
    BY <1>0, <1>9 DEF Lose, Count
  <2>2. NextByte(frame, pos, frame', pos') /\ sent' = sent + motion /\ sent2' = sent2 + charge
    BY <2>1, SentNext
  <2>3. motion \in {0, 1} /\ charge \in {0, 1} /\ (pos' # 0 => motion = 0 /\ charge = 0)
    BY <2>2, LinkState DEF NextByte
  <2> HIDE DEF motion, charge, debt, debt2
  <2>4. /\ sent' + debt' <= got' + 2 * (glitches' + codes')
        /\ sent2' + debt2' <= got2' + 2 * (glitches' + codes')
    BY <1>0, <1>1, <1>2, <1>5, <1>6, <2>1, <2>2, <2>3
  <2> QED BY <2>4 DEF Owing, debt, debt2
<1>10. ASSUME NEW b \in Byte, ReadTimeout(b) PROVE Owing'
  <2>1. /\ glitches' = glitches + 1 /\ codes' = codes /\ UNCHANGED <<sent, sent2>>
        /\ got' >= got /\ got2' >= got2
    BY <1>0, <1>10 DEF ReadTimeout, Count, Get_Sensor_Data_New
  <2> HIDE DEF motion, charge, debt, debt2
  <2>2. /\ sent' + debt' <= got' + 2 * (glitches' + codes')
        /\ sent2' + debt2' <= got2' + 2 * (glitches' + codes')
    BY <1>0, <1>1, <1>2, <1>5, <1>6, <2>1
  <2> QED BY <2>2 DEF Owing, debt, debt2
<1>11. CASE UNCHANGED vars
  BY <1>11 DEF vars, Owing, Debt, InStep
<1> QED BY <1>7, <1>8, <1>9, <1>10, <1>11 DEF Next

\* A lost or made-up byte costs at most two frames of a kind, and so does a data
\* byte that looks like a header, however many there are and whatever the data:
\* the parsers, which never look back, are in step again after that
\* (Get_Sensor_Data_New).
THEOREM AlwaysResynchronises == Spec => []Resynchronises
<1>1. Init => Owing
  BY Shapes, LinkAssumption DEF Init, Owing, Debt, InStep
<1>2. IType /\ Owing /\ [Next]_vars => Owing'
  BY StepOwing
<1>3. IType /\ Owing => Resynchronises
  <2> SUFFICES ASSUME IType, Owing PROVE Resynchronises
    OBVIOUS
  <2>1. {sent, got, sent2, got2, glitches, codes} \subseteq Nat
    BY LinkAssumption DEF IType, TypeOK
  <2>2. /\ Debt(rx, MotionFrames, frame, pos) \in 0 .. 2
        /\ Debt(rx2, ChargeFrames, frame, pos) \in 0 .. 2
    BY LinkState, DebtBounds
  <2> QED BY <2>1, <2>2 DEF Owing, Resynchronises
<1> QED BY <1>1, <1>2, <1>3, AlwaysTyped, PTL DEF Spec

-----------------------------------------------------------------------------
(* Frames made of bytes of two.                                            *)

\* A parser that holds as many bytes as were sent of its frame holds these
\* bytes; one that has lost step is never aligned with its frame again.
Aligned(buf, own, f, p) ==
    f \in own /\ buf # <<>> /\ Len(buf) = p => \A k \in 1 .. p : buf[k] = f[k]

\* A byte that arrives does not align a parser by chance.
LEMMA StaysAligned ==
    ASSUME NEW header, NEW size \in Nat, size >= 3, NEW own,
           NEW f \in Seq(Byte), NEW p \in 0 .. Len(f) - 1,
           NEW buf, Holds(buf, size), Aligned(buf, own, f, p),
           NEW nf, NEW np, NextByte(f, p, nf, np)
    PROVE  Aligned(Collect(buf, f[p + 1], header, size), own, nf, np)
<1> DEFINE b == f[p + 1]
           nbuf == Collect(buf, b, header, size)
<1>0. b \in Byte /\ Len(f) \in Nat /\ p + 1 \in 1 .. Len(f)
  OBVIOUS
<1>1. Holds(nbuf, size) /\ (nbuf = <<>> \/ (Len(nbuf) = Len(buf) + 1 /\ nbuf = Append(buf, b)))
  <2>1. \A c \in Byte :
            /\ Holds(Collect(buf, c, header, size), size)
            /\ \/ Collect(buf, c, header, size) = <<>>
               \/ /\ Len(Collect(buf, c, header, size)) = Len(buf) + 1
                  /\ Collect(buf, c, header, size) = Append(buf, c)
    BY CollectHolds
  <2> QED BY <1>0, <2>1, Zenon
<1>2. CASE p + 1 < Len(f) /\ nbuf # <<>> /\ f \in own /\ Len(nbuf) = p + 1
  <2>1. Len(buf) = p /\ nbuf = Append(buf, b)
    BY <1>1, <1>2 DEF Holds
  <2>2. nbuf[p + 1] = b /\ \A k \in 1 .. p : nbuf[k] = buf[k]
    BY <1>0, <2>1 DEF Holds
  <2>3. \A k \in 1 .. p : buf[k] = f[k]
    BY <1>2, <2>1 DEF Aligned, Holds
  <2>4. \A k \in 1 .. p + 1 : k \in 1 .. p \/ k = p + 1
    OBVIOUS
  <2>5. \A k \in 1 .. p + 1 : nbuf[k] = f[k]
    BY <2>2, <2>3, <2>4
  <2> QED BY <1>2, <2>5 DEF Aligned, NextByte
<1>3. CASE p + 1 < Len(f) /\ ~(nbuf # <<>> /\ f \in own /\ Len(nbuf) = p + 1)
  BY <1>3 DEF Aligned, NextByte
<1>4. CASE ~(p + 1 < Len(f))
  BY <1>1, <1>4 DEF Aligned, NextByte, Holds
<1> QED BY <1>2, <1>3, <1>4

\* In step is aligned; a byte lost or made up in step leaves no alignment.
LEMMA GlitchAligned ==
    ASSUME NEW header, NEW size \in Nat, size >= 3, NEW own,
           NEW f \in Seq(Byte), NEW p \in 0 .. Len(f) - 1,
           NEW buf, Holds(buf, size), InStep(buf, own, f, p)
    PROVE  /\ Aligned(buf, own, f, p)
           /\ \A nf, np : NextByte(f, p, nf, np) => Aligned(buf, own, nf, np)
           /\ \A b \in Byte : Aligned(Collect(buf, b, header, size), own, f, p)
<1>1. Aligned(buf, own, f, p)
  BY DEF Aligned, InStep
<1>2. ASSUME NEW nf, NEW np, NextByte(f, p, nf, np) PROVE Aligned(buf, own, nf, np)
  <2>1. CASE p + 1 < Len(f)
    BY <1>2, <2>1 DEF Aligned, NextByte, InStep
  <2>2. CASE ~(p + 1 < Len(f))
    BY <1>2, <2>2 DEF Aligned, NextByte, Holds
  <2> QED BY <2>1, <2>2
<1>3. ASSUME NEW b \in Byte PROVE Aligned(Collect(buf, b, header, size), own, f, p)
  <2>1. \/ Collect(buf, b, header, size) = <<>>
        \/ Len(Collect(buf, b, header, size)) = Len(buf) + 1
    BY CollectHolds
  <2> QED BY <2>1 DEF Aligned, InStep
<1> QED BY <1>1, <1>2, <1>3

\* Where the parsers stand before and after the first trouble.
OneTrouble ==
    /\ since = 0 => /\ InStep(rx, MotionFrames, frame, pos)
                    /\ InStep(rx2, ChargeFrames, frame, pos)
    /\ since <= 1 => /\ Aligned(rx, MotionFrames, frame, pos)
                     /\ Aligned(rx2, ChargeFrames, frame, pos)

\* Empty before a frame, a parser is in step.
LEMMA EmptyInStep ==
    ASSUME NEW own, NEW f, NEW p \in Nat, NEW buf, p = 0, buf = <<>>
    PROVE  InStep(buf, own, f, p) /\ Aligned(buf, own, f, p)
  BY DEF InStep, Aligned

\* So all a step has to keep is the standing after the trouble it counts.
LEMMA TroubleSince ==
    ASSUME IType, IType',
           trouble' = 0 => /\ InStep(rx, MotionFrames, frame, pos)'
                           /\ InStep(rx2, ChargeFrames, frame, pos)',
           trouble' <= 1 => /\ Aligned(rx, MotionFrames, frame, pos)'
                            /\ Aligned(rx2, ChargeFrames, frame, pos)'
    PROVE  OneTrouble'
<1>1. CASE pos' = 0 /\ rx' = <<>> /\ rx2' = <<>>
  <2>1. /\ InStep(rx', MotionFrames, frame', pos') /\ Aligned(rx', MotionFrames, frame', pos')
        /\ InStep(rx2', ChargeFrames, frame', pos') /\ Aligned(rx2', ChargeFrames, frame', pos')
    BY <1>1, EmptyInStep
  <2> QED BY <2>1 DEF OneTrouble
<1>2. CASE ~(pos' = 0 /\ rx' = <<>> /\ rx2' = <<>>)
  <2>1. since' = trouble'
    BY <1>2 DEF since
  <2> QED BY <2>1 DEF OneTrouble
<1> QED BY <1>1, <1>2

\* Every step keeps the parsers in step before the first trouble, and never
\* aligned by chance before the second.
LEMMA StepOneTrouble ==
    ASSUME IType, OneTrouble, [Next]_vars
    PROVE  OneTrouble'
<1>0. /\ since \in Nat /\ frame \in MotionFrames \cup ChargeFrames
      /\ IType'
  BY StepTyped DEF IType, TypeOK, since
<1>1. CASE Transfer
  <2>1. /\ sent + sent2 < MaxFrames /\ Sent /\ trouble' = mislead + since
        /\ Get_Sensor_Data_New(frame[pos + 1]) /\ mislead \in {0, 1}
    BY <1>0, <1>1 DEF Transfer, Count, mislead
  <2>2. NextByte(frame, pos, frame', pos')
    BY <2>1, SentNext
  <2>3. ASSUME trouble' = 0
        PROVE  /\ InStep(Collect(rx, frame[pos + 1], FRAME_HEADER, RECEIVE_DATA_SIZE),
                         MotionFrames, frame', pos')
               /\ InStep(Collect(rx2, frame[pos + 1], AutoCharge_HEADER, AutoCharge_DATA_SIZE),
                         ChargeFrames, frame', pos')
    <3>1. since = 0 /\ ~Misleads(frame, pos + 1)
      BY <1>0, <2>1, <2>3 DEF mislead
    <3>2. InStep(rx, MotionFrames, frame, pos) /\ InStep(rx2, ChargeFrames, frame, pos)
      BY <3>1 DEF OneTrouble
    <3>3. /\ Suits(frame, pos, MotionFrames, FRAME_HEADER, FRAME_TAIL, RECEIVE_DATA_SIZE)
          /\ Suits(frame, pos, ChargeFrames, AutoCharge_HEADER, AutoCharge_TAIL, AutoCharge_DATA_SIZE)
      BY <1>0, <3>1, LinkState, ByteSuits
    <3> QED BY <2>2, <3>2, <3>3, LinkState, StaysInStep
  <2>4. ASSUME trouble' <= 1
        PROVE  /\ Aligned(Collect(rx, frame[pos + 1], FRAME_HEADER, RECEIVE_DATA_SIZE),
                          MotionFrames, frame', pos')
               /\ Aligned(Collect(rx2, frame[pos + 1], AutoCharge_HEADER, AutoCharge_DATA_SIZE),
                          ChargeFrames, frame', pos')
    <3>1. since <= 1
      BY <1>0, <2>1, <2>4
    <3>2. Aligned(rx, MotionFrames, frame, pos) /\ Aligned(rx2, ChargeFrames, frame, pos)
      BY <3>1 DEF OneTrouble
    <3> QED BY <2>2, <3>2, LinkState, StaysAligned
  <2>5. /\ rx' = Collect(rx, frame[pos + 1], FRAME_HEADER, RECEIVE_DATA_SIZE)
        /\ rx2' = Collect(rx2, frame[pos + 1], AutoCharge_HEADER, AutoCharge_DATA_SIZE)
    BY <2>1 DEF Get_Sensor_Data_New
  <2> QED BY <1>0, <2>3, <2>4, <2>5, TroubleSince
<1>2. CASE Lose
  <2>1. /\ NextByte(frame, pos, frame', pos') /\ trouble' = 1 + since
        /\ UNCHANGED <<rx, rx2>>
    BY <1>0, <1>2, SentNext DEF Lose, Count
  <2>2. ASSUME trouble' <= 1
        PROVE  Aligned(rx, MotionFrames, frame', pos') /\ Aligned(rx2, ChargeFrames, frame', pos')
    <3>1. InStep(rx, MotionFrames, frame, pos) /\ InStep(rx2, ChargeFrames, frame, pos)
      BY <1>0, <2>1, <2>2 DEF OneTrouble
    <3> QED BY <2>1, <3>1, LinkState, GlitchAligned
  <2>3. trouble' # 0
    BY <1>0, <2>1
  <2> QED BY <1>0, <2>1, <2>2, <2>3, TroubleSince
<1>3. ASSUME NEW b \in Byte, ReadTimeout(b) PROVE OneTrouble'
  <2>1. Get_Sensor_Data_New(b) /\ trouble' = 1 + since /\ UNCHANGED <<frame, pos>>
    BY <1>0, <1>3 DEF ReadTimeout, Count
  <2>2. ASSUME trouble' <= 1
        PROVE  /\ Aligned(Collect(rx, b, FRAME_HEADER, RECEIVE_DATA_SIZE),
                          MotionFrames, frame, pos)
               /\ Aligned(Collect(rx2, b, AutoCharge_HEADER, AutoCharge_DATA_SIZE),
                          ChargeFrames, frame, pos)
    <3>1. InStep(rx, MotionFrames, frame, pos) /\ InStep(rx2, ChargeFrames, frame, pos)
      BY <1>0, <2>1, <2>2 DEF OneTrouble
    <3> QED BY <3>1, LinkState, GlitchAligned
  <2>3. trouble' # 0
    BY <1>0, <2>1
  <2>4. /\ rx' = Collect(rx, b, FRAME_HEADER, RECEIVE_DATA_SIZE)
        /\ rx2' = Collect(rx2, b, AutoCharge_HEADER, AutoCharge_DATA_SIZE)
    BY <2>1 DEF Get_Sensor_Data_New
  <2> QED BY <1>0, <2>1, <2>2, <2>3, <2>4, TroubleSince
<1>4. CASE UNCHANGED vars
  BY <1>4 DEF vars, OneTrouble, since, InStep, Aligned
<1> QED BY <1>1, <1>2, <1>3, <1>4 DEF Next

\* What a parser holds when all but the tail of its frame was sent.
LEMMA WholeFrame ==
    ASSUME NEW size \in Nat, size >= 3, NEW f \in Seq(Byte), Len(f) = size,
           NEW buf, Holds(buf, size), Len(buf) = size - 1,
           \A k \in 1 .. size - 1 : buf[k] = f[k]
    PROVE  buf = SubSeq(f, 1, size - 1)
<1>1. \A k \in 1 .. size - 1 : f[k] \in Byte
  BY ElementOfSeq
<1>2. /\ SubSeq(f, 1, size - 1) \in Seq(Byte) /\ Len(SubSeq(f, 1, size - 1)) = size - 1
      /\ \A k \in 1 .. size - 1 : SubSeq(f, 1, size - 1)[k] = f[k]
  BY <1>1, SubSeqProperties
<1> QED BY <1>2, SeqEqual DEF Holds

\* Since the parsers were last empty before a frame, one lost or made-up byte,
\* or one data byte that looks like a header or a tail, never makes a parser
\* deliver bytes of two frames as one (line 570).  A tail that does not mislead is
\* found at the end of its own frame only, where a parser out of step is out of
\* alignment; one that misleads is found while the parsers are in step, when no
\* frame is due.  This needs no property of the checksum.
THEOREM AlwaysDeliversWhatWasSent == Spec => DeliversWhatWasSent
<1>1. Init => OneTrouble
  BY Shapes, LinkAssumption DEF Init, OneTrouble, InStep, Aligned
<1>2. IType /\ OneTrouble /\ [Next]_vars => OneTrouble'
  BY StepOneTrouble
<1> DEFINE Delivers ==
      /\ got' # got => frame \in MotionFrames /\ rx = SubSeq(frame, 1, RECEIVE_DATA_SIZE - 1)
      /\ got2' # got2 => frame \in ChargeFrames /\ rx2 = SubSeq(frame, 1, AutoCharge_DATA_SIZE - 1)
<1>3. ASSUME IType, OneTrouble, [Next]_vars, trouble' <= 1 PROVE Delivers
  <2>0. /\ since \in Nat /\ frame \in MotionFrames \cup ChargeFrames
        /\ frame \in MotionFrames => Len(frame) = RECEIVE_DATA_SIZE
        /\ frame \in ChargeFrames => Len(frame) = AutoCharge_DATA_SIZE
    BY <1>3, Shapes, LinkAssumption DEF IType, TypeOK, since
  <2>1. CASE Transfer
    <3>1. Get_Sensor_Data_New(frame[pos + 1]) /\ trouble' = mislead + since
      BY <2>0, <2>1 DEF Transfer, Count, mislead
    <3>2. /\ Aligned(rx, MotionFrames, frame, pos) /\ Aligned(rx2, ChargeFrames, frame, pos)
          /\ pos + 1 \in 1 .. Len(frame)
      <4>1. since <= 1
        BY <1>3, <2>0, <3>1 DEF mislead
      <4> QED BY <1>3, <4>1, LinkState DEF OneTrouble
    <3>3. ASSUME got' # got
          PROVE  frame \in MotionFrames /\ rx = SubSeq(frame, 1, RECEIVE_DATA_SIZE - 1)
      <4>1. Len(rx) + 1 = RECEIVE_DATA_SIZE /\ frame[pos + 1] = FRAME_TAIL
        BY <1>3, <3>1, <3>3 DEF Get_Sensor_Data_New, Complete, IType, TypeOK
      <4>2. frame \in MotionFrames /\ pos + 1 = Len(frame)
        <5>1. CASE Misleads(frame, pos + 1)
          <6>1. InStep(rx, MotionFrames, frame, pos)
            BY <1>3, <2>0, <3>1, <5>1 DEF OneTrouble, mislead
          <6>2. rx # <<>> /\ Len(rx) = RECEIVE_DATA_SIZE - 1
            BY <1>3, <4>1, LinkState DEF Holds
          <6> QED BY <2>0, <6>1, <6>2, LinkState DEF InStep
        <5>2. CASE ~Misleads(frame, pos + 1)
          BY <1>3, <2>0, <4>1, <5>2, LinkState, ByteSuits
        <5> QED BY <5>1, <5>2
      <4>3. Len(rx) = pos /\ rx # <<>> /\ pos = RECEIVE_DATA_SIZE - 1
        BY <1>3, <2>0, <4>1, <4>2, LinkState DEF Holds
      <4>4. \A k \in 1 .. pos : rx[k] = frame[k]
        BY <3>2, <4>2, <4>3 DEF Aligned
      <4> QED BY <1>3, <2>0, <4>2, <4>3, <4>4, LinkState, WholeFrame
    <3>4. ASSUME got2' # got2
          PROVE  frame \in ChargeFrames /\ rx2 = SubSeq(frame, 1, AutoCharge_DATA_SIZE - 1)
      <4>1. Len(rx2) + 1 = AutoCharge_DATA_SIZE /\ frame[pos + 1] = AutoCharge_TAIL
        BY <1>3, <3>1, <3>4 DEF Get_Sensor_Data_New, Complete, IType, TypeOK
      <4>2. frame \in ChargeFrames /\ pos + 1 = Len(frame)
        <5>1. CASE Misleads(frame, pos + 1)
          <6>1. InStep(rx2, ChargeFrames, frame, pos)
            BY <1>3, <2>0, <3>1, <5>1 DEF OneTrouble, mislead
          <6>2. rx2 # <<>> /\ Len(rx2) = AutoCharge_DATA_SIZE - 1
            BY <1>3, <4>1, LinkState DEF Holds
          <6> QED BY <2>0, <6>1, <6>2, LinkState DEF InStep
        <5>2. CASE ~Misleads(frame, pos + 1)
          BY <1>3, <2>0, <4>1, <5>2, LinkState, ByteSuits
        <5> QED BY <5>1, <5>2
      <4>3. Len(rx2) = pos /\ rx2 # <<>> /\ pos = AutoCharge_DATA_SIZE - 1
        BY <1>3, <2>0, <4>1, <4>2, LinkState DEF Holds
      <4>4. \A k \in 1 .. pos : rx2[k] = frame[k]
        BY <3>2, <4>2, <4>3 DEF Aligned
      <4> QED BY <1>3, <2>0, <4>2, <4>3, <4>4, LinkState, WholeFrame
    <3> QED BY <3>3, <3>4
  <2>2. CASE Lose
    BY <2>2 DEF Lose
  <2>3. ASSUME NEW b \in Byte, ReadTimeout(b) PROVE Delivers
    <3>1. Get_Sensor_Data_New(b) /\ since = 0
      BY <1>3, <2>0, <2>3 DEF ReadTimeout, Count
    <3>2. InStep(rx, MotionFrames, frame, pos) /\ InStep(rx2, ChargeFrames, frame, pos)
      BY <1>3, <3>1 DEF OneTrouble
    <3>3. ASSUME got' # got
          PROVE  frame \in MotionFrames /\ rx = SubSeq(frame, 1, RECEIVE_DATA_SIZE - 1)
      <4>1. Len(rx) + 1 = RECEIVE_DATA_SIZE /\ Len(rx) = RECEIVE_DATA_SIZE - 1
        <5>1. got \in Nat /\ RECEIVE_DATA_SIZE \in Nat /\ Len(rx) \in Nat
          BY <1>3, LinkState DEF IType, TypeOK, Holds
        <5>2. Complete(rx, b, FRAME_TAIL, RECEIVE_DATA_SIZE)
          BY <3>1, <3>3, <5>1 DEF Get_Sensor_Data_New
        <5> QED BY <5>1, <5>2 DEF Complete
      <4>2. frame \in MotionFrames /\ Len(rx) = pos /\ \A k \in 1 .. pos : rx[k] = frame[k]
        BY <1>3, <3>2, <4>1, LinkState DEF InStep, Holds
      <4> QED BY <1>3, <2>0, <4>1, <4>2, LinkState, WholeFrame
    <3>4. ASSUME got2' # got2
          PROVE  frame \in ChargeFrames /\ rx2 = SubSeq(frame, 1, AutoCharge_DATA_SIZE - 1)
      <4>1. Len(rx2) + 1 = AutoCharge_DATA_SIZE /\ Len(rx2) = AutoCharge_DATA_SIZE - 1
        <5>1. got2 \in Nat /\ AutoCharge_DATA_SIZE \in Nat /\ Len(rx2) \in Nat
          BY <1>3, LinkState DEF IType, TypeOK, Holds
        <5>2. Complete(rx2, b, AutoCharge_TAIL, AutoCharge_DATA_SIZE)
          BY <3>1, <3>4, <5>1 DEF Get_Sensor_Data_New
        <5> QED BY <5>1, <5>2 DEF Complete
      <4>2. frame \in ChargeFrames /\ Len(rx2) = pos /\ \A k \in 1 .. pos : rx2[k] = frame[k]
        BY <1>3, <3>2, <4>1, LinkState DEF InStep, Holds
      <4> QED BY <1>3, <2>0, <4>1, <4>2, LinkState, WholeFrame
    <3> QED BY <3>3, <3>4
  <2>4. CASE UNCHANGED vars
    BY <2>4 DEF vars
  <2> QED BY <1>3, <2>1, <2>2, <2>3, <2>4 DEF Next
<1>4. IType /\ OneTrouble /\ [Next]_vars => (trouble' <= 1 => Delivers)
  BY <1>3
<1> QED BY <1>1, <1>2, <1>4, AlwaysTyped, PTL DEF Spec, DeliversWhatWasSent
=============================================================================
