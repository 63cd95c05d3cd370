---------------------------- MODULE ChassisLink ----------------------------
(***************************************************************************)
(* The serial link from the chassis controller to the driver               *)
(* (turn_on_wheeltec_robot/src/wheeltec_robot.cpp): Control reads one byte *)
(* a turn and gives it to two frame parsers that share the stream, one for *)
(* the motion frames (24 bytes, 0x7B .. 0x7D) and one for the charging     *)
(* frames (8 bytes, 0x7C .. 0x7F).  A parser waits for its header byte,    *)
(* collects a whole frame whatever the bytes are, and delivers it when the *)
(* tail and the checksum fit; it never looks back.                         *)
(*                                                                         *)
(* The link may lose a byte; and a read that times out leaves the byte      *)
(* uninitialised (line 502 ff.), so the driver then processes an arbitrary  *)
(* one.                                                                     *)
(***************************************************************************)
EXTENDS Integers, SequencesExt

CONSTANTS
    Byte,                                   \* what a byte can be
    ExclusiveOr(_, _),                      \* the operator ^ on bytes
    FRAME_HEADER, FRAME_TAIL,               \* 0x7B, 0x7D
    AutoCharge_HEADER, AutoCharge_TAIL,     \* 0x7C, 0x7F
    RECEIVE_DATA_SIZE,                      \* 24: header, data, checksum, tail
    AutoCharge_DATA_SIZE,                   \* 8
    Payloads,       \* the data of motion frames: sequences of bytes
    ChargePayloads, \* the data of charging frames
    MaxFrames,      \* bound: frames sent
    MaxGlitches     \* bound: bytes lost or made up

Codes == {FRAME_HEADER, FRAME_TAIL, AutoCharge_HEADER, AutoCharge_TAIL}

\* the four codes of wheeltec_robot.h differ
ASSUME CodesAssumption ==
    /\ Codes \subseteq Byte
    /\ FRAME_HEADER \notin {FRAME_TAIL, AutoCharge_HEADER, AutoCharge_TAIL}
    /\ FRAME_TAIL \notin {AutoCharge_HEADER, AutoCharge_TAIL}
    /\ AutoCharge_HEADER # AutoCharge_TAIL

Check_Sum(bytes) == FoldLeft(ExclusiveOr, 0, bytes)

IsData(header, p, size) == /\ p \in Seq(Byte) /\ Len(p) = size - 3
                           /\ Check_Sum(<<header>> \o p) \in Byte

ASSUME LinkAssumption ==
    /\ RECEIVE_DATA_SIZE \in Nat /\ RECEIVE_DATA_SIZE >= 3
    /\ AutoCharge_DATA_SIZE \in Nat /\ AutoCharge_DATA_SIZE >= 3
    /\ \A p \in Payloads : IsData(FRAME_HEADER, p, RECEIVE_DATA_SIZE)
    /\ \A p \in ChargePayloads : IsData(AutoCharge_HEADER, p, AutoCharge_DATA_SIZE)
    /\ MaxFrames \in Nat /\ MaxGlitches \in Nat

VARIABLES
    frame, pos,     \* the frame the controller is sending, bytes already sent
    last,           \* the byte before the one the driver reads next
    rx, rx2,        \* Receive_Data.rx[0 .. count), Receive_AutoCharge_Data.rx[0 .. count2)
    sent, got,      \* motion frames sent and delivered
    sent2, got2,    \* charging frames sent and delivered
    glitches,       \* bytes lost or made up so far
    codes,          \* bytes read so far that look like a header or a tail and are none
    trouble         \* both, since the parsers were last empty before a frame

vars == <<frame, pos, last, rx, rx2, sent, got, sent2, got2, glitches, codes, trouble>>

Frame(header, data, tail) == <<header>> \o data \o <<Check_Sum(<<header>> \o data), tail>>

\* what the controller sends, in whatever order
MotionFrames == {Frame(FRAME_HEADER, p, FRAME_TAIL) : p \in Payloads}
ChargeFrames == {Frame(AutoCharge_HEADER, p, AutoCharge_TAIL) : p \in ChargePayloads}

\* A byte between the header and the tail that looks like one, of either kind:
\* "normal data may contain 7B and 7D" (line 432), and nothing escapes it.
Misleads(f, k) == k \in 2 .. Len(f) - 1 /\ f[k] \in Codes

\* The trouble there was since the parsers were last empty before a frame.
since == IF pos = 0 /\ rx = <<>> /\ rx2 = <<>> THEN 0 ELSE trouble

\* A step is g glitches and c misleading bytes (0 or 1 of each).
Count(g, c) == /\ glitches' = glitches + g
               /\ codes' = codes + c
               /\ trouble' = g + c + since

Init == /\ frame \in MotionFrames \cup ChargeFrames /\ pos = 0
        /\ last = FRAME_TAIL
        /\ rx = <<>> /\ rx2 = <<>>
        /\ sent = 0 /\ got = 0 /\ sent2 = 0 /\ got2 = 0
        /\ glitches = 0 /\ codes = 0 /\ trouble = 0

-----------------------------------------------------------------------------
(* One parser: what it holds after a byte, and whether that byte completes  *)
(* a frame it delivers.                                                     *)

CollectAnyStart(buf, b, header, size) ==    \* mutant: any byte opens a frame
    IF Len(buf) + 1 = size THEN <<>> ELSE Append(buf, b)

Collect(buf, b, header, size) ==
    IF (buf = <<>> /\ b # header) \/ Len(buf) + 1 = size THEN <<>> ELSE Append(buf, b)

SumOnly(buf, b, tail, size) ==          \* mutant: the tail is not compared
    /\ Len(buf) + 1 = size
    /\ Check_Sum(SubSeq(buf, 1, size - 2)) = buf[size - 1]

Complete(buf, b, tail, size) ==
    /\ Len(buf) + 1 = size
    /\ b = tail
    /\ Check_Sum(SubSeq(buf, 1, size - 2)) = buf[size - 1]

\* Get_Sensor_Data_New on byte b
Get_Sensor_Data_New(b) ==
    /\ rx'  = Collect(rx, b, FRAME_HEADER, RECEIVE_DATA_SIZE)
    /\ rx2' = Collect(rx2, b, AutoCharge_HEADER, AutoCharge_DATA_SIZE)
    /\ got'  = got + (IF Complete(rx, b, FRAME_TAIL, RECEIVE_DATA_SIZE) THEN 1 ELSE 0)
    /\ got2' = got2 + (IF Complete(rx2, b, AutoCharge_TAIL, AutoCharge_DATA_SIZE) THEN 1 ELSE 0)
    /\ last' = b

\* the controller goes to its next byte, and frame
Sent == IF pos + 1 < Len(frame)
        THEN pos' = pos + 1 /\ UNCHANGED <<frame, sent, sent2>>
        ELSE /\ pos' = 0
             /\ frame' \in MotionFrames \cup ChargeFrames
             /\ sent'  = sent + (IF frame \in MotionFrames THEN 1 ELSE 0)
             /\ sent2' = sent2 + (IF frame \in MotionFrames THEN 0 ELSE 1)

Transfer == /\ sent + sent2 < MaxFrames
            /\ Sent
            /\ Get_Sensor_Data_New(frame[pos + 1])
            /\ Count(0, IF Misleads(frame, pos + 1) THEN 1 ELSE 0)

\* external: a byte is lost on the line
Lose == /\ sent + sent2 < MaxFrames
        /\ glitches < MaxGlitches /\ Count(1, 0)
        /\ Sent
        /\ UNCHANGED <<last, rx, rx2, got, got2>>

\* the read times out with no byte, and the uninitialised one is processed
ReadTimeout(b) == /\ glitches < MaxGlitches /\ Count(1, 0)
                  /\ Get_Sensor_Data_New(b)
                  /\ UNCHANGED <<frame, pos, sent, sent2>>

Next == Transfer \/ Lose \/ \E b \in Byte : ReadTimeout(b)

Spec == Init /\ [][Next]_vars

-----------------------------------------------------------------------------
\* A parser never holds a whole frame, and counts what it delivers.
TypeOK ==
    /\ frame \in MotionFrames \cup ChargeFrames /\ pos \in 0 .. Len(frame) - 1
    /\ last \in Byte
    /\ rx \in Seq(Byte) /\ Len(rx) < RECEIVE_DATA_SIZE
    /\ rx2 \in Seq(Byte) /\ Len(rx2) < AutoCharge_DATA_SIZE
    /\ {sent, sent2} \subseteq 0 .. MaxFrames /\ {got, got2} \subseteq Nat
    /\ glitches \in 0 .. MaxGlitches /\ {codes, trouble} \subseteq Nat

\* The frame the driver delivers is the one the controller has just sent, and
\* not bytes of two (line 570): since the parsers were last empty before a
\* frame, one lost or made-up byte, or one data byte that looks like a header
\* or a tail, never gets past the tail and the checksum.  (Two may: a data byte
\* that opens a frame, and one that closes it.)
DeliversWhatWasSent ==
    [][trouble' <= 1 =>
          /\ got' # got => frame \in MotionFrames /\ rx = SubSeq(frame, 1, RECEIVE_DATA_SIZE - 1)
          /\ got2' # got2 => frame \in ChargeFrames /\ rx2 = SubSeq(frame, 1, AutoCharge_DATA_SIZE - 1)]_vars

\* A lost or made-up byte costs at most two frames of a kind, and so does a data
\* byte that looks like a header: after that both parsers are in step again.
Resynchronises == /\ sent - got <= 2 * (glitches + codes)
                  /\ sent2 - got2 <= 2 * (glitches + codes)

-----------------------------------------------------------------------------
(* What comments, messages and help texts say and the code does not keep;  *)
(* the README gives each trace.                                            *)

\* Every frame that arrives whole on an undisturbed line is delivered: no
\* "correct data not to be processed" (line 372).
IntactDelivered == pos = 0 /\ glitches = 0 => got = sent /\ got2 = sent2

\* "the header of a charging frame was received and the byte before it is the
\* tail of a 24-byte frame: a charging frame begins" (line 526).
ChargeAfterTail == [][rx2 = <<>> /\ rx2' # <<>> => last = FRAME_TAIL]_vars
=============================================================================
