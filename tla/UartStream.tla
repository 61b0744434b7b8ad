----------------------------- MODULE UartStream -----------------------------
(***************************************************************************)
(* The two receivers of the UART byte stream: the FC's task                *)
(* (aerolink_sitl.c, aerolinkSitlTask and processFrames) and the Pi's      *)
(* StreamDecoder (protocol.py).  Each behaviour has one of them at the end *)
(* of a line that alters, loses and inserts bytes.                         *)
(*                                                                         *)
(* A frame is magic (two bytes), payload length, the other header fields,  *)
(* payload and CRC, one byte each.  A receiver that looks for the start of *)
(* a frame scans all of them, so any but the length may hold a byte of the *)
(* magic.  A byte knows the frame and the place it was sent in, which an   *)
(* altered one forgets: the CRC matches exactly the bytes of one frame,    *)
(* whole and in order.                                                     *)
(*                                                                         *)
(* Bounds: MaxFrames, MaxFaults, and MaxWire bytes under way.              *)
(***************************************************************************)
EXTENDS Integers, Sequences, FiniteSets

CONSTANTS
    A, L,                       \* the bytes of the magic
    MaxPayload,
    Messages,                   \* what is sent: a payload, what the sender writes
                                \* into the other fields, and the CRC they come to
    RxBudget, TelemetryBudget,  \* of one run of the FC's task
    MaxFrames, MaxFaults, MaxWire

\* The bytes that framing tells apart: what can be a length, one that is too
\* long, and the magic.
Bytes == 0 .. (MaxPayload + 1) \union {A, L}

ASSUME StreamAssumption ==
    /\ MaxPayload \in Nat /\ RxBudget \in Nat \ {0} /\ TelemetryBudget \in Nat \ {0}
    /\ A \in Nat /\ L \in Nat /\ A # L /\ A > MaxPayload + 1 /\ L > MaxPayload + 1
    /\ \A m \in Messages :
         /\ m.field \in Bytes /\ m.crc \in Bytes
         /\ m.payload \in Seq(Bytes) /\ Len(m.payload) <= MaxPayload
    /\ MaxFrames \in Nat /\ MaxFaults \in Nat /\ MaxWire \in Nat

VARIABLES
    side,           \* who receives: "fc" or "pi"
    wire,           \* bytes sent and not yet read
    buffer,         \* rx of the FC, _buffer of the Pi
    running,        \* inside processFrames or feed
    telemetry,      \* answers of this run of the FC
    passed,         \* numbers of the frames handed on
    sent, faults,
    damaged,        \* history: frames altered, or sent with a byte missing
    hurt,           \* history: these, those a byte was put behind, and those
                    \* the FC's full buffer pushed a byte of out
    plain           \* history: no frame sent so far has the magic anywhere but
                    \* at its start

line == <<wire, sent, faults, plain, damaged>>
vars == <<side, line, buffer, running, telemetry, passed, hurt>>

HeaderSize == 4
CrcSize == 1
MaxFrame == HeaderSize + MaxPayload + CrcSize
Noise(b) == [byte |-> b, frame |-> 0, place |-> 0]

Content(m) == <<A, L, Len(m.payload), m.field>> \o m.payload \o <<m.crc>>

Encoded(m, f) ==
    [k \in 1..Len(Content(m)) |-> [byte |-> Content(m)[k], frame |-> f, place |-> k]]

\* The magic anywhere but at the start of a frame.
HoldsMagic(m) ==
    \E k \in 2..Len(Content(m)) - 1 : Content(m)[k] = A /\ Content(m)[k + 1] = L

Without(s, k) == SubSeq(s, 1, k - 1) \o SubSeq(s, k + 1, Len(s))
From(s, k) == SubSeq(s, k, Len(s))
LastOf(s, n) == IF Len(s) > n THEN From(s, Len(s) - n + 1) ELSE s
HasMagic(s, k) == k < Len(s) /\ s[k].byte = A /\ s[k + 1].byte = L

Init ==
    /\ side \in {"fc", "pi"}
    /\ wire = <<>> /\ buffer = <<>> /\ running = FALSE /\ telemetry = 0
    /\ passed = <<>> /\ sent = 0 /\ faults = 0 /\ damaged = {} /\ hurt = {} /\ plain = TRUE

\* A frame goes out whole, with a byte altered or with a byte lost.
Send(m) ==
    /\ sent < MaxFrames /\ Len(wire) < MaxWire
    /\ sent' = sent + 1
    /\ plain' = (plain /\ ~HoldsMagic(m))
    /\ LET frame == Encoded(m, sent + 1) IN
       \/ wire' = wire \o frame /\ UNCHANGED <<faults, damaged, hurt>>
       \/ /\ faults < MaxFaults /\ faults' = faults + 1
          /\ damaged' = damaged \union {sent + 1} /\ hurt' = hurt \union {sent + 1}
          /\ \E k \in 1..Len(frame) :
                \/ wire' = wire \o Without(frame, k)
                \/ \E b \in Bytes \ {frame[k].byte} : wire' = wire \o [frame EXCEPT ![k] = Noise(b)]
    /\ UNCHANGED <<side, buffer, running, telemetry, passed>>

\* A byte nobody sent.
Insert(b) ==
    /\ faults < MaxFaults /\ faults' = faults + 1
    /\ wire' = Append(wire, Noise(b))
    /\ hurt' = hurt \union {sent}
    /\ UNCHANGED <<side, sent, plain, damaged, buffer, running, telemetry, passed>>

\* Does a run or a feed come to an end here?
Stop(kept) == running' = FALSE /\ buffer' = kept /\ UNCHANGED <<passed, telemetry>>

Length(s) == s[3].byte
Total(s) == HeaderSize + Length(s) + CrcSize

\* A slip: the payload is not covered.
CrcOfHeader(s) ==
    /\ s[1].frame > 0 /\ Total(s) <= Len(s)
    /\ \A k \in 1..HeaderSize : s[k].frame = s[1].frame /\ s[k].place = k

CrcMatches(s) ==
    /\ s[1].frame > 0 /\ Total(s) <= Len(s)
    /\ \A k \in 1..Total(s) : s[k].frame = s[1].frame /\ s[k].place = k

\* A slip: the buffer is not bounded.
KeptAll(s) == s

\* Bytes read into the FC's full buffer push out the oldest.
KeptLast(s) == LastOf(s, MaxFrame)

\* One run of the task begins: it reads up to its budget of what has arrived.
RunFc(n) ==
    /\ side = "fc" /\ ~running /\ n <= RxBudget
    /\ running' = TRUE /\ telemetry' = 0
    /\ LET all == buffer \o SubSeq(wire, 1, n) IN
       /\ buffer' = KeptLast(all)
       /\ hurt' = hurt \union {all[k].frame : k \in 1 .. Len(all) - Len(KeptLast(all))}
    /\ wire' = From(wire, n + 1)
    /\ UNCHANGED <<side, sent, faults, plain, damaged, passed>>

\* A slip: a frame is looked at once its header is there.
ArrivedInPart(s) == Len(s) >= HeaderSize + CrcSize

Arrived(s) == Len(s) >= Total(s)

\* One turn of the loop of processFrames.  A frame is answered and taken out
\* whole, also when it is refused; HELLO and HEARTBEAT are answered by two
\* more messages if the budget allows.
FcTurn ==
    /\ side = "fc" /\ running
    /\ IF Len(buffer) < HeaderSize + CrcSize \/ telemetry >= TelemetryBudget THEN Stop(buffer)
       ELSE IF ~HasMagic(buffer, 1)
       THEN buffer' = Tail(buffer) /\ UNCHANGED <<running, telemetry, passed>>
       ELSE IF Length(buffer) > MaxPayload
       THEN buffer' = Tail(buffer) /\ telemetry' = telemetry + 1 /\ UNCHANGED <<running, passed>>
       ELSE IF ~Arrived(buffer) THEN Stop(buffer)
       ELSE /\ passed' = IF CrcMatches(buffer) THEN Append(passed, buffer[1].frame) ELSE passed
            /\ \E more \in {0, 2} :
                  /\ more = 2 => telemetry + 3 <= TelemetryBudget
                  /\ telemetry' = telemetry + 1 + more
            /\ buffer' = From(buffer, Total(buffer) + 1)
            /\ UNCHANGED running
    /\ UNCHANGED <<side, line, hurt>>

\* feed is called with any chunk.
FeedPi(n) ==
    /\ side = "pi" /\ ~running
    /\ running' = TRUE
    /\ buffer' = buffer \o SubSeq(wire, 1, n)
    /\ wire' = From(wire, n + 1)
    /\ UNCHANGED <<side, sent, faults, plain, damaged, telemetry, passed, hurt>>

Magics == {k \in 1..Len(buffer) : HasMagic(buffer, k)}

\* A slip: nothing is kept.
PartialForgotten == <<>>

\* What is kept of a buffer without magic: a last byte that may begin one.
Partial == IF buffer # <<>> /\ buffer[Len(buffer)].byte = A THEN LastOf(buffer, 1) ELSE <<>>

\* A slip: a refused frame is taken out whole.
RefusedWhole(s) == From(s, Total(s) + 1)

\* Of a refused frame only the first byte is taken out.
Refused(s) == Tail(s)

\* One turn of the loop of feed.
PiTurn ==
    /\ side = "pi" /\ running
    /\ IF Magics = {} THEN Stop(KeptLast(Partial))
       ELSE LET at == From(buffer, CHOOSE k \in Magics : \A m \in Magics : k <= m) IN
            IF Len(at) < HeaderSize THEN Stop(KeptLast(at))
            ELSE IF Length(at) > MaxPayload
            THEN buffer' = Tail(at) /\ UNCHANGED <<running, passed, telemetry>>
            ELSE IF Len(at) < Total(at) THEN Stop(KeptLast(at))
            ELSE /\ passed' = IF CrcMatches(at) THEN Append(passed, at[1].frame) ELSE passed
                 /\ buffer' = IF CrcMatches(at) THEN From(at, Total(at) + 1) ELSE Refused(at)
                 /\ UNCHANGED <<running, telemetry>>
    /\ UNCHANGED <<side, line, hurt>>

Receive == \E n \in 1..Len(wire) : RunFc(n) \/ FeedPi(n)

Next ==
    \/ \E m \in Messages : Send(m)
    \/ \E b \in Bytes : Insert(b)
    \/ Receive
    \/ RunFc(0)
    \/ FcTurn
    \/ PiTurn

Spec == Init /\ [][Next]_vars

\* The FC's task is run again and again and the Pi reads its socket, and what
\* is under way arrives before one of infinitely many runs.
FairSpec ==
    /\ Spec
    /\ SF_vars(Receive) /\ WF_vars(RunFc(0)) /\ WF_vars(FcTurn) /\ WF_vars(PiTurn)

-----------------------------------------------------------------------------

Tokens == [byte : Bytes, frame : 0..sent, place : 0..MaxFrame]

\* Types, and the buffers' limits: the FC's is never exceeded, and what the Pi
\* keeps between two chunks is less than a frame, so feed never cuts it.
TypeOK ==
    /\ side \in {"fc", "pi"} /\ running \in BOOLEAN
    /\ sent \in 0..MaxFrames /\ faults \in 0..MaxFaults /\ plain \in BOOLEAN
    /\ wire \in Seq(Tokens) /\ buffer \in Seq(Tokens)
    /\ telemetry \in 0..TelemetryBudget
    /\ passed \in Seq(1..sent)
    /\ damaged \subseteq hurt \cap (1..sent) /\ hurt \subseteq 0..sent
    /\ side = "fc" => Len(buffer) <= MaxFrame
    /\ side = "pi" /\ ~running => Len(buffer) < MaxFrame

Held(f) ==
    LET ahead == buffer \o wire
    IN  \E k \in 1..Len(ahead) : ahead[k].frame = f /\ ahead[k].place = 1

Lost == {f \in 1..sent : f \notin damaged /\ ~Held(f) /\ \A k \in 1..Len(passed) : passed[k] # f}

\* However the stream is cut into chunks and disturbed, no frame is handed on
\* twice, out of order or damaged.
PassedOnceInOrder ==
    /\ \A i, j \in 1..Len(passed) : i < j => passed[i] < passed[j]
    /\ \A k \in 1..Len(passed) : passed[k] \notin damaged

\* The Pi loses no frame that arrives undisturbed, whatever came before it,
\* also when frames contain the magic.
PiLosesNothing == side = "pi" => Lost = {}

\* The FC loses an undisturbed frame only behind a disturbance or a byte its
\* full buffer pushed out, and no further behind than a longest frame reaches,
\* as long as no frame contains the magic anywhere but at its start: neither in
\* its payload nor in or across its sequence, uptime and CRC bytes.
FcLossIsLocal ==
    side = "fc" /\ plain => \A f \in Lost : \E g \in hurt :
        g <= f /\ (f - g - 1) * (HeaderSize + CrcSize) < MaxFrame

\* Every frame of an undisturbed stream is handed on in the end, unless the
\* FC's full buffer pushes bytes out (`hurt`): neither a budget nor a chunk
\* boundary holds it up for good.
UndisturbedArrives == \A f \in 1..MaxFrames :
    sent >= f ~> (hurt # {} \/ \E k \in 1..Len(passed) : passed[k] = f)
=============================================================================
