---------------------------- MODULE UploadStream ----------------------------
(***************************************************************************)
(* WriteDataPacketBuffers of src/session.go as the other end of the upload *)
(* channel sees it: the writer and the probe frame their datagrams in      *)
(* place (src/l3_channel.go, src/packet_buffer.go, src/protocol.go) and    *)
(* write them under a mutex, and a write that fails may leave a frame      *)
(* torn.  The other end reads the stream as readDataPacket does.           *)
(*                                                                         *)
(* The stream is a sequence of cells <<kind, value, index, flips>>.  A     *)
(* header is two of them, the magic and the length; a cell of the payload  *)
(* knows how often the key was applied to it.  No payload looks like the   *)
(* magic.                                                                  *)
(***************************************************************************)
EXTENDS Integers, Sequences, SequencesExt, FiniteSets

CONSTANTS Packets, Size(_),    \* datagrams, and how long each is
          Cramped,             \* packets whose buffers leave no headroom
          Refused,             \* packets the filter does not permit
          Probe,               \* the packet the probe writes
          Obfuscated,          \* of the payloadEncoding
          MaximumPayload       \* maximumIPCPPayloadLength

ASSUME StreamAssumption ==
    /\ Probe \in Packets /\ Cramped \subseteq Packets /\ Refused \subseteq Packets
    /\ MaximumPayload \in Nat /\ Obfuscated \in BOOLEAN
    /\ \A p \in Packets : Size(p) \in 0..MaximumPayload

HeaderLength == 2
Writers == {"writer", "probe"}
Buffers == Packets \X {"own", "copy"}

VARIABLES
    ready,               \* of the session
    pc, slots,           \* each caller of WriteDataPacketBuffers, and its slice
    frames,              \* what the holder of writeAccess writes
    fresh,               \* packets nobody has handed over yet
    framed,              \* packets frameDataPacket was given
    wire,                \* what was written
    sent,                \* the datagrams whose frames were written whole
    torn, after,         \* a write failed; how many came after the first that did
    reader, want, taken, \* the other end: reads a header, a payload, has failed
    read,                \* the datagrams it made out
    released             \* how often each buffer was released

stream == <<wire, sent, torn, after>>
other == <<reader, want, taken, read>>
vars == <<ready, pc, slots, frames, fresh, framed, stream, other, released>>

Sending == {w \in Writers : pc[w] = "sending"}

TypeOK ==
    /\ ready \in BOOLEAN /\ torn \in BOOLEAN
    /\ pc \in [Writers -> {"idle", "check", "lock", "sending"}]
    /\ Cardinality(Sending) <= 1 /\ (frames # <<>> => Sending # {})
    /\ slots \in [Writers -> Seq(Buffers)]
    /\ fresh \subseteq Packets /\ framed \subseteq Packets /\ after \in Nat
    /\ reader \in {"header", "payload", "failed"}
    /\ want \in 0..MaximumPayload /\ taken \in 0..Len(wire)
    /\ released \in [Buffers -> 0..2]

Init ==
    /\ ready = TRUE
    /\ pc = [w \in Writers |-> "idle"] /\ slots = [w \in Writers |-> <<>>]
    /\ frames = <<>> /\ fresh = Packets /\ framed = {}
    /\ wire = <<>> /\ sent = <<>> /\ torn = FALSE /\ after = 0
    /\ reader = "header" /\ want = 0 /\ taken = 0 /\ read = <<>>
    /\ released = [b \in Buffers |-> 0]

Datagram(p) == [i \in 1..Size(p) |-> <<"data", p, i, 0>>]
-----------------------------------------------------------------------------
(* Plausible slips in these files; no action uses them. *)
OversizedAtMaximum(n) == n >= MaximumPayload
ReadyUnchecked == TRUE
KeepsSlot(b) == b
LockIgnored == TRUE
-----------------------------------------------------------------------------
(* xorKey with the key of the encoding: applied twice it undoes itself. *)
apply(payload) ==
    IF Obfuscated THEN [i \in DOMAIN payload |-> [payload[i] EXCEPT ![4] = 1 - @]] ELSE payload

encodeIPCPHeader(n) == << <<"magic", 0, 0, 0>>, <<"length", HeaderLength + n, 0, 0>> >>

(* requireHeadroom: the buffer, or a copy that has room for the header. *)
requireHeadroom(b) == IF b[1] \in Cramped THEN <<b[1], "copy">> ELSE b

(* The buffer frameDataPacket returns replaces the one in the slice. *)
Slot(b) == requireHeadroom(b)

frameDataPacket(p) == encodeIPCPHeader(Size(p)) \o apply(Datagram(p))

ReleaseAll(buffers) ==
    released' = [b \in Buffers |->
                    IF released[b] < 2 THEN released[b] + Cardinality({i \in DOMAIN buffers :
                                                                           buffers[i] = b})
                                       ELSE released[b]]

(* A call, with packets that are new to the session. *)
Batches(w) ==
    IF w = "probe" THEN {<<Probe>>}
    ELSE {<<p>> : p \in Packets \ {Probe}}
             \cup {<<p, q>> : p \in Packets \ {Probe}, q \in Packets \ {Probe}}

WriteDataPacketBuffers(w) ==
    /\ pc[w] = "idle"
    /\ \E batch \in Batches(w) :
           /\ IsInjective(batch) /\ ToSet(batch) \subseteq fresh
           /\ fresh' = fresh \ ToSet(batch)
           /\ slots' = [slots EXCEPT ![w] = [i \in DOMAIN batch |-> <<batch[i], "own">>]]
    /\ pc' = [pc EXCEPT ![w] = "check"]
    /\ UNCHANGED <<ready, frames, framed, stream, other, released>>

Returns(w) ==
    /\ pc' = [pc EXCEPT ![w] = "idle"]
    /\ slots' = [slots EXCEPT ![w] = <<>>]

(* The flag is looked at before the mutex is waited for. *)
SessionReady == ready

ChecksReady(w) ==
    /\ pc[w] = "check"
    /\ \/ SessionReady /\ pc' = [pc EXCEPT ![w] = "lock"] /\ UNCHANGED <<slots, released>>
       \/ ~SessionReady /\ Returns(w) /\ ReleaseAll(slots[w])
    /\ UNCHANGED <<ready, frames, fresh, framed, stream, other>>

CanLock == Sending = {}

(* The batch is filtered and framed, and the copied buffers released. *)
LocksAndFrames(w) ==
    /\ pc[w] = "lock" /\ CanLock
    /\ LET batch == slots[w]
           permitted == {i \in DOMAIN batch : batch[i][1] \notin Refused}
           copied == {i \in permitted : requireHeadroom(batch[i]) # batch[i]}
       IN  \/ /\ permitted = {}
              /\ Returns(w) /\ ReleaseAll(batch) /\ UNCHANGED <<frames, framed>>
           \/ /\ permitted # {}
              /\ frames' = FlattenSeq([i \in DOMAIN batch |->
                                           IF i \in permitted THEN <<batch[i][1]>> ELSE <<>>])
              /\ framed' = framed \cup {batch[i][1] : i \in permitted}
              /\ slots' = [slots EXCEPT ![w] = [i \in DOMAIN batch |->
                                           IF i \in permitted THEN Slot(batch[i]) ELSE batch[i]]]
              /\ pc' = [pc EXCEPT ![w] = "sending"]
              /\ ReleaseAll([i \in copied |-> batch[i]])
    /\ UNCHANGED <<ready, fresh, stream, other>>

Cells(packets) == FlattenSeq([i \in DOMAIN packets |-> frameDataPacket(packets[i])])

WriteBegun == after' = IF torn THEN after + 1 ELSE after

WriteEnds(w) ==
    /\ pc[w] = "sending"
    /\ wire' = wire \o Cells(frames)
    /\ sent' = sent \o frames
    /\ WriteBegun /\ Returns(w) /\ ReleaseAll(slots[w]) /\ frames' = <<>>
    /\ UNCHANGED <<ready, fresh, framed, torn, other>>

(* The deadline passes, or the connection breaks, with any part written. *)
WriteFails(w) ==
    /\ pc[w] = "sending"
    /\ \E n \in 0..(Len(Cells(frames)) - 1) : wire' = wire \o SubSeq(Cells(frames), 1, n)
    /\ torn' = TRUE /\ ready' = FALSE
    /\ WriteBegun /\ Returns(w) /\ ReleaseAll(slots[w]) /\ frames' = <<>>
    /\ UNCHANGED <<fresh, framed, sent, other>>

(* The session fails elsewhere. *)
Fail ==
    /\ ready /\ ready' = FALSE
    /\ UNCHANGED <<pc, slots, frames, fresh, framed, stream, other, released>>
-----------------------------------------------------------------------------
IsMagic(cell) == cell[1] = "magic"
Oversized(n) == n > MaximumPayload

readIPCPHeader ==
    /\ reader = "header" /\ taken + HeaderLength <= Len(wire)
    /\ taken' = taken + HeaderLength
    /\ LET n == wire[taken + 2][2] - HeaderLength
       IN  \/ /\ IsMagic(wire[taken + 1]) /\ n >= 0 /\ ~Oversized(n)
              /\ reader' = "payload" /\ want' = n
           \/ /\ ~(IsMagic(wire[taken + 1]) /\ n >= 0 /\ ~Oversized(n))
              /\ reader' = "failed" /\ UNCHANGED want
    /\ UNCHANGED <<ready, pc, slots, frames, fresh, framed, stream, read, released>>

readDataPacket ==
    /\ reader = "payload" /\ taken + want <= Len(wire)
    /\ taken' = taken + want
    /\ read' = Append(read, apply(SubSeq(wire, taken + 1, taken + want)))
    /\ reader' = "header" /\ want' = 0
    /\ UNCHANGED <<ready, pc, slots, frames, fresh, framed, stream, released>>

Next ==
    \/ \E w \in Writers :
           \/ WriteDataPacketBuffers(w) \/ ChecksReady(w) \/ LocksAndFrames(w)
           \/ WriteEnds(w) \/ WriteFails(w)
    \/ Fail \/ readIPCPHeader \/ readDataPacket

Spec == Init /\ [][Next]_vars
-----------------------------------------------------------------------------
(* While no write has failed the other end makes out what was sent, in the *)
(* order it was written, whoever wrote it and from whatever buffers.       *)
ReadsWhatWasSent ==
    ~torn => reader # "failed" /\ IsPrefix(read, [i \in DOMAIN sent |-> Datagram(sent[i])])

(* A failed write leaves the stream torn, and the mutex goes to whoever    *)
(* waits for it: one more batch may follow, and no second one.  So at most *)
(* one datagram the other end makes out was never sent: the torn one,      *)
(* filled up from the batch behind it.                                     *)
TearIsContained ==
    /\ after <= 1
    /\ Cardinality({i \in DOMAIN read : \A p \in Packets : read[i] # Datagram(p)}) <= 1

(* Every buffer of a batch is released once, whichever way the call        *)
(* returns; and so is the copy, which requireHeadroom made of the framed   *)
(* datagrams without headroom, and of no other.                            *)
FramedBuffersReleasedOnce ==
    \A p \in Packets \ fresh :
        \/ \E w \in Writers, b \in Buffers : b[1] = p /\ b \in ToSet(slots[w])
        \/ /\ released[<<p, "own">>] = 1
           /\ released[<<p, "copy">>] = IF p \in framed \cap Cramped THEN 1 ELSE 0
=============================================================================
