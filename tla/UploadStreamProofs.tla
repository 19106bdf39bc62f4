------------------------ MODULE UploadStreamProofs ------------------------
(***************************************************************************)
(* For every set of datagrams of any lengths up to the maximum, with and   *)
(* without an encoding: while no write has failed the other end reads what *)
(* was sent; after a failed write at most one more batch follows, and at   *)
(* most one datagram is misread; and every buffer is released once.        *)
(***************************************************************************)
EXTENDS UploadStream, FiniteSetTheorems, SequenceTheorems, TLAPS

Labels == {"idle", "check", "lock", "sending"}

(* Past the look at the ready flag. *)
Beyond == {"lock", "sending"}

(* One write at a time, of a batch that is there.  A failed write has      *)
(* taken the ready flag, so that one caller at most is still past it, and  *)
(* none when that one has written.                                         *)
ControlInv ==
    /\ ready \in BOOLEAN /\ torn \in BOOLEAN
    /\ pc \in [Writers -> Labels]
    /\ ~(pc["writer"] = "sending" /\ pc["probe"] = "sending")
    /\ frames \in Seq(Packets) /\ Len(frames) \in {0, 1, 2}
    /\ (\E w \in Writers : pc[w] = "sending") <=> Len(frames) # 0
    /\ torn => ~ready
    /\ after \in {0, 1}
    /\ after # 0 => torn
    /\ torn /\ after = 0 => ~(pc["writer"] \in Beyond /\ pc["probe"] \in Beyond)
    /\ after = 1 => pc["writer"] \notin Beyond /\ pc["probe"] \notin Beyond

InSlot(p) == \E w \in Writers : \E i \in 1..Len(slots[w]) : slots[w][i][1] = p

(* requireHeadroom has copied the packet. *)
HasCopy(p) == p \in framed /\ p \in Cramped

(* What a slot's buffer is, and what has been released of its packet. *)
Unframed(b) ==
    /\ b = <<b[1], "own">> /\ ~HasCopy(b[1])
    /\ released[b] = 0 /\ released[<<b[1], "copy">>] = 0
Copied(b) ==
    /\ b = <<b[1], "copy">> /\ HasCopy(b[1])
    /\ released[<<b[1], "own">>] = 1 /\ released[b] = 0
Done(p) ==
    /\ released[<<p, "own">>] = 1
    /\ released[<<p, "copy">>] = IF HasCopy(p) THEN 1 ELSE 0

(* The packet of a slot is in no other, and no caller's any more. *)
BufferInv ==
    /\ slots \in [Writers -> Seq(Buffers)]
    /\ \A w \in Writers : Len(slots[w]) \in {0, 1, 2}
    /\ \A w \in Writers : pc[w] # "idle" <=> Len(slots[w]) # 0
    /\ fresh \subseteq Packets /\ framed \subseteq Packets
    /\ released \in [Buffers -> 0..2]
    /\ \A w, v \in Writers : \A i \in 1..Len(slots[w]), j \in 1..Len(slots[v]) :
           slots[w][i][1] = slots[v][j][1] => w = v /\ i = j
    /\ \A w \in Writers : \A i \in 1..Len(slots[w]) :
           /\ slots[w][i][1] \notin fresh
           /\ Unframed(slots[w][i]) \/ (pc[w] = "sending" /\ Copied(slots[w][i]))
    /\ \A p \in fresh :
           released[<<p, "own">>] = 0 /\ released[<<p, "copy">>] = 0 /\ ~HasCopy(p)
    /\ \A p \in Packets \ fresh : InSlot(p) \/ Done(p)

(* The stream is made of frames, the k-th of them the first cells of the   *)
(* frame of pk[k], from off[k] on.  No recursion is needed to say where a  *)
(* frame begins: off is there when the stream is.                          *)
Coded == IF Obfuscated THEN 1 ELSE 0
Cell == {"magic", "length", "data"} \X (Packets \cup Nat) \X Nat \X {0, 1}
FrameLength(p) == HeaderLength + Size(p)

Framed(pk, off, w) ==
    /\ pk \in Seq(Packets) /\ off \in Seq(Nat) /\ Len(off) = Len(pk) + 1
    /\ off[1] = 0 /\ off[Len(pk) + 1] = Len(w)
    /\ \A k, l \in 1..(Len(pk) + 1) : k <= l => off[k] <= off[l]
    /\ \A k \in 1..Len(pk) :
           /\ off[k + 1] <= off[k] + FrameLength(pk[k])
           /\ \A j \in 1..(off[k + 1] - off[k]) : w[off[k] + j] = frameDataPacket(pk[k])[j]

Whole(pk, off, k) == off[k + 1] = off[k] + FrameLength(pk[k])

AtPayload(pk, off, k) ==
    /\ reader = "payload"
    /\ off[k] + HeaderLength <= off[k + 1]
    /\ taken = off[k] + HeaderLength /\ want = Size(pk[k])

(* While no write has failed the other end is between two frames, or       *)
(* between header and payload of one, and has read all before it.          *)
InStep(pk, off) ==
    /\ \A k \in 1..Len(pk) : Whole(pk, off, k)
    /\ Len(read) <= Len(pk)
    /\ \A k \in 1..Len(read) : read[k] = Datagram(pk[k])
    /\ \/ reader = "header" /\ taken = off[Len(read) + 1]
       \/ Len(read) < Len(pk) /\ AtPayload(pk, off, Len(read) + 1)

(* After a failed write one frame, the c-th, is cut, and perhaps the last. *)
(* The other end may be out of step only behind the cut, where no frame    *)
(* seems to begin, and has then misread one datagram at most.              *)
Cut(pk, off, c) ==
    /\ c \in 1..Len(pk) /\ Len(pk) <= c + 2
    /\ ~Whole(pk, off, c)
    /\ \A k \in 1..(Len(pk) - 1) : k # c => Whole(pk, off, k)
    /\ \/ reader = "failed"
       \/ reader = "header" /\ \E k \in 1..(Len(pk) + 1) : taken = off[k]
       \/ reader = "header" /\ \E k \in (c + 1)..Len(pk) : off[k] < taken /\ taken < off[k + 1]
       \/ \E k \in 1..Len(pk) : AtPayload(pk, off, k)
    /\ \/ \A i \in 1..Len(read) : \E p \in Packets : read[i] = Datagram(p)
       \/ /\ taken > off[c + 1]
          /\ \E b \in 1..Len(read) : \A i \in 1..Len(read) \ {b} :
                 \E p \in Packets : read[i] = Datagram(p)

(* The frames of stream w, when s was sent, with a batches after the tear. *)
Parsed(w, s, t, a) ==
    \E pk, off :
        /\ Framed(pk, off, w)
        /\ ~t => pk = s /\ InStep(pk, off)
        /\ t => \E c : Cut(pk, off, c) /\ (a = 0 => Len(pk) = c)

WireInv ==
    /\ wire \in Seq(Cell) /\ sent \in Seq(Packets) /\ \E S : read \in Seq(S)
    /\ reader \in {"header", "payload", "failed"}
    /\ want \in 0..MaximumPayload /\ taken \in 0..Len(wire)
    /\ Parsed(wire, sent, torn, after)

StreamInv == ControlInv /\ BufferInv /\ WireInv
-----------------------------------------------------------------------------
LEMMA NextCases ==
    ASSUME [Next]_vars
    PROVE  \/ \E w \in Writers :
                  \/ WriteDataPacketBuffers(w) \/ ChecksReady(w) \/ LocksAndFrames(w)
                  \/ WriteEnds(w) \/ WriteFails(w)
           \/ Fail \/ readIPCPHeader \/ readDataPacket \/ UNCHANGED vars
BY Zenon DEF Next

(* FlattenSeq of one or two sequences. *)
LEMMA Flatten ==
    ASSUME NEW S, NEW ss \in Seq(Seq(S)), Len(ss) \in {1, 2}
    PROVE  /\ FlattenSeq(ss) = IF Len(ss) = 1 THEN ss[1] ELSE ss[1] \o ss[2]
           /\ FlattenSeq(ss) \in Seq(S)
<1> DEFINE D(f) == f = [i \in 1..Len(ss) |-> IF i = 1 THEN ss[i] ELSE f[i - 1] \o ss[i]]
<1> DEFINE g == CHOOSE f : D(f)
<1>1. FlattenSeq(ss) = g[Len(ss)]
    BY DEF FlattenSeq
<1>2. ASSUME NEW h, h = [i \in 1..Len(ss) |-> IF i = 1 THEN ss[1] ELSE ss[1] \o ss[2]]
      PROVE  D(h)
    <2>1. ASSUME NEW i \in 1..Len(ss)
          PROVE  h[i] = IF i = 1 THEN ss[i] ELSE h[i - 1] \o ss[i]
        <3>1. CASE i = 1
            BY <1>2, <3>1
        <3>2. CASE i = 2
            <4>1. 1 \in 1..Len(ss) /\ i - 1 = 1 /\ i # 1
                BY <3>2
            <4>2. h[1] = ss[1] /\ h[i] = ss[1] \o ss[2]
                BY <1>2, <4>1
            <4> QED
                BY <3>2, <4>1, <4>2, Zenon
        <3> QED
            BY <3>1, <3>2
    <2> QED
        BY <1>2, <2>1
<1>3. \E f : D(f)
    BY <1>2
<1>4. D(g)
    BY <1>3, Zenon
<1> HIDE DEF g
<1>5. g[1] = ss[1]
    BY <1>4
<1>6. Len(ss) = 2 => g[2] = g[1] \o ss[2]
    BY <1>4
<1>7. ss[1] \in Seq(S) /\ (Len(ss) = 2 => ss[2] \in Seq(S))
    OBVIOUS
<1> HIDE DEF D
<1>8. CASE Len(ss) = 1
    BY <1>1, <1>5, <1>7, <1>8
<1>9. CASE Len(ss) = 2
    <2>1. FlattenSeq(ss) = ss[1] \o ss[2]
        BY <1>1, <1>5, <1>6, <1>9
    <2>2. ss[1] \o ss[2] \in Seq(S)
        BY <1>7, <1>9
    <2> QED
        BY <1>9, <2>1, <2>2
<1> QED
    BY <1>8, <1>9

LEMMA BatchIs ==
    ASSUME NEW w \in Writers, NEW batch \in Batches(w)
    PROVE  batch \in Seq(Packets) /\ Len(batch) \in {1, 2}
<1>1. CASE w = "probe"
    <2>1. batch = <<Probe>> /\ Probe \in Packets
        BY <1>1, StreamAssumption DEF Batches
    <2> QED
        BY <2>1
<1>2. CASE w # "probe"
    <2>1. \/ \E p \in Packets : batch = <<p>>
          \/ \E p \in Packets, q \in Packets : batch = <<p, q>>
        BY <1>2 DEF Batches
    <2>2. ASSUME NEW p \in Packets, batch = <<p>>
          PROVE  batch \in Seq(Packets) /\ Len(batch) = 1
        BY <2>2
    <2>3. ASSUME NEW p \in Packets, NEW q \in Packets, batch = <<p, q>>
          PROVE  batch \in Seq(Packets) /\ Len(batch) = 2
        BY <2>3
    <2> QED
        BY <2>1, <2>2, <2>3
<1> QED
    BY <1>1, <1>2

(* The datagrams the filter lets through are written in the order of their *)
(* slots, and there is one unless the filter refuses them all.             *)
LEMMA FramesAre ==
    ASSUME NEW batch \in Seq(Buffers), Len(batch) \in {1, 2},
           NEW permitted, permitted \subseteq DOMAIN batch, permitted # {},
           NEW result,
           result = FlattenSeq([i \in DOMAIN batch |->
                                    IF i \in permitted THEN <<batch[i][1]>> ELSE <<>>])
    PROVE  result \in Seq(Packets) /\ Len(result) \in {1, 2}
<1> DEFINE ss == [i \in 1..Len(batch) |-> IF i \in permitted THEN <<batch[i][1]>> ELSE <<>>]
<1>1. DOMAIN batch = 1..Len(batch)
    OBVIOUS
<1>2. ASSUME NEW i \in 1..Len(batch)
      PROVE  /\ ss[i] \in Seq(Packets)
             /\ Len(ss[i]) = IF i \in permitted THEN 1 ELSE 0
    <2>1. batch[i][1] \in Packets
        BY DEF Buffers
    <2>2. CASE i \in permitted
        BY <2>1, <2>2
    <2>3. CASE i \notin permitted
        BY <2>3
    <2> QED
        BY <2>2, <2>3
<1>3. ss \in Seq(Seq(Packets)) /\ Len(ss) = Len(batch)
    BY <1>2
<1>4. result = FlattenSeq(ss)
    BY <1>1
<1> HIDE DEF ss
<1>5. /\ result = IF Len(ss) = 1 THEN ss[1] ELSE ss[1] \o ss[2]
      /\ result \in Seq(Packets)
    BY <1>3, <1>4, Flatten
<1>6. CASE Len(batch) = 1
    <2>1. 1 \in permitted
        BY <1>1, <1>6
    <2> QED
        BY <1>2, <1>3, <1>5, <1>6, <2>1
<1>7. CASE Len(batch) = 2
    <2>1. 1 \in permitted \/ 2 \in permitted
        BY <1>1, <1>7
    <2>2. ss[1] \in Seq(Packets) /\ ss[2] \in Seq(Packets)
        BY <1>2, <1>7
    <2>3. Len(result) = Len(ss[1]) + Len(ss[2])
        BY <1>3, <1>5, <1>7, <2>2
    <2>4. /\ Len(ss[1]) = (IF 1 \in permitted THEN 1 ELSE 0)
          /\ Len(ss[2]) = (IF 2 \in permitted THEN 1 ELSE 0)
        BY <1>2, <1>7
    <2> QED
        BY <1>5, <2>1, <2>3, <2>4
<1> QED
    BY <1>6, <1>7

LEMMA ControlPreserved == ControlInv /\ BufferInv /\ [Next]_vars => ControlInv'
<1> SUFFICES ASSUME ControlInv, BufferInv, [Next]_vars PROVE ControlInv'
    OBVIOUS
<1> USE DEF ControlInv, Labels, Beyond, Writers
<1>1. ASSUME NEW w \in Writers, WriteDataPacketBuffers(w) PROVE ControlInv'
    BY <1>1 DEF WriteDataPacketBuffers, stream, other
<1>2. ASSUME NEW w \in Writers, ChecksReady(w) PROVE ControlInv'
    <2>1. CASE pc' = [pc EXCEPT ![w] = "lock"] /\ ready
        BY <1>2, <2>1 DEF ChecksReady, stream, other
    <2>2. CASE pc' = [pc EXCEPT ![w] = "idle"]
        BY <1>2, <2>2 DEF ChecksReady, stream, other
    <2> QED
        BY <1>2, <2>1, <2>2 DEF ChecksReady, SessionReady, Returns
<1>3. ASSUME NEW w \in Writers, LocksAndFrames(w) PROVE ControlInv'
    <2> DEFINE batch == slots[w]
    <2> DEFINE permitted == {i \in DOMAIN batch : batch[i][1] \notin Refused}
    <2>1. /\ pc[w] = "lock" /\ Sending = {}
          /\ UNCHANGED <<ready, torn, after>>
        BY <1>3 DEF LocksAndFrames, CanLock, stream
    <2>2. pc["writer"] # "sending" /\ pc["probe"] # "sending"
        BY <2>1 DEF Sending
    <2>3. batch \in Seq(Buffers) /\ Len(batch) \in {1, 2}
        BY <2>1 DEF BufferInv
    <2>4. CASE permitted = {}
        <3>1. pc' = [pc EXCEPT ![w] = "idle"] /\ frames' = frames
            BY <1>3, <2>4 DEF LocksAndFrames, Returns
        <3> QED
            BY <2>1, <2>2, <3>1
    <2>5. CASE permitted # {}
        <3>1. /\ pc' = [pc EXCEPT ![w] = "sending"]
              /\ frames' = FlattenSeq([i \in DOMAIN batch |->
                                           IF i \in permitted THEN <<batch[i][1]>> ELSE <<>>])
            BY <1>3, <2>5 DEF LocksAndFrames
        <3>2. permitted \subseteq DOMAIN batch
            OBVIOUS
        <3> HIDE DEF batch, permitted
        <3>3. frames' \in Seq(Packets) /\ Len(frames') \in {1, 2}
            BY <2>3, <2>5, <3>1, <3>2, FramesAre
        <3>4. /\ pc' \in [Writers -> Labels] /\ (\E v \in Writers : pc'[v] = "sending")
              /\ ~(pc'["writer"] = "sending" /\ pc'["probe"] = "sending")
              /\ \A v \in Writers : pc'[v] \in Beyond <=> pc[v] \in Beyond
            BY <2>1, <2>2, <3>1
        <3>5. Len(frames') \in {0, 1, 2} /\ Len(frames') # 0
            BY <3>3
        <3> QED
            BY <2>1, <3>3, <3>4, <3>5
    <2> QED
        BY <2>4, <2>5
<1>4. ASSUME NEW w \in Writers, WriteEnds(w) PROVE ControlInv'
    <2>1. /\ pc[w] = "sending" /\ pc' = [pc EXCEPT ![w] = "idle"] /\ frames' = <<>>
          /\ after' = (IF torn THEN after + 1 ELSE after) /\ UNCHANGED <<ready, torn>>
        BY <1>4 DEF WriteEnds, WriteBegun, Returns
    <2> QED
        BY <2>1
<1>5. ASSUME NEW w \in Writers, WriteFails(w) PROVE ControlInv'
    <2>1. /\ pc[w] = "sending" /\ pc' = [pc EXCEPT ![w] = "idle"] /\ frames' = <<>>
          /\ after' = (IF torn THEN after + 1 ELSE after) /\ ready' = FALSE /\ torn' = TRUE
        BY <1>5 DEF WriteFails, WriteBegun, Returns
    <2>2. ready' \in BOOLEAN /\ torn' \in BOOLEAN /\ ~ready' /\ torn'
        BY <2>1, Zenon
    <2>3. /\ pc[w] = "sending" /\ pc' = [pc EXCEPT ![w] = "idle"] /\ frames' = <<>>
          /\ after' \in {0, 1} /\ (after' = 0 => after = 0) /\ (after' = 1 => torn)
        BY <2>1
    <2>4. /\ pc' \in [Writers -> Labels]
          /\ pc'["writer"] # "sending" /\ pc'["probe"] # "sending"
          /\ ~(pc'["writer"] \in Beyond /\ pc'["probe"] \in Beyond)
          /\ after' = 1 => pc'["writer"] \notin Beyond /\ pc'["probe"] \notin Beyond
        BY <2>3
    <2>5. frames' \in Seq(Packets) /\ Len(frames') = 0
        BY <2>3
    <2> QED
        BY <2>2, <2>3, <2>4, <2>5
<1>6. CASE Fail
    BY <1>6 DEF Fail, stream
<1>7. CASE readIPCPHeader
    BY <1>7 DEF readIPCPHeader, stream
<1>8. CASE readDataPacket
    BY <1>8 DEF readDataPacket, stream
<1>9. CASE UNCHANGED vars
    BY <1>9 DEF vars, stream
<1> QED
    BY <1>1, <1>2, <1>3, <1>4, <1>5, <1>6, <1>7, <1>8, <1>9, NextCases

-----------------------------------------------------------------------------
(* ReleaseMulti of buffers that differ, and that nobody has released. *)
LEMMA ReleasedOnce ==
    ASSUME released \in [Buffers -> 0..2], NEW buffers,
           \A i, j \in DOMAIN buffers : buffers[i] = buffers[j] => i = j,
           \A i \in DOMAIN buffers : buffers[i] \in Buffers /\ released[buffers[i]] = 0,
           ReleaseAll(buffers)
    PROVE  /\ released' \in [Buffers -> 0..2]
           /\ \A i \in DOMAIN buffers : released'[buffers[i]] = 1
           /\ \A b \in Buffers : (\A i \in DOMAIN buffers : buffers[i] # b)
                                     => released'[b] = released[b]
<1> DEFINE At(b) == {i \in DOMAIN buffers : buffers[i] = b}
<1>1. ASSUME NEW k \in DOMAIN buffers PROVE Cardinality(At(buffers[k])) = 1
    <2>1. At(buffers[k]) = {k}
        OBVIOUS
    <2> QED
        BY <2>1, FS_Singleton
<1>2. ASSUME NEW b, \A i \in DOMAIN buffers : buffers[i] # b PROVE Cardinality(At(b)) = 0
    <2>1. At(b) = {}
        BY <1>2
    <2> QED
        BY <2>1, FS_EmptySet
<1>3. released' = [b \in Buffers |-> IF released[b] < 2
                                     THEN released[b] + Cardinality(At(b)) ELSE released[b]]
    BY DEF ReleaseAll
<1> HIDE DEF At
<1>4. ASSUME NEW k \in DOMAIN buffers PROVE released'[buffers[k]] = 1
    BY <1>1, <1>3
<1>5. ASSUME NEW b \in Buffers, \A i \in DOMAIN buffers : buffers[i] # b
      PROVE  released'[b] = released[b]
    <2>1. released[b] \in 0..2 /\ Cardinality(At(b)) = 0
        BY <1>2, <1>5
    <2> QED
        BY <1>3, <2>1
<1>6. ASSUME NEW b \in Buffers PROVE released'[b] \in 0..2
    <2>1. CASE \E i \in DOMAIN buffers : buffers[i] = b
        BY <1>4, <2>1
    <2>2. CASE \A i \in DOMAIN buffers : buffers[i] # b
        BY <1>5, <2>2
    <2> QED
        BY <2>1, <2>2
<1>7. released' \in [Buffers -> 0..2]
    BY <1>3, <1>6
<1> QED
    BY <1>4, <1>5, <1>7

LEMMA BufferIs ==
    /\ \A p \in Packets : <<p, "own">> \in Buffers /\ <<p, "copy">> \in Buffers
    /\ \A b \in Buffers : b[1] \in Packets
    /\ \A p, q : <<p, "own">> # <<q, "copy">>
    /\ \A p, q, x : <<p, x>> = <<q, x>> => p = q
    /\ \A p, x : <<p, x>>[1] = p
BY DEF Buffers

LEMMA CopiedBecomes ==
    ASSUME NEW p, HasCopy(p)', NEW b, b = <<p, "copy">>,
           released'[<<p, "own">>] = 1, released'[<<p, "copy">>] = 0
    PROVE  Copied(b)'
BY DEF Copied, HasCopy

(* The deferred release, on every way out. *)
LEMMA BatchReturned ==
    ASSUME BufferInv, NEW w \in Writers, pc[w] # "idle", pc \in [Writers -> Labels],
           Returns(w), ReleaseAll(slots[w]), fresh' = fresh, framed' = framed
    PROVE  BufferInv'
<1> DEFINE batch == slots[w]
<1>0. /\ slots \in [Writers -> Seq(Buffers)] /\ released \in [Buffers -> 0..2]
      /\ fresh \subseteq Packets /\ framed' \subseteq Packets
    BY DEF BufferInv
<1>h. \A p : HasCopy(p)' <=> HasCopy(p)
    BY DEF HasCopy
<1>1. /\ \A i \in 1..Len(batch) : batch[i] \in Buffers /\ batch[i][1] \in Packets
      /\ DOMAIN batch = 1..Len(batch)
    BY <1>0, BufferIs
<1>a. \A u, v \in Writers : \A i \in 1..Len(slots[u]), j \in 1..Len(slots[v]) :
          slots[u][i][1] = slots[v][j][1] => u = v /\ i = j
    BY DEF BufferInv
<1>2. \A i, j \in 1..Len(batch) : batch[i][1] = batch[j][1] => i = j
    BY <1>a
<1>3. \A i \in 1..Len(batch) : Unframed(batch[i]) \/ Copied(batch[i])
    BY DEF BufferInv
<1>4. \A i \in 1..Len(batch) : released[batch[i]] = 0
    BY <1>3 DEF Unframed, Copied
<1>5. /\ released' \in [Buffers -> 0..2]
      /\ \A i \in 1..Len(batch) : released'[batch[i]] = 1
      /\ \A b \in Buffers : (\A i \in 1..Len(batch) : batch[i] # b)
                                => released'[b] = released[b]
    <2>1. /\ \A i, j \in DOMAIN batch : batch[i] = batch[j] => i = j
          /\ \A i \in DOMAIN batch : batch[i] \in Buffers /\ released[batch[i]] = 0
        BY <1>1, <1>2, <1>4
    <2>2. /\ released' \in [Buffers -> 0..2]
          /\ \A i \in DOMAIN batch : released'[batch[i]] = 1
          /\ \A b \in Buffers : (\A i \in DOMAIN batch : batch[i] # b)
                                    => released'[b] = released[b]
        BY <1>0, <2>1, ReleasedOnce
    <2> QED
        BY <1>1, <2>2, Zenon
<1>6. ASSUME NEW p \in Packets, \A i \in 1..Len(batch) : batch[i][1] # p
      PROVE  /\ released'[<<p, "own">>] = released[<<p, "own">>]
             /\ released'[<<p, "copy">>] = released[<<p, "copy">>]
    BY <1>5, <1>6, BufferIs
<1>7. /\ slots' = [slots EXCEPT ![w] = <<>>] /\ pc' = [pc EXCEPT ![w] = "idle"]
    BY DEF Returns
<1>8. ASSUME NEW p \in Packets, NEW i \in 1..Len(batch), batch[i][1] = p
      PROVE  Done(p)'
    <2>2. CASE Unframed(batch[i])
        <3>1. batch[i] = <<p, "own">> /\ released[<<p, "copy">>] = 0 /\ ~HasCopy(p)
            BY <1>8, <2>2 DEF Unframed
        <3>2. \A j \in 1..Len(batch) : batch[j] # <<p, "copy">>
            BY <1>2, <3>1, BufferIs
        <3>3. released'[<<p, "own">>] = 1 /\ released'[<<p, "copy">>] = 0
            BY <1>5, <3>1, <3>2, BufferIs
        <3> QED
            BY <1>h, <3>1, <3>3 DEF Done
    <2>3. CASE Copied(batch[i])
        <3>1. batch[i] = <<p, "copy">> /\ HasCopy(p) /\ released[<<p, "own">>] = 1
            BY <1>8, <2>3 DEF Copied
        <3>2. \A j \in 1..Len(batch) : batch[j] # <<p, "own">>
            BY <1>2, <3>1, BufferIs
        <3>3. released'[<<p, "own">>] = 1 /\ released'[<<p, "copy">>] = 1
            BY <1>5, <3>1, <3>2, BufferIs
        <3> QED
            BY <1>h, <3>1, <3>3 DEF Done
    <2> QED
        BY <1>3, <2>2, <2>3
<1>9. ASSUME NEW v \in Writers
      PROVE  /\ slots'[v] = IF v = w THEN <<>> ELSE slots[v]
             /\ pc'[v] = IF v = w THEN "idle" ELSE pc[v]
             /\ Len(slots'[v]) = IF v = w THEN 0 ELSE Len(slots[v])
    BY <1>0, <1>7
<1>10. slots' \in [Writers -> Seq(Buffers)]
    BY <1>0, <1>7
<1>11. ASSUME NEW v \in Writers, NEW j \in 1..Len(slots'[v])
       PROVE  /\ v # w /\ j \in 1..Len(slots[v]) /\ slots'[v][j] = slots[v][j]
              /\ slots[v][j] \in Buffers
    BY <1>0, <1>9
<1>12. ASSUME NEW v \in Writers, NEW j \in 1..Len(slots'[v])
       PROVE  /\ slots'[v][j][1] \notin fresh
              /\ \/ Unframed(slots[v][j])' 
                 \/ pc'[v] = "sending" /\ Copied(slots[v][j])'
    <2> PICK b \in Buffers : b = slots[v][j]
        BY <1>11
    <2>1. v # w /\ j \in 1..Len(slots[v]) /\ slots'[v][j] = b /\ pc'[v] = pc[v]
        BY <1>9, <1>11
    <2>2. b[1] \in Packets /\ \A i \in 1..Len(batch) : batch[i][1] # b[1]
        BY <1>a, <2>1, BufferIs
    <2>3. /\ released'[<<b[1], "own">>] = released[<<b[1], "own">>]
          /\ released'[<<b[1], "copy">>] = released[<<b[1], "copy">>]
        BY <1>6, <2>2
    <2>4. b[1] \notin fresh /\ (Unframed(b) \/ (pc[v] = "sending" /\ Copied(b)))
        BY <2>1 DEF BufferInv
    <2>5. Unframed(b)' \/ (pc'[v] = "sending" /\ Copied(b)')
        BY <1>h, <2>1, <2>3, <2>4 DEF Unframed, Copied
    <2> QED
        BY <2>1, <2>4, <2>5
<1>13. ASSUME NEW p \in fresh
       PROVE  released'[<<p, "own">>] = 0 /\ released'[<<p, "copy">>] = 0 /\ ~HasCopy(p)'
    <2>1. p \in Packets /\ \A i \in 1..Len(batch) : batch[i][1] # p
        BY <1>0 DEF BufferInv
    <2>2. released[<<p, "own">>] = 0 /\ released[<<p, "copy">>] = 0 /\ ~HasCopy(p)
        BY DEF BufferInv
    <2> QED
        BY <1>h, <1>6, <2>1, <2>2
<1>14. ASSUME NEW p \in Packets \ fresh PROVE InSlot(p)' \/ Done(p)'
    <2>1. CASE \E i \in 1..Len(batch) : batch[i][1] = p
        BY <1>8, <2>1
    <2>2. CASE \A i \in 1..Len(batch) : batch[i][1] # p
        <3>1. InSlot(p) \/ Done(p)
            BY DEF BufferInv
        <3>2. Done(p) => Done(p)'
            BY <1>h, <1>6, <2>2 DEF Done
        <3>3. InSlot(p) => InSlot(p)'
            BY <1>9, <2>2 DEF InSlot
        <3> QED
            BY <3>1, <3>2, <3>3
    <2> QED
        BY <2>1, <2>2
<1>15. ASSUME NEW u \in Writers, NEW v \in Writers, NEW i \in 1..Len(slots'[u]),
              NEW j \in 1..Len(slots'[v]), slots'[u][i][1] = slots'[v][j][1]
       PROVE  u = v /\ i = j
    <2>1. /\ i \in 1..Len(slots[u]) /\ slots'[u][i] = slots[u][i]
          /\ j \in 1..Len(slots[v]) /\ slots'[v][j] = slots[v][j]
        BY <1>11
    <2> QED
        BY <1>a, <1>15, <2>1
<1>16. ASSUME NEW v \in Writers
       PROVE  Len(slots'[v]) \in {0, 1, 2} /\ (pc'[v] # "idle" <=> Len(slots'[v]) # 0)
    BY <1>9 DEF BufferInv
<1> QED
    BY <1>0, <1>5, <1>10, <1>12, <1>13, <1>14, <1>15, <1>16 DEF BufferInv

(* A caller comes with packets of its own. *)
LEMMA BatchTaken ==
    ASSUME BufferInv, ControlInv, NEW w \in Writers, WriteDataPacketBuffers(w)
    PROVE  BufferInv'
<1>p. PICK batch \in Batches(w) :
        /\ IsInjective(batch) /\ ToSet(batch) \subseteq fresh
        /\ fresh' = fresh \ ToSet(batch)
        /\ slots' = [slots EXCEPT ![w] = [i \in DOMAIN batch |-> <<batch[i], "own">>]]
    BY DEF WriteDataPacketBuffers
<1>0. /\ slots \in [Writers -> Seq(Buffers)] /\ released \in [Buffers -> 0..2]
      /\ fresh \subseteq Packets /\ framed \subseteq Packets /\ pc \in [Writers -> Labels]
    BY DEF BufferInv, ControlInv
<1>1. batch \in Seq(Packets) /\ Len(batch) \in {1, 2} /\ DOMAIN batch = 1..Len(batch)
    BY BatchIs
<1>2. /\ pc[w] = "idle" /\ pc' = [pc EXCEPT ![w] = "check"] /\ released' = released
      /\ framed' = framed
    BY DEF WriteDataPacketBuffers
<1>h. \A p : HasCopy(p)' <=> HasCopy(p)
    BY <1>2 DEF HasCopy
<1>3. Len(slots[w]) = 0
    BY <1>2 DEF BufferInv
<1> DEFINE mine == [i \in 1..Len(batch) |-> <<batch[i], "own">>]
<1>4. mine \in Seq(Buffers) /\ Len(mine) = Len(batch)
    <2>1. \A i \in 1..Len(batch) : <<batch[i], "own">> \in Buffers
        BY <1>1 DEF Buffers
    <2> QED
        BY <1>1, <2>1
<1>5. \A i \in 1..Len(batch) :
          mine[i] = <<batch[i], "own">> /\ mine[i][1] = batch[i] /\ batch[i] \in fresh
    BY <1>p, <1>1 DEF ToSet
<1>6. slots' = [slots EXCEPT ![w] = mine]
    BY <1>p, <1>1
<1> HIDE DEF mine
<1>7. \A p : p \in ToSet(batch) <=> \E i \in 1..Len(batch) : batch[i] = p
    BY <1>p, <1>1 DEF ToSet
<1>8. \A i, j \in 1..Len(batch) : batch[i] = batch[j] => i = j
    BY <1>p, <1>1 DEF IsInjective
<1>9. ASSUME NEW v \in Writers
      PROVE  /\ slots'[v] = IF v = w THEN mine ELSE slots[v]
             /\ pc'[v] = IF v = w THEN "check" ELSE pc[v]
             /\ Len(slots'[v]) = IF v = w THEN Len(batch) ELSE Len(slots[v])
    BY <1>0, <1>2, <1>4, <1>6
<1>10. slots' \in [Writers -> Seq(Buffers)]
    BY <1>0, <1>4, <1>6
<1>11. ASSUME NEW v \in Writers
       PROVE  Len(slots'[v]) \in {0, 1, 2} /\ (pc'[v] # "idle" <=> Len(slots'[v]) # 0)
    <2>1. Len(slots[v]) \in {0, 1, 2} /\ (pc[v] # "idle" <=> Len(slots[v]) # 0)
        BY DEF BufferInv
    <2>2. CASE v = w
        <3>1. pc'[v] = "check" /\ Len(slots'[v]) = Len(batch)
            BY <1>9, <2>2
        <3> QED
            BY <1>1, <3>1
    <2>3. CASE v # w
        BY <1>9, <2>1, <2>3
    <2> QED
        BY <2>2, <2>3
<1>12. \A u, v \in Writers : \A i \in 1..Len(slots[u]), j \in 1..Len(slots[v]) :
           slots[u][i][1] = slots[v][j][1] => u = v /\ i = j
    BY DEF BufferInv
<1>13. \A v \in Writers : \A j \in 1..Len(slots[v]) : slots[v][j][1] \notin fresh
    BY DEF BufferInv
<1>14. ASSUME NEW u \in Writers, NEW v \in Writers, NEW i \in 1..Len(slots'[u]),
              NEW j \in 1..Len(slots'[v]), slots'[u][i][1] = slots'[v][j][1]
       PROVE  u = v /\ i = j
    <2>1. CASE u = w /\ v = w
        BY <1>5, <1>8, <1>9, <1>14, <2>1
    <2>2. CASE u = w /\ v # w
        BY <1>5, <1>9, <1>13, <1>14, <2>2
    <2>3. CASE u # w /\ v = w
        BY <1>5, <1>9, <1>13, <1>14, <2>3
    <2>4. CASE u # w /\ v # w
        BY <1>9, <1>12, <1>14, <2>4
    <2> QED
        BY <2>1, <2>2, <2>3, <2>4
<1>15. ASSUME NEW v \in Writers, NEW j \in 1..Len(slots'[v])
       PROVE  /\ slots'[v][j][1] \notin fresh'
              /\ \/ Unframed(slots[v][j])'
                 \/ pc'[v] = "sending" /\ Copied(slots[v][j])'
    <2>1. CASE v = w
        <3>1. /\ j \in 1..Len(batch) /\ slots'[v][j] = <<batch[j], "own">>
              /\ batch[j] \in fresh
            BY <1>5, <1>9, <2>1
        <3>2. /\ released[<<batch[j], "own">>] = 0 /\ released[<<batch[j], "copy">>] = 0
              /\ ~HasCopy(batch[j])
            BY <3>1 DEF BufferInv
        <3>3. batch[j] \notin fresh'
            BY <1>p, <1>7, <3>1
        <3> QED
            <4> PICK b : b = slots'[v][j]
                OBVIOUS
            <4>1. b = <<b[1], "own">> /\ b[1] = batch[j]
                BY <3>1
            <4>2. Unframed(b)'
                BY <1>2, <1>h, <3>2, <4>1 DEF Unframed
            <4> QED
                BY <3>3, <4>1, <4>2
    <2>2. CASE v # w
        <3>1. /\ j \in 1..Len(slots[v]) /\ slots'[v][j] = slots[v][j] /\ pc'[v] = pc[v]
            BY <1>9, <2>2
        <3>2. /\ slots[v][j][1] \notin fresh
              /\ Unframed(slots[v][j]) \/ (pc[v] = "sending" /\ Copied(slots[v][j]))
            BY <3>1 DEF BufferInv
        <3> QED
            <4> PICK b : b = slots[v][j]
                OBVIOUS
            <4>1. Unframed(b)' \/ (pc'[v] = "sending" /\ Copied(b)')
                BY <1>2, <1>h, <3>1, <3>2 DEF Unframed, Copied
            <4>2. slots'[v][j] = b /\ b[1] \notin fresh'
                BY <1>p, <3>1, <3>2
            <4> QED
                BY <4>1, <4>2
    <2> QED
        BY <2>1, <2>2
<1>16. ASSUME NEW p \in fresh'
       PROVE  released'[<<p, "own">>] = 0 /\ released'[<<p, "copy">>] = 0 /\ ~HasCopy(p)'
    BY <1>p, <1>2, <1>h DEF BufferInv
<1>17. ASSUME NEW p \in Packets \ fresh' PROVE InSlot(p)' \/ Done(p)'
    <2>1. CASE p \in ToSet(batch)
        <3>1. PICK i \in 1..Len(batch) : batch[i] = p
            BY <1>7, <2>1
        <3> QED
            BY <1>5, <1>9, <3>1 DEF InSlot
    <2>2. CASE p \notin ToSet(batch)
        <3>1. InSlot(p) \/ Done(p)
            BY <1>p, <2>2 DEF BufferInv
        <3>2. Done(p) => Done(p)'
            BY <1>2, <1>h DEF Done
        <3>3. InSlot(p) => InSlot(p)'
            BY <1>3, <1>9 DEF InSlot
        <3> QED
            BY <3>1, <3>2, <3>3
    <2> QED
        BY <2>1, <2>2
<1> QED
    BY <1>p, <1>0, <1>2, <1>10, <1>11, <1>14, <1>15, <1>16, <1>17 DEF BufferInv

(* Framing puts a copy into the slot of a buffer without headroom, and     *)
(* releases the buffer.                                                    *)
LEMMA BatchFramed ==
    ASSUME BufferInv, NEW w \in Writers, pc[w] = "lock", pc \in [Writers -> Labels],
           NEW permitted, permitted \subseteq DOMAIN slots[w],
           slots' = [slots EXCEPT ![w] = [i \in DOMAIN slots[w] |->
                         IF i \in permitted THEN Slot(slots[w][i]) ELSE slots[w][i]]],
           pc' = [pc EXCEPT ![w] = "sending"],
           ReleaseAll([i \in {j \in permitted : requireHeadroom(slots[w][j]) # slots[w][j]}
                           |-> slots[w][i]]),
           fresh' = fresh, framed' = framed \cup {slots[w][i][1] : i \in permitted}
    PROVE  BufferInv'
<1> DEFINE batch == slots[w]
<1> DEFINE copied == {j \in permitted : requireHeadroom(batch[j]) # batch[j]}
<1> DEFINE gone == [i \in copied |-> batch[i]]
<1> DEFINE mine == [i \in DOMAIN batch |->
                        IF i \in permitted THEN Slot(batch[i]) ELSE batch[i]]
<1>0. /\ slots \in [Writers -> Seq(Buffers)] /\ released \in [Buffers -> 0..2]
      /\ fresh \subseteq Packets /\ framed \subseteq Packets
    BY DEF BufferInv
<1>1. /\ \A i \in 1..Len(batch) : batch[i] \in Buffers /\ batch[i][1] \in Packets
      /\ DOMAIN batch = 1..Len(batch) /\ Len(batch) \in Nat
    BY <1>0, BufferIs
<1>2. \A u, v \in Writers : \A i \in 1..Len(slots[u]), j \in 1..Len(slots[v]) :
          slots[u][i][1] = slots[v][j][1] => u = v /\ i = j
    BY DEF BufferInv
<1>3. \A i \in 1..Len(batch) : Unframed(batch[i])
    BY DEF BufferInv
<1>4. ASSUME NEW i \in 1..Len(batch)
      PROVE  /\ requireHeadroom(batch[i]) # batch[i] <=> batch[i][1] \in Cramped
             /\ requireHeadroom(batch[i])[1] = batch[i][1]
             /\ requireHeadroom(batch[i]) \in Buffers
    BY <1>1, <1>3, BufferIs DEF requireHeadroom, Unframed
<1>5. DOMAIN gone = copied /\ copied \subseteq 1..Len(batch)
    BY <1>1
<1>6. \A i \in copied : gone[i] = batch[i] /\ batch[i] \in Buffers /\ released[batch[i]] = 0
    BY <1>1, <1>3, <1>5 DEF Unframed
<1>7. \A i, j \in copied : gone[i] = gone[j] => i = j
    BY <1>2, <1>5, <1>6
<1>8. ReleaseAll(gone)
    OBVIOUS
<1>9. /\ mine \in Seq(Buffers) /\ Len(mine) = Len(batch)
      /\ \A i \in 1..Len(batch) : mine[i][1] = batch[i][1]
    BY <1>1, <1>4 DEF Slot
<1>10. \A i \in 1..Len(batch) :
           mine[i] = IF i \in copied THEN <<batch[i][1], "copy">> ELSE batch[i]
    BY <1>1, <1>4 DEF Slot, requireHeadroom
<1>11. \A i \in copied : batch[i][1] \in Cramped
    BY <1>4, <1>5
<1>12. slots' = [slots EXCEPT ![w] = mine]
    OBVIOUS
<1>h. \A p : HasCopy(p)' <=> HasCopy(p) \/ \E i \in copied : batch[i][1] = p
    <2>1. \A p : p \in framed' <=> p \in framed \/ \E i \in permitted : batch[i][1] = p
        OBVIOUS
    <2>2. \A i \in permitted : i \in copied <=> batch[i][1] \in Cramped
        BY <1>1, <1>4
    <2> QED
        BY <1>11, <2>1, <2>2 DEF HasCopy
<1>g. framed' \subseteq Packets
    BY <1>0, <1>1
<1> HIDE DEF gone, mine, copied
<1>13. /\ released' \in [Buffers -> 0..2]
       /\ \A i \in copied : released'[batch[i]] = 1
       /\ \A b \in Buffers : (\A i \in copied : batch[i] # b) => released'[b] = released[b]
    <2>1. /\ released' \in [Buffers -> 0..2]
          /\ \A i \in DOMAIN gone : released'[gone[i]] = 1
          /\ \A b \in Buffers : (\A i \in DOMAIN gone : gone[i] # b)
                                    => released'[b] = released[b]
        <3>1. /\ \A i, j \in DOMAIN gone : gone[i] = gone[j] => i = j
              /\ \A i \in DOMAIN gone : gone[i] \in Buffers /\ released[gone[i]] = 0
            BY <1>5, <1>6, <1>7
        <3> QED
            BY <1>0, <1>8, <3>1, ReleasedOnce
    <2> QED
        BY <1>5, <1>6, <2>1
<1>14. ASSUME NEW p \in Packets, \A i \in copied : batch[i][1] # p
       PROVE  /\ released'[<<p, "own">>] = released[<<p, "own">>]
              /\ released'[<<p, "copy">>] = released[<<p, "copy">>]
              /\ HasCopy(p)' <=> HasCopy(p)
    BY <1>h, <1>13, <1>14, BufferIs
<1>15. ASSUME NEW v \in Writers
       PROVE  /\ slots'[v] = IF v = w THEN mine ELSE slots[v]
              /\ pc'[v] = IF v = w THEN "sending" ELSE pc[v]
              /\ Len(slots'[v]) = Len(slots[v])
    BY <1>0, <1>9, <1>12
<1>16. ASSUME NEW v \in Writers, NEW j \in 1..Len(slots'[v])
       PROVE  j \in 1..Len(slots[v]) /\ slots'[v][j][1] = slots[v][j][1]
    BY <1>9, <1>15
<1>17. slots' \in [Writers -> Seq(Buffers)]
    BY <1>0, <1>9, <1>12
<1>18. ASSUME NEW v \in Writers
       PROVE  Len(slots'[v]) \in {0, 1, 2} /\ (pc'[v] # "idle" <=> Len(slots'[v]) # 0)
    BY <1>15 DEF BufferInv
<1>19. ASSUME NEW u \in Writers, NEW v \in Writers, NEW i \in 1..Len(slots'[u]),
              NEW j \in 1..Len(slots'[v]), slots'[u][i][1] = slots'[v][j][1]
       PROVE  u = v /\ i = j
    <2>1. /\ i \in 1..Len(slots[u]) /\ slots'[u][i][1] = slots[u][i][1]
          /\ j \in 1..Len(slots[v]) /\ slots'[v][j][1] = slots[v][j][1]
        BY <1>16
    <2> QED
        BY <1>2, <1>19, <2>1
<1>20. ASSUME NEW v \in Writers, NEW j \in 1..Len(slots'[v])
       PROVE  /\ slots'[v][j][1] \notin fresh
              /\ \/ Unframed(slots[v][j])'
                 \/ pc'[v] = "sending" /\ Copied(slots[v][j])'
    <2>1. j \in 1..Len(slots[v]) /\ slots'[v][j][1] = slots[v][j][1]
        BY <1>16
    <2>2. /\ slots[v][j][1] \notin fresh
          /\ Unframed(slots[v][j]) \/ (pc[v] = "sending" /\ Copied(slots[v][j]))
        BY <2>1 DEF BufferInv
    <2>3. CASE v = w /\ j \in copied
        <3> PICK p \in Packets : p = batch[j][1]
            BY <1>1, <1>5, <2>3
        <3>1. batch[j] = <<p, "own">> /\ released[<<p, "copy">>] = 0
            BY <1>3, <1>5, <2>3 DEF Unframed
        <3>2. slots'[v][j] = <<p, "copy">> /\ HasCopy(p)' /\ pc'[v] = "sending"
            BY <1>h, <1>5, <1>10, <1>15, <2>3
        <3>3. released'[<<p, "own">>] = 1
            BY <1>13, <2>3, <3>1
        <3>4. \A i \in copied : batch[i] # <<p, "copy">>
            <4>1. \A i \in copied : batch[i] = <<batch[i][1], "own">>
                BY <1>3, <1>5 DEF Unframed
            <4> QED
                BY <4>1
        <3>5. released'[<<p, "copy">>] = 0
            BY <1>13, <3>1, <3>4, BufferIs
        <3>6. Copied(slots[v][j])'
            BY <3>2, <3>3, <3>5, CopiedBecomes, Zenon
        <3> QED
            BY <2>1, <2>2, <3>2, <3>6
    <2>4. CASE ~(v = w /\ j \in copied)
        <3> PICK b \in Buffers : b = slots[v][j]
            BY <1>0, <2>1
        <3>1. slots'[v][j] = b
            <4>1. CASE v = w
                <5>1. slots'[v] = mine /\ j \in 1..Len(batch) /\ j \notin copied
                    BY <1>15, <2>1, <2>4, <4>1
                <5> QED
                    BY <1>10, <4>1, <5>1
            <4>2. CASE v # w
                <5>1. slots'[v] = slots[v]
                    BY <1>15, <4>2
                <5> QED
                    BY <5>1
            <4> QED
                BY <4>1, <4>2
        <3>2. b[1] \in Packets /\ \A i \in copied : batch[i][1] # b[1]
            BY <1>2, <1>5, <2>1, <2>4, BufferIs
        <3>3. /\ released'[<<b[1], "own">>] = released[<<b[1], "own">>]
              /\ released'[<<b[1], "copy">>] = released[<<b[1], "copy">>]
              /\ HasCopy(b[1])' <=> HasCopy(b[1])
            BY <1>14, <3>2
        <3>4. pc[v] = "sending" => pc'[v] = "sending"
            BY <1>15
        <3>5. Unframed(b)' \/ (pc'[v] = "sending" /\ Copied(b)')
            BY <2>2, <3>3, <3>4 DEF Unframed, Copied
        <3> QED
            BY <2>1, <2>2, <3>1, <3>5
    <2> QED
        BY <2>3, <2>4
<1>21. ASSUME NEW p \in fresh
       PROVE  released'[<<p, "own">>] = 0 /\ released'[<<p, "copy">>] = 0 /\ ~HasCopy(p)'
    <2>1. p \in Packets /\ \A i \in copied : batch[i][1] # p
        BY <1>0, <1>5 DEF BufferInv
    <2>2. released[<<p, "own">>] = 0 /\ released[<<p, "copy">>] = 0 /\ ~HasCopy(p)
        BY DEF BufferInv
    <2> QED
        BY <1>14, <2>1, <2>2
<1>22. ASSUME NEW p \in Packets \ fresh PROVE InSlot(p)' \/ Done(p)'
    <2>1. InSlot(p) \/ Done(p)
        BY DEF BufferInv
    <2>2. InSlot(p) => InSlot(p)'
        <3>1. \A v \in Writers : \A j \in 1..Len(slots[v]) :
                  j \in 1..Len(slots'[v]) /\ slots'[v][j][1] = slots[v][j][1]
            BY <1>15, <1>16
        <3>2. ASSUME NEW v \in Writers, NEW j \in 1..Len(slots[v]), slots[v][j][1] = p
              PROVE  InSlot(p)'
            BY <3>1, <3>2 DEF InSlot
        <3> QED
            BY <3>2 DEF InSlot
    <2>3. ~InSlot(p) /\ Done(p) => Done(p)'
        <3>1. ~InSlot(p) => \A i \in copied : batch[i][1] # p
            BY <1>5 DEF InSlot
        <3> QED
            BY <1>14, <3>1 DEF Done
    <2> QED
        BY <2>1, <2>2, <2>3
<1>23. (\A u, v \in Writers : \A i \in 1..Len(slots[u]), j \in 1..Len(slots[v]) :
            slots[u][i][1] = slots[v][j][1] => u = v /\ i = j)'
    BY <1>19
<1>24. (\A v \in Writers : \A j \in 1..Len(slots[v]) :
            /\ slots[v][j][1] \notin fresh
            /\ Unframed(slots[v][j]) \/ (pc[v] = "sending" /\ Copied(slots[v][j])))'
    BY <1>20
<1>25. (\A v \in Writers : Len(slots[v]) \in {0, 1, 2})'
       /\ (\A v \in Writers : pc[v] # "idle" <=> Len(slots[v]) # 0)'
    BY <1>18
<1>26. /\ (\A p \in fresh : /\ released[<<p, "own">>] = 0 /\ released[<<p, "copy">>] = 0
                               /\ ~HasCopy(p))'
       /\ (\A p \in Packets \ fresh : InSlot(p) \/ Done(p))'
       /\ fresh' \subseteq Packets
    BY <1>0, <1>21, <1>22
<1> QED
    BY <1>g, <1>13, <1>17, <1>23, <1>24, <1>25, <1>26, Zenon DEF BufferInv

LEMMA BuffersPreserved == ControlInv /\ BufferInv /\ [Next]_vars => BufferInv'
<1> SUFFICES ASSUME ControlInv, BufferInv, [Next]_vars PROVE BufferInv'
    OBVIOUS
<1>0. pc \in [Writers -> Labels]
    BY DEF ControlInv
<1>e. ASSUME UNCHANGED <<slots, fresh, framed, released>>,
             \A w \in Writers : /\ pc'[w] # "idle" <=> pc[w] # "idle"
                                /\ pc[w] = "sending" => pc'[w] = "sending"
      PROVE  BufferInv'
    <2>1. ASSUME NEW b PROVE (Unframed(b)' <=> Unframed(b)) /\ (Copied(b)' <=> Copied(b))
        BY <1>e DEF Unframed, Copied, HasCopy
    <2>2. ASSUME NEW p PROVE (Done(p)' <=> Done(p)) /\ (InSlot(p)' <=> InSlot(p))
        BY <1>e DEF Done, InSlot, HasCopy
    <2>3. ASSUME NEW w \in Writers, NEW i \in 1..Len(slots[w])
          PROVE  /\ slots'[w][i][1] \notin fresh'
                 /\ Unframed(slots[w][i])' \/ (pc'[w] = "sending" /\ Copied(slots[w][i])')
        <3> PICK b : b = slots[w][i]
            OBVIOUS
        <3>1. b[1] \notin fresh /\ (Unframed(b) \/ (pc[w] = "sending" /\ Copied(b)))
            BY DEF BufferInv
        <3>2. Unframed(b)' \/ (pc'[w] = "sending" /\ Copied(b)')
            BY <1>e, <2>1, <3>1
        <3> QED
            BY <1>e, <3>1, <3>2
    <2> QED
        BY <1>e, <2>2, <2>3 DEF BufferInv, HasCopy
<1>1. ASSUME NEW w \in Writers, WriteDataPacketBuffers(w) PROVE BufferInv'
    BY <1>1, BatchTaken
<1>2. ASSUME NEW w \in Writers, ChecksReady(w) PROVE BufferInv'
    <2>1. CASE Returns(w) /\ ReleaseAll(slots[w])
        BY <1>0, <1>2, <2>1, BatchReturned DEF ChecksReady
    <2>2. CASE pc' = [pc EXCEPT ![w] = "lock"] /\ UNCHANGED <<slots, released>>
        BY <1>0, <1>2, <2>2, <1>e DEF ChecksReady
    <2> QED
        BY <1>2, <2>1, <2>2 DEF ChecksReady
<1>3. ASSUME NEW w \in Writers, LocksAndFrames(w) PROVE BufferInv'
    <2> DEFINE permitted == {i \in DOMAIN slots[w] : slots[w][i][1] \notin Refused}
    <2>1. pc[w] = "lock" /\ fresh' = fresh
        BY <1>3 DEF LocksAndFrames
    <2>2. CASE Returns(w) /\ ReleaseAll(slots[w]) /\ framed' = framed
        BY <1>0, <2>1, <2>2, BatchReturned
    <2>3. CASE /\ slots' = [slots EXCEPT ![w] = [i \in DOMAIN slots[w] |->
                               IF i \in permitted THEN Slot(slots[w][i]) ELSE slots[w][i]]]
               /\ pc' = [pc EXCEPT ![w] = "sending"]
               /\ ReleaseAll([i \in {j \in permitted :
                                        requireHeadroom(slots[w][j]) # slots[w][j]}
                                  |-> slots[w][i]])
               /\ framed' = framed \cup {slots[w][i][1] : i \in permitted}
        <3>1. permitted \subseteq DOMAIN slots[w]
            OBVIOUS
        <3> HIDE DEF permitted
        <3> QED
            BY <1>0, <2>1, <2>3, <3>1, BatchFramed
    <2> QED
        BY <1>3, <2>2, <2>3 DEF LocksAndFrames
<1>4. ASSUME NEW w \in Writers, WriteEnds(w) PROVE BufferInv'
    BY <1>0, <1>4, BatchReturned DEF WriteEnds
<1>5. ASSUME NEW w \in Writers, WriteFails(w) PROVE BufferInv'
    BY <1>0, <1>5, BatchReturned DEF WriteFails
<1>6. CASE Fail
    BY <1>6, <1>e DEF Fail
<1>7. CASE readIPCPHeader
    BY <1>7, <1>e DEF readIPCPHeader
<1>8. CASE readDataPacket
    BY <1>8, <1>e DEF readDataPacket
<1>9. CASE UNCHANGED vars
    BY <1>9, <1>e DEF vars
<1> QED
    BY <1>1, <1>2, <1>3, <1>4, <1>5, <1>6, <1>7, <1>8, <1>9, NextCases

-----------------------------------------------------------------------------
LEMMA Join ==
    ASSUME NEW S, NEW s \in Seq(S), NEW t \in Seq(S)
    PROVE  /\ s \o t \in Seq(S) /\ Len(s \o t) = Len(s) + Len(t)
           /\ \A i \in 1..Len(s) : (s \o t)[i] = s[i]
           /\ \A i \in 1..Len(t) : (s \o t)[Len(s) + i] = t[i]
OBVIOUS

(* The cells of a frame. *)
LEMMA FlipIs ==
    ASSUME NEW a, NEW b, NEW c, NEW d \in {0, 1}
    PROVE  [<<a, b, c, d>> EXCEPT ![4] = 1 - @] = <<a, b, c, 1 - d>>
OBVIOUS

LEMMA DatagramIs ==
    ASSUME NEW p \in Packets
    PROVE  /\ Size(p) \in Nat /\ DOMAIN Datagram(p) = 1..Size(p)
           /\ \A i \in 1..Size(p) : Datagram(p)[i] = <<"data", p, i, 0>>
BY StreamAssumption DEF Datagram

(* xorKey over a datagram, and over the payload that was made of it. *)
LEMMA ApplyIs ==
    ASSUME NEW p \in Packets, NEW d \in {0, 1}, NEW s,
           s = [i \in 1..Size(p) |-> <<"data", p, i, d>>]
    PROVE  apply(s) = [i \in 1..Size(p) |->
                           <<"data", p, i, IF Obfuscated THEN 1 - d ELSE d>>]
<1>1. CASE Obfuscated
    <2>1. \A i \in 1..Size(p) : [s[i] EXCEPT ![4] = 1 - @] = <<"data", p, i, 1 - d>>
        <3> TAKE i \in 1..Size(p)
        <3>1. s[i] = <<"data", p, i, d>>
            OBVIOUS
        <3> QED
            BY <3>1
    <2>2. DOMAIN s = 1..Size(p)
        OBVIOUS
    <2>3. apply(s) = [i \in 1..Size(p) |-> [s[i] EXCEPT ![4] = 1 - @]]
        BY <1>1, <2>2, Zenon DEF apply
    <2> QED
        BY <1>1, <2>1, <2>3
<1>2. CASE ~Obfuscated
    BY <1>2 DEF apply
<1> QED
    BY <1>1, <1>2

LEMMA FrameIs ==
    ASSUME NEW p \in Packets
    PROVE  /\ frameDataPacket(p) \in Seq(Cell)
           /\ Len(frameDataPacket(p)) = FrameLength(p) /\ FrameLength(p) \in Nat
           /\ FrameLength(p) >= 2
           /\ frameDataPacket(p)[1] = <<"magic", 0, 0, 0>>
           /\ frameDataPacket(p)[2] = <<"length", HeaderLength + Size(p), 0, 0>>
           /\ \A i \in 1..Size(p) : frameDataPacket(p)[2 + i] = <<"data", p, i, Coded>>
<1> DEFINE h == encodeIPCPHeader(Size(p))
<1> DEFINE body == [i \in 1..Size(p) |-> <<"data", p, i, Coded>>]
<1>1. Size(p) \in Nat
    BY DatagramIs
<1>2. apply(Datagram(p)) = body
    <2>1. apply(Datagram(p)) = [i \in 1..Size(p) |->
                                    <<"data", p, i, IF Obfuscated THEN 1 - 0 ELSE 0>>]
        BY ApplyIs DEF Datagram
    <2> QED
        BY <2>1 DEF Coded
<1>3. /\ h \in Seq(Cell) /\ Len(h) = 2 /\ h[1] = <<"magic", 0, 0, 0>>
      /\ h[2] = <<"length", HeaderLength + Size(p), 0, 0>>
    <2>1. <<"magic", 0, 0, 0>> \in Cell
        BY DEF Cell
    <2>2. <<"length", HeaderLength + Size(p), 0, 0>> \in Cell
        BY <1>1 DEF Cell, HeaderLength
    <2> QED
        BY <2>1, <2>2 DEF encodeIPCPHeader
<1>4. /\ body \in Seq(Cell) /\ Len(body) = Size(p)
      /\ \A i \in 1..Size(p) : body[i] = <<"data", p, i, Coded>>
    <2>1. \A i \in 1..Size(p) : <<"data", p, i, Coded>> \in Cell
        BY <1>1 DEF Cell, Coded
    <2> QED
        BY <1>1, <2>1
<1>5. frameDataPacket(p) = h \o body
    BY <1>2 DEF frameDataPacket
<1> HIDE DEF h, body
<1>6. /\ h \o body \in Seq(Cell) /\ Len(h \o body) = Len(h) + Len(body)
      /\ \A i \in 1..Len(h) : (h \o body)[i] = h[i]
      /\ \A i \in 1..Len(body) : (h \o body)[Len(h) + i] = body[i]
    <2>1. h \in Seq(Cell) /\ body \in Seq(Cell)
        BY <1>3, <1>4
    <2> QED
        BY <2>1, Join
<1>7. /\ (h \o body)[1] = h[1] /\ (h \o body)[2] = h[2]
      /\ \A i \in 1..Size(p) : (h \o body)[2 + i] = body[i]
    BY <1>3, <1>4, <1>6
<1> QED
    BY <1>1, <1>3, <1>4, <1>5, <1>6, <1>7 DEF FrameLength, HeaderLength

(* Only the first cell of a frame looks like the magic. *)
LEMMA MagicIsFirst ==
    ASSUME NEW p \in Packets, NEW j \in 2..FrameLength(p)
    PROVE  ~IsMagic(frameDataPacket(p)[j])
<1>1. Size(p) \in Nat /\ FrameLength(p) = 2 + Size(p)
    BY DatagramIs DEF FrameLength, HeaderLength
<1>2. CASE j = 2
    BY <1>2, FrameIs DEF IsMagic
<1>3. CASE j # 2
    <2>1. j - 2 \in 1..Size(p) /\ j = 2 + (j - 2)
        BY <1>1, <1>3
    <2>2. frameDataPacket(p)[j] = <<"data", p, j - 2, Coded>>
        BY <2>1, FrameIs
    <2> QED
        BY <2>2 DEF IsMagic
<1> QED
    BY <1>2, <1>3

(* The payload of a whole frame, taken from the stream, is the datagram. *)
LEMMA PayloadIs ==
    ASSUME NEW p \in Packets, NEW w \in Seq(Cell), NEW o \in Nat,
           o + FrameLength(p) <= Len(w),
           \A j \in 1..FrameLength(p) : w[o + j] = frameDataPacket(p)[j]
    PROVE  apply(SubSeq(w, o + HeaderLength + 1, o + HeaderLength + Size(p))) = Datagram(p)
<1> DEFINE s == SubSeq(w, o + HeaderLength + 1, o + HeaderLength + Size(p))
<1>1. Size(p) \in Nat /\ FrameLength(p) = 2 + Size(p)
    BY DatagramIs DEF FrameLength, HeaderLength
<1>2. s = [i \in 1..Size(p) |-> w[o + 2 + i]]
    BY <1>1 DEF HeaderLength
<1>3. ASSUME NEW i \in 1..Size(p) PROVE w[o + 2 + i] = <<"data", p, i, Coded>>
    <2>1. 2 + i \in 1..FrameLength(p) /\ o + 2 + i = o + (2 + i)
        BY <1>1
    <2>2. w[o + (2 + i)] = frameDataPacket(p)[2 + i]
        BY <2>1
    <2> QED
        BY <2>1, <2>2, FrameIs
<1>4. s = [i \in 1..Size(p) |-> <<"data", p, i, Coded>>]
    BY <1>2, <1>3
<1>5. Coded \in {0, 1}
    BY DEF Coded
<1> HIDE DEF s
<1>6. apply(s) = [i \in 1..Size(p) |->
                      <<"data", p, i, IF Obfuscated THEN 1 - Coded ELSE Coded>>]
    BY <1>4, <1>5, ApplyIs
<1>7. (IF Obfuscated THEN 1 - Coded ELSE Coded) = 0
    BY DEF Coded
<1> QED
    BY <1>6, <1>7 DEF Datagram, s

-----------------------------------------------------------------------------
Follows(w, pk, off, p, n, m, z, w2, pk2, off2) ==
    /\ Framed(pk, off, w) /\ n \in 0..FrameLength(p)
    /\ m \in Nat /\ m = Len(pk) /\ z \in Nat /\ z = Len(w) /\ FrameLength(p) \in Nat
    /\ pk2 \in Seq(Packets) /\ off2 \in Seq(Nat)
    /\ Len(w2) = z + n /\ Len(pk2) = m + 1 /\ Len(off2) = m + 2
    /\ \A j \in 1..z : w2[j] = w[j]
    /\ \A j \in 1..n : w2[z + j] = frameDataPacket(p)[j]
    /\ (\A k \in 1..m : pk2[k] = pk[k]) /\ pk2[m + 1] = p
    /\ (\A k \in 1..(m + 1) : off2[k] = off[k]) /\ off2[m + 2] = z + n

LEMMA FrameExtends ==
    ASSUME NEW w, NEW pk, NEW off, NEW p, NEW n, NEW m, NEW z, NEW w2, NEW pk2, NEW off2,
           Follows(w, pk, off, p, n, m, z, w2, pk2, off2)
    PROVE  Framed(pk2, off2, w2)
<1> m \in Nat /\ z \in Nat /\ FrameLength(p) \in Nat /\ n \in 0..FrameLength(p)
    BY DEF Follows
<1> pk2 \in Seq(Packets) /\ off2 \in Seq(Nat)
    BY DEF Follows
<1> Framed(pk, off, w) /\ m = Len(pk) /\ z = Len(w)
    BY DEF Follows
<1> /\ Len(w2) = z + n /\ Len(pk2) = m + 1 /\ Len(off2) = m + 2
    /\ \A j \in 1..z : w2[j] = w[j]
    /\ \A j \in 1..n : w2[z + j] = frameDataPacket(p)[j]
    /\ (\A k \in 1..m : pk2[k] = pk[k]) /\ pk2[m + 1] = p
    /\ (\A k \in 1..(m + 1) : off2[k] = off[k]) /\ off2[m + 2] = z + n
    BY DEF Follows
<1>1. /\ off \in Seq(Nat) /\ Len(off) = m + 1
      /\ off[1] = 0 /\ off[m + 1] = z
      /\ \A k, l \in 1..(m + 1) : k <= l => off[k] <= off[l]
    BY DEF Framed
<1>2. \A k \in 1..m :
          /\ off[k + 1] <= off[k] + FrameLength(pk[k])
          /\ \A j \in 1..(off[k + 1] - off[k]) : w[off[k] + j] = frameDataPacket(pk[k])[j]
    BY DEF Framed
<1>3. ASSUME NEW k \in 1..(m + 1) PROVE off[k] \in Nat
    <2>1. k \in 1..Len(off)
        BY <1>1, Zenon
    <2> QED
        BY <1>1, <2>1, ElementOfSeq, Zenon
<1>4. ASSUME NEW k \in 1..(m + 2), NEW l \in 1..(m + 2), k <= l PROVE off2[k] <= off2[l]
    <2>1. CASE l \in 1..(m + 1)
        <3>1. k \in 1..(m + 1)
            BY <1>4, <2>1
        <3>2. off[k] <= off[l] /\ off2[k] = off[k] /\ off2[l] = off[l]
            BY <1>1, <1>4, <2>1, <3>1, Zenon
        <3> QED
            BY <3>2, Zenon
    <2>2. CASE l = m + 2 /\ k \in 1..(m + 1)
        <3>1. m + 1 \in 1..(m + 1) /\ k <= m + 1
            BY <2>2
        <3>2. off[k] <= off[m + 1] /\ off2[k] = off[k] /\ off[k] \in Nat
            BY <1>1, <1>3, <2>2, <3>1
        <3>3. off2[k] <= z
            BY <1>1, <3>2
        <3> QED
            BY <2>2, <3>2, <3>3
    <2>3. CASE l = m + 2 /\ k = m + 2
        BY <2>3
    <2> QED
        BY <1>4, <2>1, <2>2, <2>3
<1>5. ASSUME NEW k \in 1..(m + 1)
      PROVE  /\ off2[k + 1] <= off2[k] + FrameLength(pk2[k])
             /\ \A j \in 1..(off2[k + 1] - off2[k]) :
                    w2[off2[k] + j] = frameDataPacket(pk2[k])[j]
    <2>1. CASE k \in 1..m
        <3>1. /\ k + 1 \in 1..(m + 1) /\ k \in 1..(m + 1)
            BY <2>1
        <3>2. /\ off2[k + 1] = off[k + 1] /\ off2[k] = off[k]
              /\ pk2[k] = pk[k] /\ off[k + 1] \in Nat /\ off[k] \in Nat
            BY <1>3, <2>1, <3>1
        <3>3. off[k + 1] <= z
            <4>1. m + 1 \in 1..(m + 1) /\ k + 1 <= m + 1
                BY <3>1
            <4> QED
                BY <1>1, <3>1, <4>1
        <3>4. ASSUME NEW j \in 1..(off[k + 1] - off[k])
              PROVE  w2[off[k] + j] = frameDataPacket(pk[k])[j]
            <4>1. off[k] + j \in 1..z
                <5>1. PICK a, b : a = off[k] /\ b = off[k + 1]
                    OBVIOUS
                <5>2. a \in Nat /\ b \in Nat /\ b <= z /\ j \in 1..(b - a)
                    BY <3>2, <3>3, <5>1
                <5>3. a + j \in 1..z
                    BY <5>2
                <5> QED
                    BY <5>1, <5>3
            <4>2. w2[off[k] + j] = w[off[k] + j]
                BY <4>1
            <4> QED
                BY <1>2, <2>1, <4>2
        <3>5. off[k + 1] <= off[k] + FrameLength(pk[k])
            BY <1>2, <2>1
        <3> QED
            BY <3>2, <3>4, <3>5
    <2>2. CASE k = m + 1
        <3>1. k + 1 = m + 2 /\ m + 1 \in 1..(m + 1)
            BY <2>2
        <3>2. off2[k + 1] = z + n /\ off2[k] = z /\ pk2[k] = p
            BY <1>1, <2>2, <3>1
        <3>3. off2[k + 1] <= off2[k] + FrameLength(pk2[k]) /\ off2[k + 1] - off2[k] = n
            <4>1. PICK f : f = FrameLength(p)
                OBVIOUS
            <4>2. f \in Nat /\ n \in 0..f
                BY <4>1, Zenon
            <4>3. z + n <= z + f /\ (z + n) - z = n
                BY <4>2
            <4> QED
                BY <3>2, <4>1, <4>3, Zenon
        <3> QED
            BY <3>2, <3>3
    <2> QED
        BY <2>1, <2>2
<1>6. off2[1] = 0 /\ off2[m + 2] = Len(w2) /\ (m + 1) + 1 = m + 2
    BY <1>1
<1> QED
    BY <1>4, <1>5, <1>6 DEF Framed

LEMMA CellsAdded ==
    ASSUME NEW w \in Seq(Cell), NEW p \in Packets, NEW n \in 0..FrameLength(p)
    PROVE  \E w2 :
           /\ w2 = w \o SubSeq(frameDataPacket(p), 1, n)
           /\ w2 \in Seq(Cell) /\ Len(w2) = Len(w) + n
           /\ \A j \in 1..Len(w) : w2[j] = w[j]
           /\ \A j \in 1..n : w2[Len(w) + j] = frameDataPacket(p)[j]
<1>1. PICK t : t = SubSeq(frameDataPacket(p), 1, n)
    OBVIOUS
<1>2. t \in Seq(Cell) /\ Len(t) = n /\ \A j \in 1..n : t[j] = frameDataPacket(p)[j]
    BY <1>1, FrameIs
<1>3. t \in Seq(Cell) /\ Len(t) = n
    BY <1>2
<1>4. /\ w \o t \in Seq(Cell) /\ Len(w \o t) = Len(w) + Len(t)
      /\ \A i \in 1..Len(w) : (w \o t)[i] = w[i]
      /\ \A i \in 1..Len(t) : (w \o t)[Len(w) + i] = t[i]
    <2>1. w \in Seq(Cell) /\ t \in Seq(Cell)
        BY <1>3
    <2> QED
        BY <2>1
<1>5. \A j \in 1..n : (w \o t)[Len(w) + j] = frameDataPacket(p)[j]
    BY <1>2, <1>4, Zenon
<1>6. Len(w \o t) = Len(w) + n
    BY <1>3, <1>4, Zenon
<1> QED
    BY <1>1, <1>4, <1>5, <1>6, Zenon

Added(w, pk, off, p, n, w2, pk2, off2) ==
    /\ w2 = w \o SubSeq(frameDataPacket(p), 1, n) /\ pk2 = Append(pk, p)
    /\ Framed(pk2, off2, w2) /\ w2 \in Seq(Cell) /\ Len(w2) = Len(w) + n
    /\ Len(pk2) = Len(pk) + 1 /\ Len(pk) \in Nat /\ Len(w) \in Nat
    /\ \A k \in 1..Len(pk) : pk2[k] = pk[k]
    /\ \A k \in 1..(Len(pk) + 1) : off2[k] = off[k] /\ off[k] \in Nat
    /\ Whole(pk2, off2, Len(pk) + 1) <=> n = FrameLength(p)

(* The first n cells of one more frame are written. *)
LEMMA FrameAdded ==
    ASSUME NEW w \in Seq(Cell), NEW pk, NEW off, Framed(pk, off, w),
           NEW p \in Packets, NEW n \in 0..FrameLength(p)
    PROVE  \E w2, pk2, off2 : Added(w, pk, off, p, n, w2, pk2, off2)
<1>1. /\ pk \in Seq(Packets) /\ off \in Seq(Nat) /\ Len(off) = Len(pk) + 1
      /\ off[Len(pk) + 1] = Len(w)
    BY DEF Framed
<1>2. Len(w) \in Nat /\ Len(pk) \in Nat /\ FrameLength(p) \in Nat /\ Len(w) + n \in Nat
    BY <1>1, FrameIs
<1>3. PICK w2 : /\ w2 = w \o SubSeq(frameDataPacket(p), 1, n)
                /\ w2 \in Seq(Cell) /\ Len(w2) = Len(w) + n
                /\ \A j \in 1..Len(w) : w2[j] = w[j]
                /\ \A j \in 1..n : w2[Len(w) + j] = frameDataPacket(p)[j]
    BY CellsAdded, Zenon
<1>6. PICK pk2 : pk2 = Append(pk, p)
    OBVIOUS
<1>7. PICK off2 : off2 = Append(off, Len(w) + n)
    OBVIOUS
<1>9. /\ pk2 \in Seq(Packets) /\ Len(pk2) = Len(pk) + 1 /\ pk2[Len(pk) + 1] = p
      /\ \A k \in 1..Len(pk) : pk2[k] = pk[k]
    BY <1>1, <1>6
<1>10. /\ off2 \in Seq(Nat) /\ Len(off2) = Len(pk) + 2 /\ off2[Len(pk) + 2] = Len(w) + n
       /\ \A k \in 1..(Len(pk) + 1) : off2[k] = off[k] /\ off[k] \in Nat
    BY <1>1, <1>2, <1>7
<1>12. Framed(pk2, off2, w2)
    <2>1. PICK m, z : m = Len(pk) /\ z = Len(w)
        OBVIOUS
    <2>2. /\ m \in Nat /\ z \in Nat /\ Len(w2) = z + n /\ Len(pk2) = m + 1
          /\ Len(off2) = m + 2
          /\ \A j \in 1..z : w2[j] = w[j]
          /\ \A j \in 1..n : w2[z + j] = frameDataPacket(p)[j]
          /\ (\A k \in 1..m : pk2[k] = pk[k]) /\ pk2[m + 1] = p
          /\ (\A k \in 1..(m + 1) : off2[k] = off[k]) /\ off2[m + 2] = z + n
        BY <1>2, <1>3, <1>9, <1>10, <2>1, Zenon
    <2>3. pk2 \in Seq(Packets) /\ off2 \in Seq(Nat) /\ FrameLength(p) \in Nat
        BY <1>2, <1>9, <1>10, Zenon
    <2> QED
        <3>1. Follows(w, pk, off, p, n, m, z, w2, pk2, off2)
            BY <2>1, <2>2, <2>3, Zenon DEF Follows
        <3> QED
            BY <3>1, FrameExtends, Zenon
<1>13. Whole(pk2, off2, Len(pk) + 1) <=> n = FrameLength(p)
    <2>1. (Len(pk) + 1) + 1 = Len(pk) + 2 /\ Len(pk) + 1 \in 1..(Len(pk) + 1)
        BY <1>2
    <2>2. off2[(Len(pk) + 1) + 1] = Len(w) + n /\ off2[Len(pk) + 1] = Len(w)
        BY <1>1, <1>10, <2>1
    <2>3. Len(w) + n = Len(w) + FrameLength(p) <=> n = FrameLength(p)
        BY <1>2
    <2> QED
        BY <1>9, <2>2, <2>3, Zenon DEF Whole
<1> QED
    BY <1>2, <1>3, <1>6, <1>9, <1>10, <1>12, <1>13, Zenon DEF Added

(* More frames change nothing for an other end that has not come to them. *)
LEMMA StaysInStep ==
    ASSUME NEW pk, NEW off, NEW pk2, NEW off2, NEW p, InStep(pk, off),
           Len(pk) \in Nat, Len(read) \in Nat, Len(pk2) = Len(pk) + 1,
           \A k \in 1..Len(pk) : pk2[k] = pk[k],
           \A k \in 1..(Len(pk) + 1) : off2[k] = off[k],
           Whole(pk2, off2, Len(pk) + 1)
    PROVE  InStep(pk2, off2)
<1>1. ASSUME NEW k \in 1..Len(pk2) PROVE Whole(pk2, off2, k)
    <2>1. CASE k = Len(pk) + 1
        BY <2>1
    <2>2. CASE k \in 1..Len(pk)
        <3>1. Whole(pk, off, k) /\ k + 1 \in 1..(Len(pk) + 1)
            BY <2>2 DEF InStep
        <3> QED
            BY <2>2, <3>1 DEF Whole
    <2> QED
        BY <2>1, <2>2
<1>2. Len(read) <= Len(pk2) /\ \A k \in 1..Len(read) : read[k] = Datagram(pk2[k])
    BY DEF InStep
<1>3. CASE reader = "header" /\ taken = off[Len(read) + 1]
    <2>1. Len(read) + 1 \in 1..(Len(pk) + 1)
        BY DEF InStep
    <2> QED
        BY <1>1, <1>2, <1>3, <2>1 DEF InStep
<1>4. CASE Len(read) < Len(pk) /\ AtPayload(pk, off, Len(read) + 1)
    <2>1. /\ Len(read) + 1 \in 1..Len(pk) /\ Len(read) + 1 \in 1..(Len(pk) + 1)
          /\ (Len(read) + 1) + 1 \in 1..(Len(pk) + 1)
        BY <1>4
    <2>2. AtPayload(pk2, off2, Len(read) + 1)
        BY <1>4, <2>1 DEF AtPayload
    <2> QED
        BY <1>1, <1>2, <1>4, <2>2 DEF InStep
<1> QED
    BY <1>3, <1>4 DEF InStep

(* The first failed write. *)
LEMMA CutAppears ==
    ASSUME NEW pk, NEW off, NEW pk2, NEW off2, InStep(pk, off), pk \in Seq(Packets),
           Len(pk) \in Nat, Len(read) \in Nat, Len(pk2) = Len(pk) + 1,
           \A k \in 1..Len(pk) : pk2[k] = pk[k],
           \A k \in 1..(Len(pk) + 1) : off2[k] = off[k],
           ~Whole(pk2, off2, Len(pk) + 1)
    PROVE  Cut(pk2, off2, Len(pk2))
<1>1. ASSUME NEW k \in 1..(Len(pk2) - 1) PROVE Whole(pk2, off2, k)
    <2>1. Whole(pk, off, k) /\ k \in 1..Len(pk) /\ k + 1 \in 1..(Len(pk) + 1)
          /\ k \in 1..(Len(pk) + 1)
        BY DEF InStep
    <2> QED
        BY <2>1 DEF Whole
<1>2. \/ reader = "header" /\ \E k \in 1..(Len(pk2) + 1) : taken = off2[k]
      \/ \E k \in 1..Len(pk2) : AtPayload(pk2, off2, k)
    <2>1. CASE reader = "header" /\ taken = off[Len(read) + 1]
        <3>1. /\ Len(read) + 1 \in 1..(Len(pk) + 1) /\ Len(read) + 1 \in 1..(Len(pk2) + 1)
            BY DEF InStep
        <3> QED
            BY <2>1, <3>1
    <2>2. CASE Len(read) < Len(pk) /\ AtPayload(pk, off, Len(read) + 1)
        <3>1. /\ Len(read) + 1 \in 1..Len(pk) /\ Len(read) + 1 \in 1..(Len(pk) + 1)
              /\ (Len(read) + 1) + 1 \in 1..(Len(pk) + 1) /\ Len(read) + 1 \in 1..Len(pk2)
            BY <2>2
        <3>2. AtPayload(pk2, off2, Len(read) + 1)
            BY <2>2, <3>1 DEF AtPayload
        <3> QED
            BY <3>1, <3>2
    <2> QED
        BY <2>1, <2>2 DEF InStep
<1>3. \A i \in 1..Len(read) : \E p \in Packets : read[i] = Datagram(p)
    <2>1. ASSUME NEW i \in 1..Len(read) PROVE pk[i] \in Packets /\ read[i] = Datagram(pk[i])
        BY DEF InStep
    <2> QED
        BY <2>1
<1> QED
    BY <1>1, <1>2, <1>3 DEF Cut

(* The batch that follows a failed write. *)
LEMMA CutStays ==
    ASSUME NEW pk, NEW off, NEW pk2, NEW off2, NEW c, Cut(pk, off, c),
           Len(pk) \in Nat, Len(pk2) = Len(pk) + 1, Len(pk2) <= c + 2,
           \A k \in 1..Len(pk) : pk2[k] = pk[k],
           \A k \in 1..(Len(pk) + 1) : off2[k] = off[k],
           Len(pk) = c \/ Whole(pk, off, Len(pk))
    PROVE  Cut(pk2, off2, c)
<1>1. c \in 1..Len(pk) /\ c \in 1..Len(pk2) /\ c + 1 \in 1..(Len(pk) + 1)
    BY DEF Cut
<1>2. ASSUME NEW k \in 1..Len(pk)
      PROVE  /\ Whole(pk2, off2, k) <=> Whole(pk, off, k)
             /\ AtPayload(pk2, off2, k) <=> AtPayload(pk, off, k)
             /\ off2[k] = off[k] /\ off2[k + 1] = off[k + 1]
    <2>1. k \in 1..(Len(pk) + 1) /\ k + 1 \in 1..(Len(pk) + 1)
        OBVIOUS
    <2> QED
        BY <2>1 DEF Whole, AtPayload
<1>3. ASSUME NEW k \in 1..(Len(pk2) - 1), k # c PROVE Whole(pk2, off2, k)
    <2>1. CASE k = Len(pk)
        BY <1>2, <1>3, <2>1
    <2>2. CASE k # Len(pk)
        <3>1. k \in 1..(Len(pk) - 1) /\ k \in 1..Len(pk)
            BY <2>2
        <3> QED
            BY <1>2, <1>3, <3>1 DEF Cut
    <2> QED
        BY <2>1, <2>2
<1>4. \/ reader = "failed"
      \/ reader = "header" /\ \E k \in 1..(Len(pk2) + 1) : taken = off2[k]
      \/ reader = "header"
         /\ \E k \in (c + 1)..Len(pk2) : off2[k] < taken /\ taken < off2[k + 1]
      \/ \E k \in 1..Len(pk2) : AtPayload(pk2, off2, k)
    <2>1. ASSUME NEW k \in 1..(Len(pk) + 1), taken = off[k]
          PROVE  \E l \in 1..(Len(pk2) + 1) : taken = off2[l]
        BY <2>1
    <2>2. ASSUME NEW k \in (c + 1)..Len(pk), off[k] < taken, taken < off[k + 1]
          PROVE  \E l \in (c + 1)..Len(pk2) : off2[l] < taken /\ taken < off2[l + 1]
        <3>1. k \in 1..Len(pk) /\ k \in (c + 1)..Len(pk2)
            BY <1>1
        <3> QED
            BY <1>2, <2>2, <3>1
    <2>3. ASSUME NEW k \in 1..Len(pk), AtPayload(pk, off, k)
          PROVE  \E l \in 1..Len(pk2) : AtPayload(pk2, off2, l)
        BY <1>2, <2>3
    <2> QED
        BY <2>1, <2>2, <2>3 DEF Cut
<1>5. ~Whole(pk2, off2, c) /\ off2[c + 1] = off[c + 1]
    BY <1>1, <1>2 DEF Cut
<1> QED
    BY <1>1, <1>3, <1>4, <1>5 DEF Cut

-----------------------------------------------------------------------------
LEMMA TakeShort ==
    ASSUME NEW a \in Seq(Cell), NEW b \in Seq(Cell), NEW n \in 0..Len(a)
    PROVE  SubSeq(a \o b, 1, n) = SubSeq(a, 1, n)
<1>1. CASE n = 0
    BY <1>1, SubSeqEmpty
<1>2. CASE n # 0
    <2>1. 1 \in 1..Len(a) /\ n \in 1..Len(a)
        BY <1>2
    <2> QED
        BY <2>1, SubSeqOfConcat1
<1> QED
    BY <1>1, <1>2

LEMMA TakeLong ==
    ASSUME NEW a \in Seq(Cell), NEW b \in Seq(Cell), NEW k \in 0..Len(b)
    PROVE  SubSeq(a \o b, 1, Len(a) + k) = a \o SubSeq(b, 1, k)
<1>1. PICK l, r : l = SubSeq(a \o b, 1, Len(a) + k) /\ r = a \o SubSeq(b, 1, k)
    OBVIOUS
<1>2. PICK t : t = SubSeq(b, 1, k)
    OBVIOUS
<1>3. t \in Seq(Cell) /\ Len(t) = k /\ \A i \in 1..k : t[i] = b[i]
    BY <1>2
<1>4. /\ a \o b \in Seq(Cell) /\ Len(a \o b) = Len(a) + Len(b)
      /\ \A i \in 1..Len(a) : (a \o b)[i] = a[i]
      /\ \A i \in 1..Len(b) : (a \o b)[Len(a) + i] = b[i]
    OBVIOUS
<1>5. /\ a \o t \in Seq(Cell) /\ Len(a \o t) = Len(a) + Len(t)
      /\ \A i \in 1..Len(a) : (a \o t)[i] = a[i]
      /\ \A i \in 1..Len(t) : (a \o t)[Len(a) + i] = t[i]
    <2>1. t \in Seq(Cell)
        BY <1>3
    <2> QED
        BY <2>1
<1>6. PICK ab : ab = a \o b
    OBVIOUS
<1>7. /\ ab \in Seq(Cell) /\ Len(ab) = Len(a) + Len(b)
      /\ \A i \in 1..Len(a) : ab[i] = a[i]
      /\ \A i \in 1..Len(b) : ab[Len(a) + i] = b[i]
    BY <1>4, <1>6, Zenon
<1>8. PICK la \in Nat : la = Len(a)
    OBVIOUS
<1>9. l = SubSeq(ab, 1, la + k) /\ la + k \in 0..Len(ab)
    BY <1>1, <1>6, <1>7, <1>8
<1>10. l \in Seq(Cell) /\ Len(l) = la + k /\ \A i \in 1..(la + k) : l[i] = ab[i]
    BY <1>7, <1>9
<1>11. /\ r \in Seq(Cell) /\ Len(r) = la + k /\ (\A i \in 1..la : r[i] = a[i])
       /\ \A i \in 1..k : r[la + i] = b[i]
    <2>1. r = a \o t
        BY <1>1, <1>2
    <2> QED
        BY <1>3, <1>5, <1>8, <2>1, Zenon
<1>12. ASSUME NEW i \in 1..(la + k) PROVE l[i] = r[i]
    <2>1. CASE i \in 1..la
        BY <1>7, <1>8, <1>10, <1>11, <2>1, Zenon
    <2>2. CASE i \notin 1..la
        <3>1. i - la \in 1..k /\ la + (i - la) = i /\ i - la \in 1..Len(b)
            BY <2>2
        <3>2. l[i] = ab[la + (i - la)] /\ r[la + (i - la)] = b[i - la]
            BY <1>10, <1>11, <3>1
        <3>3. ab[la + (i - la)] = b[i - la]
            BY <1>7, <1>8, <3>1, Zenon
        <3> QED
            BY <3>1, <3>2, <3>3, Zenon
    <2> QED
        BY <2>1, <2>2
<1>13. l = r
    BY <1>10, <1>11, <1>12, SeqEqual
<1> QED
    BY <1>1, <1>13, <1>8

LEMMA Regroup ==
    ASSUME NEW a \in Seq(Cell), NEW b \in Seq(Cell), NEW c \in Seq(Cell)
    PROVE  a \o (b \o c) = (a \o b) \o c
BY ConcatAssociative, SMTT(30)

LEMMA CellsAre ==
    ASSUME NEW fs \in Seq(Packets), Len(fs) \in {1, 2}
    PROVE  /\ Cells(fs) \in Seq(Cell)
           /\ Cells(fs) = IF Len(fs) = 1 THEN frameDataPacket(fs[1])
                          ELSE frameDataPacket(fs[1]) \o frameDataPacket(fs[2])
<1>1. PICK ss : ss = [i \in DOMAIN fs |-> frameDataPacket(fs[i])]
    OBVIOUS
<1>2. DOMAIN fs = 1..Len(fs)
    OBVIOUS
<1>3. \A i \in 1..Len(fs) : frameDataPacket(fs[i]) \in Seq(Cell)
    <2> TAKE i \in 1..Len(fs)
    <2>1. fs[i] \in Packets
        OBVIOUS
    <2> QED
        BY <2>1, FrameIs
<1>4. ss \in Seq(Seq(Cell)) /\ Len(ss) = Len(fs) /\ Len(ss) \in {1, 2}
    BY <1>1, <1>2, <1>3
<1>5. /\ ss[1] = frameDataPacket(fs[1])
      /\ Len(fs) = 2 => ss[2] = frameDataPacket(fs[2])
    BY <1>1, <1>2
<1>6. Cells(fs) = FlattenSeq(ss)
    BY <1>1 DEF Cells
<1>7. /\ FlattenSeq(ss) = IF Len(ss) = 1 THEN ss[1] ELSE ss[1] \o ss[2]
      /\ FlattenSeq(ss) \in Seq(Cell)
    BY <1>4, Flatten
<1> QED
    BY <1>4, <1>5, <1>6, <1>7, Zenon

(* What a write of one or two frames leaves behind: some of the first      *)
(* frame, or all of it and some of the second.                             *)
InFirst(w, fs, n, w2) ==
    \E k \in 0..FrameLength(fs[1]) :
        /\ w2 = w \o SubSeq(frameDataPacket(fs[1]), 1, k)
        /\ \/ Len(fs) = 1 /\ (n = Len(Cells(fs)) <=> k = FrameLength(fs[1]))
           \/ n # Len(Cells(fs)) /\ k # FrameLength(fs[1])
InSecond(w, fs, n, w2) ==
    /\ Len(fs) = 2
    /\ \E k \in 0..FrameLength(fs[2]) :
           /\ w2 = (w \o SubSeq(frameDataPacket(fs[1]), 1, FrameLength(fs[1])))
                       \o SubSeq(frameDataPacket(fs[2]), 1, k)
           /\ n = Len(Cells(fs)) <=> k = FrameLength(fs[2])

LEMMA WrittenAre ==
    ASSUME NEW w \in Seq(Cell), NEW fs \in Seq(Packets), Len(fs) \in {1, 2},
           NEW n \in 0..Len(Cells(fs))
    PROVE  \/ InFirst(w, fs, n, w \o SubSeq(Cells(fs), 1, n))
           \/ InSecond(w, fs, n, w \o SubSeq(Cells(fs), 1, n))
<1>1. CASE Len(fs) = 1
    <2>1. Cells(fs) = frameDataPacket(fs[1]) /\ fs[1] \in Packets
        BY <1>1, CellsAre
    <2>2. Len(Cells(fs)) = FrameLength(fs[1])
        BY <2>1, FrameIs
    <2> QED
        BY <1>1, <2>1, <2>2, Zenon DEF InFirst
<1>2. CASE Len(fs) = 2
    <2>1. PICK a, b : a = frameDataPacket(fs[1]) /\ b = frameDataPacket(fs[2])
        OBVIOUS
    <2>2. fs[1] \in Packets /\ fs[2] \in Packets
        <3>1. 1 \in 1..Len(fs) /\ 2 \in 1..Len(fs)
            BY <1>2
        <3> QED
            BY <3>1, ElementOfSeq
    <2>3. /\ a \in Seq(Cell) /\ Len(a) = FrameLength(fs[1]) /\ Len(a) \in Nat
          /\ b \in Seq(Cell) /\ Len(b) = FrameLength(fs[2]) /\ Len(b) \in Nat
        BY <2>1, <2>2, FrameIs
    <2>4. Cells(fs) = a \o b
        <3>1. Len(fs) # 1
            BY <1>2
        <3> QED
            BY <2>1, <3>1, CellsAre, Zenon
    <2>5. Len(a \o b) = Len(a) + Len(b)
        <3>1. a \in Seq(Cell) /\ b \in Seq(Cell)
            BY <2>3
        <3> QED
            BY <3>1
    <2>6. PICK la, lb : la = Len(a) /\ lb = Len(b)
        OBVIOUS
    <2>7. la \in Nat /\ lb \in Nat /\ n \in 0..(la + lb) /\ Len(Cells(fs)) = la + lb
        BY <2>3, <2>4, <2>5, <2>6
    <2>8. CASE n < la
        <3>1. n \in 0..Len(a) /\ n # Len(Cells(fs)) /\ n # Len(a)
            BY <2>6, <2>7, <2>8
        <3>2. SubSeq(a \o b, 1, n) = SubSeq(a, 1, n)
            BY <2>3, <3>1, TakeShort
        <3> QED
            BY <2>1, <2>3, <2>4, <3>1, <3>2, Zenon DEF InFirst
    <2>9. CASE n >= la
        <3>1. PICK k : k = n - la
            OBVIOUS
        <3>2. k \in 0..lb /\ la + k = n /\ (n = la + lb <=> k = lb)
            BY <2>7, <2>9, <3>1
        <3>3. k \in 0..Len(b) /\ Len(a) + k = n
            BY <2>6, <3>2
        <3>4. SubSeq(a \o b, 1, n) = a \o SubSeq(b, 1, k)
            BY <2>3, <3>3, TakeLong
        <3>5. SubSeq(b, 1, k) \in Seq(Cell)
            BY <2>3, <3>3
        <3>6. w \o (a \o SubSeq(b, 1, k)) = (w \o a) \o SubSeq(b, 1, k)
            <4>1. PICK t : t = SubSeq(b, 1, k)
                OBVIOUS
            <4>2. a \in Seq(Cell) /\ t \in Seq(Cell)
                BY <2>3, <3>5, <4>1
            <4>3. w \o (a \o t) = (w \o a) \o t
                BY <4>2, Regroup, Zenon
            <4> QED
                BY <4>1, <4>3, Zenon
        <3>7. SubSeq(a, 1, Len(a)) = a
            BY <2>3, SubSeqFull
        <3>8. w \o SubSeq(Cells(fs), 1, n)
                  = (w \o SubSeq(a, 1, Len(a))) \o SubSeq(b, 1, k)
            BY <2>4, <3>4, <3>6, <3>7, Zenon
        <3>9. n = Len(Cells(fs)) <=> k = Len(b)
            BY <2>6, <2>7, <3>2, Zenon
        <3> QED
            BY <1>2, <2>1, <2>3, <3>3, <3>8, <3>9, Zenon DEF InSecond
    <2> QED
        <3>1. n < la \/ n >= la
            BY <2>7
        <3> QED
            BY <3>1, <2>8, <2>9, Zenon
<1> QED
    BY <1>1, <1>2

LEMMA WholeWritten ==
    ASSUME NEW w \in Seq(Cell), NEW pk, NEW off, Framed(pk, off, w), InStep(pk, off),
           Len(read) \in Nat, NEW p \in Packets
    PROVE  \E w2, off2 :
           /\ w2 = w \o SubSeq(frameDataPacket(p), 1, FrameLength(p)) /\ w2 \in Seq(Cell)
           /\ Framed(Append(pk, p), off2, w2) /\ InStep(Append(pk, p), off2)
<1>1. FrameLength(p) \in 0..FrameLength(p)
    BY FrameIs
<1>2. PICK w2, pk2, off2 : Added(w, pk, off, p, FrameLength(p), w2, pk2, off2)
    BY <1>1, FrameAdded, Zenon
<1>3. InStep(pk2, off2)
    BY <1>2, StaysInStep, Zenon DEF Added
<1> QED
    BY <1>2, <1>3, Zenon DEF Added

CutIn(v, w2, pk2, off2) ==
    w2 = v /\ w2 \in Seq(Cell) /\ Framed(pk2, off2, w2) /\ Cut(pk2, off2, Len(pk2))

LEMMA PartWritten ==
    ASSUME NEW w \in Seq(Cell), NEW pk, NEW off, Framed(pk, off, w), InStep(pk, off),
           Len(read) \in Nat, NEW p \in Packets, NEW n \in 0..FrameLength(p),
           n # FrameLength(p)
    PROVE  \E w2, pk2, off2 : CutIn(w \o SubSeq(frameDataPacket(p), 1, n), w2, pk2, off2)
<1>1. pk \in Seq(Packets)
    BY DEF Framed
<1>2. PICK w2, pk2, off2 : Added(w, pk, off, p, n, w2, pk2, off2)
    BY FrameAdded, Zenon
<1>3. Cut(pk2, off2, Len(pk2))
    BY <1>1, <1>2, CutAppears, Zenon DEF Added
<1> QED
    BY <1>2, <1>3, Zenon DEF Added, CutIn

CutAt(c, l, v, whole, w2, pk2, off2) ==
    /\ w2 = v /\ w2 \in Seq(Cell)
    /\ Framed(pk2, off2, w2) /\ Cut(pk2, off2, c) /\ Len(pk2) = l
    /\ whole => Whole(pk2, off2, Len(pk2))

LEMMA MoreWritten ==
    ASSUME NEW w \in Seq(Cell), NEW pk, NEW off, Framed(pk, off, w),
           NEW c, Cut(pk, off, c), Len(pk) = c \/ Whole(pk, off, Len(pk)),
           Len(pk) + 1 <= c + 2, NEW p \in Packets, NEW n \in 0..FrameLength(p)
    PROVE  \E w2, pk2, off2 :
               CutAt(c, Len(pk) + 1, w \o SubSeq(frameDataPacket(p), 1, n),
                     n = FrameLength(p), w2, pk2, off2)
<1>2. PICK w2, pk2, off2 : Added(w, pk, off, p, n, w2, pk2, off2)
    BY FrameAdded, Zenon
<1>3. Len(pk2) <= c + 2
    BY <1>2, Zenon DEF Added
<1>4. Cut(pk2, off2, c)
    BY <1>2, <1>3, CutStays, Zenon DEF Added
<1> QED
    BY <1>2, <1>4, Zenon DEF Added, CutAt

LEMMA SentIs ==
    ASSUME NEW s \in Seq(Packets), NEW fs \in Seq(Packets), Len(fs) \in {1, 2}
    PROVE  /\ s \o fs \in Seq(Packets)
           /\ Len(fs) = 1 => s \o fs = Append(s, fs[1])
           /\ Len(fs) = 2 => s \o fs = Append(Append(s, fs[1]), fs[2])
<1>1. CASE Len(fs) = 1
    <2>1. PICK b : b = fs[1]
        OBVIOUS
    <2>2. b \in Packets /\ fs = <<b>>
        <3>1. b \in Packets
            <4>1. 1 \in 1..Len(fs)
                BY <1>1
            <4> QED
                BY <2>1, <4>1, ElementOfSeq, Zenon
        <3>2. PICK r : r = <<b>>
            OBVIOUS
        <3>3. r \in Seq(Packets) /\ Len(r) = 1 /\ r[1] = b
            BY <3>1, <3>2
        <3>4. \A i \in 1..Len(r) : fs[i] = r[i]
            BY <2>1, <3>3
        <3>5. fs = r
            BY <1>1, <3>3, <3>4, SeqEqual
        <3> QED
            BY <3>1, <3>2, <3>5
    <2>3. s \o <<b>> = Append(s, b) /\ Append(s, b) \in Seq(Packets)
        BY <2>2
    <2> QED
        BY <1>1, <2>1, <2>2, <2>3
<1>2. CASE Len(fs) = 2
    <2>1. fs[1] \in Packets /\ fs[2] \in Packets
        BY <1>2
    <2>2. PICK r : r = Append(s, fs[1])
        OBVIOUS
    <2>3. /\ r \in Seq(Packets) /\ Len(r) = Len(s) + 1 /\ r[Len(s) + 1] = fs[1]
          /\ \A i \in 1..Len(s) : r[i] = s[i]
        BY <2>1, <2>2
    <2>4. PICK q : q = Append(r, fs[2])
        OBVIOUS
    <2>5. /\ q \in Seq(Packets) /\ Len(q) = Len(s) + 2 /\ q[Len(s) + 1] = fs[1]
          /\ q[Len(s) + 2] = fs[2]
          /\ \A i \in 1..Len(s) : q[i] = s[i]
        BY <2>1, <2>3, <2>4
    <2>6. PICK t : t = s \o fs
        OBVIOUS
    <2>7. /\ t \in Seq(Packets) /\ Len(t) = Len(s) + 2 /\ t[Len(s) + 1] = fs[1]
          /\ t[Len(s) + 2] = fs[2]
          /\ \A i \in 1..Len(s) : t[i] = s[i]
        <3>1. /\ t \in Seq(Packets) /\ Len(t) = Len(s) + Len(fs)
              /\ \A i \in 1..Len(s) : t[i] = s[i]
              /\ \A i \in 1..Len(fs) : t[Len(s) + i] = fs[i]
            BY <2>6, Join
        <3> QED
            BY <1>2, <3>1
    <2>8. ASSUME NEW i \in 1..Len(q) PROVE t[i] = q[i]
        <3>1. i \in 1..Len(s) \/ i = Len(s) + 1 \/ i = Len(s) + 2
            BY <2>5
        <3> QED
            BY <2>5, <2>7, <3>1, Zenon
    <2>9. t = q
        BY <2>5, <2>7, <2>8, SeqEqual
    <2> QED
        BY <1>2, <2>2, <2>4, <2>6, <2>7, <2>9
<1> QED
    BY <1>1, <1>2

Writing(w, s, t, a, fs, n, w2) ==
    /\ w \in Seq(Cell) /\ s \in Seq(Packets) /\ t \in BOOLEAN
    /\ Parsed(w, s, t, a) /\ (t => a = 0) /\ Len(read) \in Nat
    /\ fs \in Seq(Packets) /\ Len(fs) \in {1, 2} /\ n \in 0..Len(Cells(fs))
    /\ w2 = w \o SubSeq(Cells(fs), 1, n)

(* A write that ends, and one that fails: the stream is what it was and    *)
(* the frames, or part of them.                                            *)
LEMMA Written ==
    ASSUME NEW w, NEW s, NEW t, NEW a, NEW fs, NEW n, NEW w2,
           Writing(w, s, t, a, fs, n, w2)
    PROVE  /\ w2 \in Seq(Cell)
           /\ n = Len(Cells(fs)) => Parsed(w2, s \o fs, t, IF t THEN 1 ELSE a)
           /\ n # Len(Cells(fs)) => Parsed(w2, s, TRUE, IF t THEN 1 ELSE a)
<1> w \in Seq(Cell) /\ s \in Seq(Packets) /\ t \in BOOLEAN
    BY DEF Writing
<1> Parsed(w, s, t, a) /\ (t => a = 0) /\ Len(read) \in Nat
    BY Zenon DEF Writing
<1> fs \in Seq(Packets) /\ Len(fs) \in {1, 2} /\ n \in 0..Len(Cells(fs))
    BY DEF Writing
<1> w2 = w \o SubSeq(Cells(fs), 1, n)
    BY DEF Writing
<1>1. PICK pk, off :
          /\ Framed(pk, off, w)
          /\ ~t => pk = s /\ InStep(pk, off)
          /\ t => \E c : Cut(pk, off, c) /\ (a = 0 => Len(pk) = c)
    BY Zenon DEF Parsed
<1>2. fs[1] \in Packets /\ (Len(fs) = 2 => fs[2] \in Packets)
    BY ElementOfSeq
<1>3. ASSUME NEW pk2, NEW off2, Framed(pk2, off2, w2), NEW c, Cut(pk2, off2, c), t
      PROVE  /\ n = Len(Cells(fs)) => Parsed(w2, s \o fs, t, IF t THEN 1 ELSE a)
             /\ n # Len(Cells(fs)) => Parsed(w2, s, TRUE, IF t THEN 1 ELSE a)
    <2>1. 1 # 0
        OBVIOUS
    <2> QED
        BY <1>3, <2>1, Zenon DEF Parsed
<1>4. ASSUME NEW pk2, NEW off2, Framed(pk2, off2, w2), Cut(pk2, off2, Len(pk2))
      PROVE  Parsed(w2, s, TRUE, a)
    BY <1>4, Zenon DEF Parsed
<1>5. ASSUME NEW off2, Framed(s \o fs, off2, w2), InStep(s \o fs, off2), ~t
      PROVE  Parsed(w2, s \o fs, t, a)
    BY <1>5, Zenon DEF Parsed
<1>6. CASE ~t
    <2>1. Framed(s, off, w) /\ InStep(s, off)
        BY <1>1, <1>6, Zenon
    <2>2. PICK v, o2 :
              /\ v = w \o SubSeq(frameDataPacket(fs[1]), 1, FrameLength(fs[1]))
              /\ v \in Seq(Cell)
              /\ Framed(Append(s, fs[1]), o2, v) /\ InStep(Append(s, fs[1]), o2)
        BY <1>2, <2>1, WholeWritten, Zenon
    <2>3. CASE InFirst(w, fs, n, w2)
        <3>1. PICK k \in 0..FrameLength(fs[1]) :
                  /\ w2 = w \o SubSeq(frameDataPacket(fs[1]), 1, k)
                  /\ \/ Len(fs) = 1 /\ (n = Len(Cells(fs)) <=> k = FrameLength(fs[1]))
                     \/ n # Len(Cells(fs)) /\ k # FrameLength(fs[1])
            BY <2>3, Zenon DEF InFirst
        <3>2. CASE n = Len(Cells(fs))
            <4>1. w2 = v /\ Len(fs) = 1
                BY <2>2, <3>1, <3>2, Zenon
            <4>2. s \o fs = Append(s, fs[1])
                BY <4>1, SentIs, Zenon
            <4> QED
                BY <1>5, <1>6, <2>2, <3>2, <4>1, <4>2, Zenon
        <3>3. CASE n # Len(Cells(fs))
            <4>1. k # FrameLength(fs[1])
                BY <3>1, <3>3, Zenon
            <4>2. PICK v2, pk2, off2 :
                      CutIn(w \o SubSeq(frameDataPacket(fs[1]), 1, k), v2, pk2, off2)
                BY <1>2, <2>1, <4>1, PartWritten, Zenon
            <4>3. v2 = w2 /\ v2 \in Seq(Cell) /\ Parsed(w2, s, TRUE, a)
                BY <1>4, <3>1, <4>2, Zenon DEF CutIn
            <4> QED
                BY <1>6, <3>3, <4>3, Zenon
        <3> QED
            BY <3>2, <3>3, Zenon
    <2>4. CASE InSecond(w, fs, n, w2)
        <3>a. Len(fs) = 2
            BY <2>4 DEF InSecond
        <3>1. PICK k \in 0..FrameLength(fs[2]) :
                  /\ w2 = v \o SubSeq(frameDataPacket(fs[2]), 1, k)
                  /\ n = Len(Cells(fs)) <=> k = FrameLength(fs[2])
            BY <2>2, <2>4, Zenon DEF InSecond
        <3>2. CASE n = Len(Cells(fs))
            <4>1. PICK v2, off2 :
                      /\ v2 = v \o SubSeq(frameDataPacket(fs[2]), 1, FrameLength(fs[2]))
                      /\ v2 \in Seq(Cell)
                      /\ Framed(Append(Append(s, fs[1]), fs[2]), off2, v2)
                      /\ InStep(Append(Append(s, fs[1]), fs[2]), off2)
                BY <1>2, <2>2, <3>a, WholeWritten, Zenon
            <4>2. w2 = v2 /\ s \o fs = Append(Append(s, fs[1]), fs[2])
                BY <3>a, <3>1, <3>2, <4>1, SentIs, Zenon
            <4> QED
                BY <1>5, <1>6, <3>2, <4>1, <4>2, Zenon
        <3>3. CASE n # Len(Cells(fs))
            <4>1. k # FrameLength(fs[2])
                BY <3>1, <3>3, Zenon
            <4>2. PICK v2, pk2, off2 :
                      CutIn(v \o SubSeq(frameDataPacket(fs[2]), 1, k), v2, pk2, off2)
                BY <1>2, <2>2, <3>a, <4>1, PartWritten, Zenon
            <4>3. v2 = w2 /\ v2 \in Seq(Cell) /\ Parsed(w2, s, TRUE, a)
                BY <1>4, <3>1, <4>2, Zenon DEF CutIn
            <4> QED
                BY <1>6, <3>3, <4>3, Zenon
        <3> QED
            BY <3>2, <3>3, Zenon
    <2> QED
        BY <2>3, <2>4, WrittenAre, Zenon
<1>7. CASE t
    <2>1. PICK c : Cut(pk, off, c) /\ Len(pk) = c
        BY <1>1, <1>7, Zenon
    <2>2. c \in Nat /\ Len(pk) + 1 <= c + 2 /\ Len(pk) + 1 + 1 <= c + 2
        BY <2>1 DEF Cut
    <2>3. CASE InFirst(w, fs, n, w2)
        <3>1. PICK k \in 0..FrameLength(fs[1]) :
                  w2 = w \o SubSeq(frameDataPacket(fs[1]), 1, k)
            BY <2>3, Zenon DEF InFirst
        <3>2. PICK v2, pk2, off2 :
                  CutAt(c, Len(pk) + 1, w \o SubSeq(frameDataPacket(fs[1]), 1, k),
                        k = FrameLength(fs[1]), v2, pk2, off2)
            BY <1>1, <1>2, <2>1, <2>2, MoreWritten, Zenon
        <3>3. v2 = w2 /\ v2 \in Seq(Cell) /\ Framed(pk2, off2, w2) /\ Cut(pk2, off2, c)
            BY <3>1, <3>2, Zenon DEF CutAt
        <3> QED
            BY <1>3, <1>7, <3>3, Zenon
    <2>4. CASE InSecond(w, fs, n, w2)
        <3>a. Len(fs) = 2
            BY <2>4 DEF InSecond
        <3>1. FrameLength(fs[1]) \in 0..FrameLength(fs[1])
            BY <1>2, FrameIs
        <3>2. PICK v, p2, o2 :
                  CutAt(c, Len(pk) + 1,
                        w \o SubSeq(frameDataPacket(fs[1]), 1, FrameLength(fs[1])),
                        FrameLength(fs[1]) = FrameLength(fs[1]), v, p2, o2)
            BY <1>1, <1>2, <2>1, <2>2, <3>1, MoreWritten, Zenon
        <3>3. /\ v = w \o SubSeq(frameDataPacket(fs[1]), 1, FrameLength(fs[1]))
              /\ v \in Seq(Cell) /\ Framed(p2, o2, v) /\ Cut(p2, o2, c)
              /\ Len(p2) = Len(pk) + 1 /\ Whole(p2, o2, Len(p2))
            BY <3>2, Zenon DEF CutAt
        <3>4. PICK k \in 0..FrameLength(fs[2]) :
                  w2 = v \o SubSeq(frameDataPacket(fs[2]), 1, k)
            BY <2>4, <3>3, Zenon DEF InSecond
        <3>5. Len(p2) + 1 <= c + 2
            BY <2>2, <3>3, Zenon
        <3>6. PICK v2, pk2, off2 :
                  CutAt(c, Len(p2) + 1, v \o SubSeq(frameDataPacket(fs[2]), 1, k),
                        k = FrameLength(fs[2]), v2, pk2, off2)
            BY <1>2, <3>a, <3>3, <3>5, MoreWritten, Zenon
        <3>7. v2 = w2 /\ v2 \in Seq(Cell) /\ Framed(pk2, off2, w2) /\ Cut(pk2, off2, c)
            BY <3>4, <3>6, Zenon DEF CutAt
        <3> QED
            BY <1>3, <1>7, <3>7, Zenon
    <2> QED
        BY <2>3, <2>4, WrittenAre, Zenon
<1> QED
    BY <1>6, <1>7

-----------------------------------------------------------------------------
(* The k-th frame of the stream. *)
LEMMA FrameAt ==
    ASSUME NEW w \in Seq(Cell), NEW pk, NEW off, Framed(pk, off, w), NEW k \in 1..Len(pk)
    PROVE  /\ pk[k] \in Packets /\ off[k] \in Nat /\ off[k + 1] \in Nat
           /\ off[k] <= off[k + 1] /\ off[k + 1] <= Len(w)
           /\ off[k + 1] <= off[k] + FrameLength(pk[k])
           /\ \A j \in 1..(off[k + 1] - off[k]) : w[off[k] + j] = frameDataPacket(pk[k])[j]
           /\ k = Len(pk) => off[k + 1] = Len(w)
<1>1. /\ pk \in Seq(Packets) /\ off \in Seq(Nat) /\ Len(off) = Len(pk) + 1
      /\ off[Len(pk) + 1] = Len(w)
      /\ \A i, l \in 1..(Len(pk) + 1) : i <= l => off[i] <= off[l]
    BY DEF Framed
<1>2. PICK m \in Nat : m = Len(pk)
    BY <1>1
<1>3. k \in 1..m /\ k \in 1..(m + 1) /\ k + 1 \in 1..(m + 1) /\ m + 1 \in 1..(m + 1)
    BY <1>2
<1>4. pk[k] \in Packets /\ off[k] \in Nat /\ off[k + 1] \in Nat
    <2>1. k \in 1..Len(off) /\ k + 1 \in 1..Len(off)
        BY <1>1, <1>2, <1>3
    <2> QED
        BY <1>1, <2>1, ElementOfSeq
<1>5. off[k] <= off[k + 1] /\ off[k + 1] <= off[m + 1]
    <2>1. k <= k + 1 /\ k + 1 <= m + 1
        BY <1>3
    <2> QED
        BY <1>1, <1>2, <1>3, <2>1, Zenon
<1>6. /\ off[k + 1] <= off[k] + FrameLength(pk[k])
      /\ \A j \in 1..(off[k + 1] - off[k]) : w[off[k] + j] = frameDataPacket(pk[k])[j]
    BY DEF Framed
<1> QED
    BY <1>1, <1>2, <1>4, <1>5, <1>6, Zenon

LEMMA HeaderIs ==
    ASSUME NEW w \in Seq(Cell), NEW pk, NEW off, Framed(pk, off, w), NEW k \in 1..Len(pk),
           off[k] + 2 <= off[k + 1]
    PROVE  IsMagic(w[off[k] + 1]) /\ w[off[k] + 2][2] = HeaderLength + Size(pk[k])
<1>1. PICK o, o2 : o = off[k] /\ o2 = off[k + 1]
    OBVIOUS
<1>2. /\ pk[k] \in Packets /\ o \in Nat /\ o2 \in Nat /\ o + 2 <= o2
      /\ \A j \in 1..(o2 - o) : w[o + j] = frameDataPacket(pk[k])[j]
    BY <1>1, FrameAt
<1>3. 1 \in 1..(o2 - o) /\ 2 \in 1..(o2 - o)
    BY <1>2
<1>4. w[o + 1] = frameDataPacket(pk[k])[1] /\ w[o + 2] = frameDataPacket(pk[k])[2]
    BY <1>2, <1>3, Zenon
<1>5. /\ frameDataPacket(pk[k])[1] = <<"magic", 0, 0, 0>>
      /\ frameDataPacket(pk[k])[2] = <<"length", HeaderLength + Size(pk[k]), 0, 0>>
    BY <1>2, FrameIs
<1>6. IsMagic(w[o + 1])
    BY <1>4, <1>5 DEF IsMagic
<1>7. w[o + 2][2] = HeaderLength + Size(pk[k])
    BY <1>4, <1>5
<1> QED
    BY <1>1, <1>6, <1>7, Zenon

(* readIPCPHeader on the header of a frame that has one, and elsewhere. *)
LEMMA ReadsHeader ==
    ASSUME wire \in Seq(Cell), NEW pk, NEW off, Framed(pk, off, wire),
           NEW k \in 1..Len(pk), off[k] + 2 <= off[k + 1], readIPCPHeader, taken = off[k]
    PROVE  AtPayload(pk, off, k)' /\ want' \in 0..MaximumPayload
<1>1. IsMagic(wire[off[k] + 1]) /\ wire[off[k] + 2][2] = HeaderLength + Size(pk[k])
    BY HeaderIs
<1>2. pk[k] \in Packets
    BY FrameAt
<1>3. Size(pk[k]) \in 0..MaximumPayload /\ MaximumPayload \in Nat
    BY <1>2, StreamAssumption
<1>4. PICK n : n = wire[taken + 2][2] - HeaderLength
    OBVIOUS
<1>5. n = Size(pk[k]) /\ n >= 0 /\ ~Oversized(n)
    BY <1>1, <1>3, <1>4 DEF HeaderLength, Oversized
<1>6. taken' = taken + HeaderLength
    BY DEF readIPCPHeader
<1>7. reader' = "payload" /\ want' = n
    <2>1. IsMagic(wire[taken + 1])
        BY <1>1
    <2> QED
        BY <1>4, <1>5, <2>1, Zenon DEF readIPCPHeader
<1> QED
    BY <1>3, <1>5, <1>6, <1>7 DEF AtPayload, HeaderLength

LEMMA RefusesHeader ==
    ASSUME readIPCPHeader, ~IsMagic(wire[taken + 1]) \/ wire[taken + 2][2] = 0
    PROVE  reader' = "failed" /\ want' = want
<1>1. CASE ~IsMagic(wire[taken + 1])
    BY <1>1, Zenon DEF readIPCPHeader
<1>2. CASE wire[taken + 2][2] = 0
    <2>1. PICK n : n = wire[taken + 2][2] - HeaderLength
        OBVIOUS
    <2>2. ~(n >= 0)
        BY <1>2, <2>1 DEF HeaderLength
    <2> QED
        BY <2>1, <2>2, Zenon DEF readIPCPHeader
<1> QED
    BY <1>1, <1>2

(* After a failed write a header is one of a frame, or is refused: the     *)
(* other end is inside a frame, or has a cut frame's magic and then that   *)
(* of the next for a length.                                               *)
LEMMA CutHeader ==
    ASSUME wire \in Seq(Cell), NEW pk, NEW off, Framed(pk, off, wire),
           NEW c, Cut(pk, off, c), readIPCPHeader, taken \in Nat
    PROVE  \/ \E k \in 1..Len(pk) : AtPayload(pk, off, k)' /\ want' \in 0..MaximumPayload
           \/ reader' = "failed" /\ want' = want
<1>1. reader = "header" /\ taken + 2 <= Len(wire)
    BY DEF readIPCPHeader, HeaderLength
<1>2. PICK m : m = Len(pk)
    OBVIOUS
<1>3. /\ m \in Nat /\ Len(wire) \in Nat /\ c \in 1..m
      /\ off[m + 1] = Len(wire)
    BY <1>2 DEF Framed, Cut
<1>4. ASSUME NEW k \in 1..m, taken = off[k], off[k] + 2 <= off[k + 1]
      PROVE  AtPayload(pk, off, k)' /\ want' \in 0..MaximumPayload
    BY <1>2, <1>4, ReadsHeader
<1>5. ASSUME NEW k \in 1..m, ~(off[k] + 2 <= off[k + 1]), k # m
      PROVE  k = c
    <2>1. Whole(pk, off, k) => off[k] + 2 <= off[k + 1]
        <3>1. pk[k] \in Packets /\ off[k] \in Nat /\ off[k + 1] \in Nat
            BY <1>2, FrameAt
        <3>2. FrameLength(pk[k]) \in Nat /\ FrameLength(pk[k]) >= 2
            BY <3>1, FrameIs
        <3> QED
            BY <3>1, <3>2 DEF Whole
    <2>2. k \in 1..(m - 1)
        BY <1>3, <1>5
    <2> QED
        BY <1>2, <1>5, <2>1, <2>2, Zenon DEF Cut
<1>6. ASSUME NEW k \in (c + 1)..m, off[k] < taken, taken < off[k + 1]
      PROVE  reader' = "failed" /\ want' = want
    <2>1. k \in 1..Len(pk)
        BY <1>2, <1>3
    <2>2. PICK o, o2, j : o = off[k] /\ o2 = off[k + 1] /\ j = taken + 1 - off[k]
        OBVIOUS
    <2>3. /\ pk[k] \in Packets /\ o \in Nat /\ o2 \in Nat /\ o2 <= o + FrameLength(pk[k])
          /\ \A i \in 1..(o2 - o) : wire[o + i] = frameDataPacket(pk[k])[i]
        BY <2>1, <2>2, FrameAt
    <2>4. FrameLength(pk[k]) \in Nat
        BY <2>3, FrameIs
    <2>5. j \in 1..(o2 - o) /\ o + j = taken + 1 /\ j \in 2..FrameLength(pk[k])
        <3>1. PICK f : f = FrameLength(pk[k])
            OBVIOUS
        <3>2. /\ o \in Nat /\ o2 \in Nat /\ f \in Nat /\ o2 <= o + f
              /\ o < taken /\ taken < o2 /\ j = taken + 1 - o
            BY <1>6, <2>2, <2>3, <2>4, <3>1, Zenon
        <3>3. j \in 1..(o2 - o) /\ o + j = taken + 1 /\ j \in 2..f
            BY <3>2
        <3> QED
            BY <3>1, <3>3, Zenon
    <2>6. wire[taken + 1] = frameDataPacket(pk[k])[j]
        BY <2>3, <2>5, Zenon
    <2>7. ~IsMagic(wire[taken + 1])
        BY <2>3, <2>5, <2>6, MagicIsFirst, Zenon
    <2> QED
        BY <2>7, RefusesHeader, Zenon
<1>7. ASSUME NEW k \in 1..(m + 1), taken = off[k]
      PROVE  \/ \E l \in 1..m : AtPayload(pk, off, l)' /\ want' \in 0..MaximumPayload
             \/ reader' = "failed" /\ want' = want
    <2>1. k # m + 1
        BY <1>1, <1>3, <1>7
    <2>2. k \in 1..m
        BY <1>3, <2>1
    <2>3. CASE off[k] + 2 <= off[k + 1]
        BY <1>4, <1>7, <2>2, <2>3, Zenon
    <2>4. CASE ~(off[k] + 2 <= off[k + 1])
        <3>1. k # m
            BY <1>1, <1>3, <1>7, <2>4
        <3>2. k = c
            BY <1>5, <2>2, <2>4, <3>1, Zenon
        <3>3. /\ off[k] \in Nat /\ off[k + 1] \in Nat /\ off[k] <= off[k + 1]
            BY <1>2, <2>2, FrameAt
        <3>4. k + 1 \in 1..m /\ k + 1 # c /\ k + 1 \in 1..Len(pk)
            BY <1>2, <1>3, <2>2, <3>1, <3>2
        <3>5. PICK l : l = k + 1
            OBVIOUS
        <3>6. /\ off[l] \in Nat /\ off[l + 1] \in Nat
              /\ l = m => off[l + 1] = Len(wire)
            BY <1>2, <3>4, <3>5, FrameAt
        <3>7. off[l] + 2 <= off[l + 1] \/ l = m
            BY <1>5, <3>4, <3>5, Zenon
        <3>8. CASE off[k + 1] = off[k]
            <4>1. taken = off[l]
                BY <1>7, <3>5, <3>8
            <4>2. off[l] + 2 <= off[l + 1]
                BY <1>1, <1>3, <3>6, <3>7, <4>1
            <4>3. l \in 1..m
                BY <3>4, <3>5
            <4> QED
                BY <1>4, <4>1, <4>2, <4>3, Zenon
        <3>9. CASE off[k + 1] = off[k] + 1
            <4>1. off[l] = taken + 1
                BY <1>7, <3>5, <3>9
            <4>2. off[l] + 1 <= off[l + 1]
                BY <1>1, <1>3, <3>6, <3>7, <4>1
            <4>3. PICK o, o2 : o = off[l] /\ o2 = off[l + 1]
                OBVIOUS
            <4>4. /\ pk[l] \in Packets
                  /\ \A j \in 1..(o2 - o) : wire[o + j] = frameDataPacket(pk[l])[j]
                BY <3>4, <3>5, <4>3, FrameAt
            <4>5. 1 \in 1..(o2 - o) /\ o + 1 = taken + 2
                <5>1. o \in Nat /\ o2 \in Nat /\ o = taken + 1 /\ o + 1 <= o2
                    BY <3>6, <4>1, <4>2, <4>3, Zenon
                <5> QED
                    BY <5>1
            <4>6. wire[taken + 2] = frameDataPacket(pk[l])[1]
                BY <4>4, <4>5, Zenon
            <4>7. wire[taken + 2] = <<"magic", 0, 0, 0>>
                BY <4>4, <4>6, FrameIs
            <4>8. wire[taken + 2][2] = 0
                BY <4>7
            <4> QED
                BY <4>8, RefusesHeader, Zenon
        <3> QED
            BY <2>4, <3>3, <3>8, <3>9
    <2> QED
        BY <2>3, <2>4
<1>8. \/ \E k \in 1..(m + 1) : taken = off[k]
      \/ \E k \in (c + 1)..m : off[k] < taken /\ taken < off[k + 1]
    <2>1. "header" # "failed" /\ "header" # "payload"
        OBVIOUS
    <2> QED
        BY <1>1, <1>2, <2>1, Zenon DEF Cut, AtPayload
<1> QED
    BY <1>2, <1>6, <1>7, <1>8, Zenon

Grown(r, d) ==
    /\ Len(r) \in Nat /\ \E S : Append(r, d) \in Seq(S)
    /\ Len(Append(r, d)) = Len(r) + 1 /\ Append(r, d)[Len(r) + 1] = d
    /\ \A i \in 1..Len(r) : Append(r, d)[i] = r[i]

LEMMA OneMore ==
    ASSUME NEW r, \E S : r \in Seq(S), NEW d
    PROVE  Grown(r, d)
<1>1. PICK S : r \in Seq(S)
    OBVIOUS
<1>2. PICK T : T = S \cup {d}
    OBVIOUS
<1>3. r \in Seq(T) /\ d \in T
    <2>1. \A i \in 1..Len(r) : r[i] \in T
        BY <1>1, <1>2
    <2> QED
        BY <1>1, <1>2, <2>1
<1>4. /\ Append(r, d) \in Seq(T) /\ Len(Append(r, d)) = Len(r) + 1
      /\ \A i \in 1..Len(r) : Append(r, d)[i] = r[i]
      /\ Append(r, d)[Len(r) + 1] = d /\ Len(r) \in Nat
    BY <1>3, AppendProperties
<1> QED
    BY <1>4, Zenon DEF Grown

(* A whole frame's payload is the datagram it was made of. *)
LEMMA ReadsPayload ==
    ASSUME wire \in Seq(Cell), NEW pk, NEW off, Framed(pk, off, wire), NEW k \in 1..Len(pk),
           AtPayload(pk, off, k), Whole(pk, off, k), readDataPacket
    PROVE  read' = Append(read, Datagram(pk[k])) /\ taken' = off[k + 1]
<1>1. PICK o, p : o = off[k] /\ p = pk[k]
    OBVIOUS
<1>2. /\ p \in Packets /\ o \in Nat /\ off[k + 1] \in Nat /\ off[k + 1] <= Len(wire)
      /\ \A j \in 1..(off[k + 1] - o) : wire[o + j] = frameDataPacket(p)[j]
    BY <1>1, FrameAt
<1>3. FrameLength(p) \in Nat /\ Size(p) \in Nat
    BY <1>2, FrameIs, DatagramIs
<1>4. off[k + 1] = o + FrameLength(p)
    BY <1>1 DEF Whole
<1>5. /\ o + FrameLength(p) <= Len(wire)
      /\ \A j \in 1..FrameLength(p) : wire[o + j] = frameDataPacket(p)[j]
    <2>1. (o + FrameLength(p)) - o = FrameLength(p)
        BY <1>2, <1>3
    <2> QED
        BY <1>2, <1>4, <2>1, Zenon
<1>6. apply(SubSeq(wire, o + HeaderLength + 1, o + HeaderLength + Size(p))) = Datagram(p)
    BY <1>2, <1>5, PayloadIs, Zenon
<1>7. taken = o + HeaderLength /\ want = Size(p)
    BY <1>1 DEF AtPayload
<1>8. /\ taken' = taken + want
      /\ read' = Append(read, apply(SubSeq(wire, taken + 1, taken + want)))
    BY DEF readDataPacket
<1>9. taken' = off[k + 1]
    BY <1>2, <1>3, <1>4, <1>7, <1>8 DEF FrameLength, HeaderLength
<1> QED
    BY <1>1, <1>6, <1>7, <1>8, <1>9, Zenon

LEMMA InStepPayload ==
    ASSUME wire \in Seq(Cell), NEW pk, NEW off, Framed(pk, off, wire), InStep(pk, off),
           \E S : read \in Seq(S), readDataPacket
    PROVE  InStep(pk, off)'
<1>1. PICK r : r = Len(read)
    OBVIOUS
<1>2. PICK m : m = Len(pk)
    OBVIOUS
<1>3. reader = "payload" /\ reader' = "header"
    BY DEF readDataPacket
<1>4. /\ \A k \in 1..m : Whole(pk, off, k)
      /\ \A k \in 1..r : read[k] = Datagram(pk[k])
      /\ r < m /\ AtPayload(pk, off, r + 1)
    <2>1. "payload" # "header"
        OBVIOUS
    <2> QED
        BY <1>1, <1>2, <1>3, <2>1, Zenon DEF InStep
<1>5. m \in Nat /\ r \in Nat
    <2>1. Grown(read, read)
        BY OneMore, Zenon
    <2> QED
        BY <1>1, <1>2, <2>1 DEF Framed, Grown
<1>6. r + 1 \in 1..m
    BY <1>4, <1>5
<1>7. read' = Append(read, Datagram(pk[r + 1])) /\ taken' = off[(r + 1) + 1]
    BY <1>2, <1>4, <1>6, ReadsPayload, Zenon
<1>8. PICK d : d = Datagram(pk[r + 1])
    OBVIOUS
<1>9. /\ Len(read') = r + 1 /\ read'[r + 1] = d /\ \A i \in 1..r : read'[i] = read[i]
    <2>1. Grown(read, d)
        BY OneMore, Zenon
    <2> QED
        BY <1>1, <1>7, <1>8, <2>1, Zenon DEF Grown
<1>10. ASSUME NEW k \in 1..(r + 1) PROVE read'[k] = Datagram(pk[k])
    <2>1. k \in 1..r \/ k = r + 1
        BY <1>5
    <2> QED
        BY <1>4, <1>8, <1>9, <2>1, Zenon
<1>11. r + 1 <= m
    BY <1>6
<1> QED
    BY <1>2, <1>3, <1>4, <1>7, <1>9, <1>10, <1>11, Zenon DEF InStep, Whole

LEMMA CutNext ==
    ASSUME NEW pk, NEW off, NEW c, c \in 1..Len(pk), Len(pk) <= c + 2, ~Whole(pk, off, c),
           \A k \in 1..(Len(pk) - 1) : k # c => Whole(pk, off, k),
           reader' = "header",
           \/ \E k \in 1..(Len(pk) + 1) : taken' = off[k]
           \/ \E k \in (c + 1)..Len(pk) : off[k] < taken' /\ taken' < off[k + 1],
           \/ \A i \in 1..Len(read') : \E p \in Packets : read'[i] = Datagram(p)
           \/ /\ taken' > off[c + 1]
              /\ \E b \in 1..Len(read') : \A i \in 1..Len(read') \ {b} :
                     \E p \in Packets : read'[i] = Datagram(p)
    PROVE  Cut(pk, off, c)'
BY DEF Cut, Whole

(* The payload of the cut frame is filled up from what comes behind it.    *)
LEMMA CutPayload ==
    ASSUME wire \in Seq(Cell), NEW pk, NEW off, Framed(pk, off, wire), NEW c, Cut(pk, off, c),
           \E S : read \in Seq(S), readDataPacket
    PROVE  Cut(pk, off, c)'
<1>1. PICK r : r = Len(read)
    OBVIOUS
<1>2. PICK m : m = Len(pk)
    OBVIOUS
<1>3. reader = "payload" /\ reader' = "header" /\ taken + want <= Len(wire)
      /\ taken' = taken + want
    BY DEF readDataPacket
<1>4. PICK k \in 1..m : AtPayload(pk, off, k)
    <2>1. "payload" # "header" /\ "payload" # "failed"
        OBVIOUS
    <2> QED
        BY <1>2, <1>3, <2>1, Zenon DEF Cut
<1>5. m \in Nat /\ r \in Nat /\ c \in 1..m /\ m <= c + 2 /\ off[m + 1] = Len(wire)
    <2>1. Grown(read, read)
        BY OneMore, Zenon
    <2> QED
        BY <1>1, <1>2, <2>1 DEF Framed, Cut, Grown
<1>6. PICK d : d = apply(SubSeq(wire, taken + 1, taken + want))
    OBVIOUS
<1>7. /\ Len(read') = r + 1 /\ read'[r + 1] = d /\ \A i \in 1..r : read'[i] = read[i]
    <2>1. read' = Append(read, d)
        BY <1>6 DEF readDataPacket
    <2>2. Grown(read, d)
        BY OneMore, Zenon
    <2> QED
        BY <1>1, <2>1, <2>2, Zenon DEF Grown
<1>8. /\ pk[k] \in Packets /\ off[k] \in Nat /\ off[k + 1] \in Nat /\ off[k] <= off[k + 1]
      /\ off[k + 1] <= off[k] + FrameLength(pk[k]) /\ (k = m => off[k + 1] = Len(wire))
    BY <1>2, FrameAt
<1>9. FrameLength(pk[k]) \in Nat /\ Size(pk[k]) \in Nat
    BY <1>8, FrameIs, DatagramIs
<1>10. /\ taken = off[k] + 2 /\ want = Size(pk[k]) /\ taken <= off[k + 1]
       /\ taken' = off[k] + FrameLength(pk[k])
    <2>1. /\ taken = off[k] + HeaderLength /\ want = Size(pk[k])
          /\ off[k] + HeaderLength <= off[k + 1]
        BY <1>4 DEF AtPayload
    <2>2. PICK o, q, z : o = off[k] /\ q = off[k + 1] /\ z = Size(pk[k])
        OBVIOUS
    <2>3. /\ o \in Nat /\ z \in Nat /\ taken = o + HeaderLength /\ o + HeaderLength <= q
          /\ taken' = taken + z
        BY <1>3, <1>8, <1>9, <2>1, <2>2, Zenon
    <2>4. taken = o + 2 /\ taken <= q /\ taken' = o + (HeaderLength + z)
        BY <2>3 DEF HeaderLength
    <2> QED
        BY <2>1, <2>2, <2>4, Zenon DEF FrameLength
<1>11. ASSUME /\ \/ \E l \in 1..(m + 1) : taken' = off[l]
                 \/ \E l \in (c + 1)..m : off[l] < taken' /\ taken' < off[l + 1],
              \/ \A i \in 1..(r + 1) : \E p \in Packets : read'[i] = Datagram(p)
              \/ /\ taken' > off[c + 1]
                 /\ \E b \in 1..(r + 1) : \A i \in 1..(r + 1) \ {b} :
                        \E p \in Packets : read'[i] = Datagram(p)
       PROVE  Cut(pk, off, c)'
    <2>1. /\ c \in 1..Len(pk) /\ Len(pk) <= c + 2 /\ ~Whole(pk, off, c)
          /\ \A l \in 1..(Len(pk) - 1) : l # c => Whole(pk, off, l)
        BY Zenon DEF Cut
    <2> QED
        BY <1>2, <1>3, <1>7, <1>11, <2>1, CutNext, Zenon
<1>12. CASE Whole(pk, off, k)
    <2>1. read' = Append(read, Datagram(pk[k])) /\ taken' = off[k + 1]
        BY <1>2, <1>4, <1>12, ReadsPayload, Zenon
    <2>2. read'[r + 1] = Datagram(pk[k])
        <3>1. Grown(read, Datagram(pk[k]))
            BY OneMore, Zenon
        <3> QED
            BY <1>1, <2>1, <3>1, Zenon DEF Grown
    <2>3. k + 1 \in 1..(m + 1)
        BY <1>5
    <2>4. CASE \A i \in 1..r : \E p \in Packets : read[i] = Datagram(p)
        <3>1. ASSUME NEW i \in 1..(r + 1) PROVE \E p \in Packets : read'[i] = Datagram(p)
            <4>1. i \in 1..r \/ i = r + 1
                BY <1>5
            <4> QED
                BY <1>7, <1>8, <2>2, <2>4, <4>1, Zenon
        <3> QED
            BY <1>11, <2>1, <2>3, <3>1, Zenon
    <2>5. CASE /\ taken > off[c + 1]
               /\ \E b \in 1..r : \A i \in 1..r \ {b} :
                      \E p \in Packets : read[i] = Datagram(p)
        <3>1. PICK b \in 1..r : \A i \in 1..r \ {b} : \E p \in Packets : read[i] = Datagram(p)
            BY <2>5
        <3>2. ASSUME NEW i \in 1..(r + 1) \ {b}
              PROVE  \E p \in Packets : read'[i] = Datagram(p)
            <4>1. i \in 1..r \ {b} \/ i = r + 1
                BY <1>5
            <4> QED
                BY <1>7, <1>8, <2>2, <3>1, <4>1, Zenon
        <3>3. b \in 1..(r + 1)
            BY <1>5
        <3>4. taken' > off[c + 1]
            <4>1. c \in 1..Len(pk)
                BY <1>2, <1>5
            <4>2. off[c + 1] \in Nat
                BY <4>1, FrameAt
            <4> QED
                BY <1>8, <1>10, <2>1, <2>5, <4>2
        <3> QED
            BY <1>11, <2>1, <2>3, <3>2, <3>3, <3>4, Zenon
    <2> QED
        BY <1>1, <2>4, <2>5, Zenon DEF Cut
<1>13. CASE ~Whole(pk, off, k)
    <2>1. off[k + 1] < taken'
        BY <1>8, <1>9, <1>10, <1>13 DEF Whole
    <2>2. k # m
        BY <1>3, <1>8, <1>10, <2>1
    <2>3. k = c
        <3>1. k \in 1..(m - 1)
            BY <1>5, <2>2
        <3> QED
            BY <1>2, <1>13, <3>1, Zenon DEF Cut
    <2>4. ~(taken > off[c + 1])
        BY <1>8, <1>10, <2>3
    <2>5. \A i \in 1..r : \E p \in Packets : read[i] = Datagram(p)
        BY <1>1, <2>4, Zenon DEF Cut
    <2>6. ASSUME NEW i \in 1..(r + 1) \ {r + 1} PROVE \E p \in Packets : read'[i] = Datagram(p)
        <3>1. i \in 1..r
            BY <1>5
        <3> QED
            BY <1>7, <2>5, <3>1, Zenon
    <2>7. r + 1 \in 1..(r + 1)
        BY <1>5
    <2>8. \/ \E l \in 1..(m + 1) : taken' = off[l]
          \/ \E l \in (c + 1)..m : off[l] < taken' /\ taken' < off[l + 1]
        <3>1. c + 1 \in 1..Len(pk) /\ c + 1 \in (c + 1)..m /\ c + 1 \in 1..(m + 1)
            BY <1>2, <1>5, <2>2, <2>3
        <3>2. PICK l : l = c + 1
            OBVIOUS
        <3>3. /\ off[l] \in Nat /\ off[l + 1] \in Nat /\ (l = m \/ l + 1 = m)
              /\ taken' > off[l] /\ taken' \in Nat /\ taken' <= Len(wire)
            <4>1. off[l] \in Nat /\ off[l + 1] \in Nat
                BY <3>1, <3>2, FrameAt
            <4>2. l = m \/ l + 1 = m
                BY <1>5, <3>1, <3>2
            <4>3. taken' > off[l] /\ taken' \in Nat /\ taken' <= Len(wire)
                <5>1. taken' > off[l] /\ taken' <= Len(wire)
                    BY <1>3, <2>1, <2>3, <3>2
                <5>2. taken' \in Nat
                    BY <1>8, <1>9, <1>10
                <5> QED
                    BY <5>1, <5>2
            <4> QED
                BY <4>1, <4>2, <4>3
        <3>4. l \in (c + 1)..m /\ l \in 1..(m + 1) /\ l + 1 \in 1..(m + 1)
            BY <1>5, <3>1, <3>2
        <3>5. CASE taken' < off[l + 1]
            BY <3>3, <3>4, <3>5
        <3>6. CASE taken' = off[l + 1]
            BY <3>4, <3>6
        <3>7. CASE taken' > off[l + 1]
            <4>1. l + 1 = m
                BY <1>5, <3>3, <3>7
            <4>2. PICK q : q = l + 1
                OBVIOUS
            <4>3. q \in 1..Len(pk) /\ q \in (c + 1)..m /\ q + 1 \in 1..(m + 1)
                BY <1>2, <1>5, <3>4, <4>1, <4>2
            <4>4. off[q] \in Nat /\ off[q + 1] = Len(wire) /\ off[q] < taken'
                BY <1>2, <3>7, <4>1, <4>2, <4>3, FrameAt
            <4>5. Len(wire) \in Nat
                OBVIOUS
            <4>6. (off[q] < taken' /\ taken' < off[q + 1]) \/ taken' = off[q + 1]
                BY <3>3, <4>4, <4>5
            <4> QED
                BY <4>3, <4>6
        <3> QED
            BY <3>3, <3>5, <3>6, <3>7
    <2>9. taken' > off[c + 1]
        BY <2>1, <2>3, <1>8, <1>9, <1>10
    <2> QED
        BY <1>11, <2>6, <2>7, <2>8, <2>9, Zenon
<1> QED
    BY <1>12, <1>13

LEMMA InStepHeader ==
    ASSUME wire \in Seq(Cell), NEW pk, NEW off, Framed(pk, off, wire), InStep(pk, off),
           Len(read) \in Nat, taken \in Nat, readIPCPHeader
    PROVE  InStep(pk, off)' /\ want' \in 0..MaximumPayload
<1>1. PICK r : r = Len(read)
    OBVIOUS
<1>2. PICK m : m = Len(pk)
    OBVIOUS
<1>3. reader = "header" /\ taken + 2 <= Len(wire) /\ read' = read
    BY DEF readIPCPHeader, HeaderLength
<1>4. /\ \A k \in 1..m : Whole(pk, off, k)
      /\ \A k \in 1..r : read[k] = Datagram(pk[k])
      /\ r <= m /\ taken = off[r + 1]
    <2>1. "payload" # "header"
        OBVIOUS
    <2> QED
        BY <1>1, <1>2, <1>3, <2>1, Zenon DEF InStep, AtPayload
<1>5. m \in Nat /\ r \in Nat /\ off[m + 1] = Len(wire) /\ Len(wire) \in Nat
    BY <1>1, <1>2 DEF Framed
<1>6. r # m
    BY <1>3, <1>4, <1>5
<1>7. PICK k : k = r + 1
    OBVIOUS
<1>8. k \in 1..m /\ r < m /\ k \in 1..Len(pk)
    BY <1>2, <1>4, <1>5, <1>6, <1>7
<1>9. pk[k] \in Packets /\ off[k] \in Nat /\ off[k + 1] \in Nat
    BY <1>8, FrameAt
<1>10. FrameLength(pk[k]) \in Nat /\ FrameLength(pk[k]) >= 2
    BY <1>9, FrameIs
<1>11. off[k] + 2 <= off[k + 1]
    BY <1>4, <1>8, <1>9, <1>10 DEF Whole
<1>12. AtPayload(pk, off, k)' /\ want' \in 0..MaximumPayload
    BY <1>4, <1>7, <1>8, <1>11, ReadsHeader, Zenon
<1>13. /\ Len(read)' = r
    BY <1>1, <1>3
<1> QED
    BY <1>2, <1>3, <1>4, <1>7, <1>8, <1>12, <1>13, Zenon DEF InStep, Whole

(* Whoever else moves, the other end stays where it is. *)
LEMMA ReaderStays ==
    ASSUME NEW pk, NEW off, UNCHANGED other
    PROVE  /\ InStep(pk, off) => InStep(pk, off)'
           /\ \A c : Cut(pk, off, c) => Cut(pk, off, c)'
<1>1. reader' = reader /\ taken' = taken /\ want' = want /\ read' = read
    BY DEF other
<1>2. InStep(pk, off) => InStep(pk, off)'
    BY <1>1 DEF InStep, AtPayload, Whole
<1>3. ASSUME NEW c, Cut(pk, off, c) PROVE Cut(pk, off, c)'
    BY <1>1, <1>3 DEF Cut, AtPayload, Whole
<1> QED
    BY <1>2, <1>3

LEMMA ParsedNext ==
    ASSUME NEW w, NEW s, NEW t, NEW a, Parsed(w, s, t, a), UNCHANGED other,
           wire' = w, sent' = s, torn' = t, after' = a
    PROVE  Parsed(wire, sent, torn, after)'
<1>1. PICK pk, off :
          /\ Framed(pk, off, w)
          /\ ~t => pk = s /\ InStep(pk, off)
          /\ t => \E c : Cut(pk, off, c) /\ (a = 0 => Len(pk) = c)
    BY Zenon DEF Parsed
<1>2. ~t => pk = s /\ InStep(pk, off)'
    BY <1>1, ReaderStays, Zenon
<1>3. t => \E c : Cut(pk, off, c)' /\ (a = 0 => Len(pk) = c)
    BY <1>1, ReaderStays, Zenon
<1> QED
    BY <1>1, <1>2, <1>3, Zenon DEF Parsed

LEMMA CutMoves ==
    ASSUME NEW pk, NEW off, NEW c, c \in 1..Len(pk), Len(pk) <= c + 2, ~Whole(pk, off, c),
           \A k \in 1..(Len(pk) - 1) : k # c => Whole(pk, off, k), read' = read,
           reader' = "failed" \/ \E k \in 1..Len(pk) : AtPayload(pk, off, k)',
           \/ \A i \in 1..Len(read) : \E p \in Packets : read[i] = Datagram(p)
           \/ /\ taken' > off[c + 1]
              /\ \E b \in 1..Len(read) : \A i \in 1..Len(read) \ {b} :
                     \E p \in Packets : read[i] = Datagram(p)
    PROVE  Cut(pk, off, c)'
BY DEF Cut, Whole

LEMMA WirePreserved == ControlInv /\ WireInv /\ [Next]_vars => WireInv'
<1> SUFFICES ASSUME ControlInv, WireInv, [Next]_vars PROVE WireInv'
    OBVIOUS
<1>1. /\ wire \in Seq(Cell) /\ sent \in Seq(Packets) /\ \E S : read \in Seq(S)
      /\ reader \in {"header", "payload", "failed"}
      /\ want \in 0..MaximumPayload /\ taken \in 0..Len(wire)
      /\ Parsed(wire, sent, torn, after)
    BY Zenon DEF WireInv
<1>2. Len(read) \in Nat /\ Len(wire) \in Nat /\ taken \in Nat
    <2>1. Len(read) \in Nat
        <3>1. Grown(read, read)
            BY <1>1, OneMore, Zenon
        <3> QED
            BY <3>1 DEF Grown
    <2>2. Len(wire) \in Nat
        BY <1>1
    <2> QED
        BY <1>1, <2>1, <2>2
<1>3. ASSUME UNCHANGED stream, UNCHANGED other PROVE WireInv'
    <2>1. wire' = wire /\ sent' = sent /\ torn' = torn /\ after' = after
        BY <1>3 DEF stream
    <2>2. reader' = reader /\ taken' = taken /\ want' = want /\ read' = read
        BY <1>3 DEF other
    <2>3. Parsed(wire, sent, torn, after)'
        BY <1>1, <1>3, <2>1, ParsedNext, Zenon
    <2> QED
        BY <1>1, <2>1, <2>2, <2>3, Zenon DEF WireInv
<1>4. ASSUME NEW w \in Writers, pc[w] = "sending", WriteBegun
      PROVE  /\ frames \in Seq(Packets) /\ Len(frames) \in {1, 2} /\ torn \in BOOLEAN
             /\ torn => after = 0
             /\ after' = IF torn THEN 1 ELSE after
    BY <1>4 DEF ControlInv, Beyond, Labels, Writers, WriteBegun
<1>5. ASSUME NEW n \in 0..Len(Cells(frames)), frames \in Seq(Packets), Len(frames) \in {1, 2}
      PROVE  Len(wire) <= Len(wire \o SubSeq(Cells(frames), 1, n))
    <2>1. PICK t : t = SubSeq(Cells(frames), 1, n)
        OBVIOUS
    <2>2. t \in Seq(Cell)
        BY <1>5, <2>1, CellsAre
    <2>3. Len(wire \o t) = Len(wire) + Len(t) /\ Len(t) \in Nat
        BY <1>1, <2>2
    <2>4. Len(wire) <= Len(wire \o t)
        BY <1>2, <2>3
    <2> QED
        BY <2>1, <2>4, Zenon
<1>6. ASSUME NEW w2, NEW s2 \in Seq(Packets), NEW t2, NEW a2, Parsed(w2, s2, t2, a2),
             w2 \in Seq(Cell), Len(wire) <= Len(w2), UNCHANGED other,
             wire' = w2, sent' = s2, torn' = t2, after' = a2
      PROVE  WireInv'
    <2>1. Parsed(wire, sent, torn, after)'
        BY <1>6, ParsedNext, Zenon
    <2>2. reader' = reader /\ taken' = taken /\ want' = want /\ read' = read
        BY <1>6 DEF other
    <2>3. taken \in 0..Len(w2)
        <3>1. Len(w2) \in Nat
            BY <1>6
        <3> QED
            BY <1>1, <1>2, <1>6, <3>1
    <2> QED
        BY <1>1, <1>6, <2>1, <2>2, <2>3, Zenon DEF WireInv
<1>7. ASSUME NEW w \in Writers, WriteEnds(w) PROVE WireInv'
    <2>1. /\ pc[w] = "sending" /\ wire' = wire \o Cells(frames) /\ sent' = sent \o frames
          /\ WriteBegun /\ torn' = torn /\ UNCHANGED other
        BY <1>7 DEF WriteEnds
    <2>2. /\ frames \in Seq(Packets) /\ Len(frames) \in {1, 2} /\ torn \in BOOLEAN
          /\ torn => after = 0
          /\ after' = IF torn THEN 1 ELSE after
        BY <1>4, <2>1, Zenon
    <2>3. PICK n : n = Len(Cells(frames))
        OBVIOUS
    <2>4. Cells(frames) \in Seq(Cell)
        BY <2>2, CellsAre
    <2>5. n \in 0..Len(Cells(frames)) /\ SubSeq(Cells(frames), 1, n) = Cells(frames)
        BY <2>3, <2>4, SubSeqFull
    <2>6. PICK w2, s2 : w2 = wire \o SubSeq(Cells(frames), 1, n) /\ s2 = sent \o frames
        OBVIOUS
    <2>7. w2 \in Seq(Cell) /\ Parsed(w2, sent \o frames, torn, IF torn THEN 1 ELSE after)
        <3>1. Writing(wire, sent, torn, after, frames, n, w2)
            BY <1>1, <1>2, <2>2, <2>5, <2>6, Zenon DEF Writing
        <3> QED
            BY <2>3, <3>1, Written, Zenon
    <2>8. s2 \in Seq(Packets)
        BY <1>1, <2>2, <2>6, SentIs, Zenon
    <2>9. Len(wire) <= Len(w2)
        BY <1>5, <2>2, <2>5, <2>6, Zenon
    <2> QED
        BY <1>6, <2>1, <2>2, <2>5, <2>6, <2>7, <2>8, <2>9, Zenon
<1>8. ASSUME NEW w \in Writers, WriteFails(w) PROVE WireInv'
    <2>1. /\ pc[w] = "sending" /\ sent' = sent /\ WriteBegun /\ torn' = TRUE
          /\ UNCHANGED other
        BY <1>8 DEF WriteFails
    <2>2. /\ frames \in Seq(Packets) /\ Len(frames) \in {1, 2} /\ torn \in BOOLEAN
          /\ torn => after = 0
          /\ after' = IF torn THEN 1 ELSE after
        BY <1>4, <2>1, Zenon
    <2>3. PICK n \in 0..(Len(Cells(frames)) - 1) :
              wire' = wire \o SubSeq(Cells(frames), 1, n)
        BY <1>8, Zenon DEF WriteFails
    <2>4. Cells(frames) \in Seq(Cell)
        BY <2>2, CellsAre
    <2>5. n \in 0..Len(Cells(frames)) /\ n # Len(Cells(frames))
        BY <2>4
    <2>6. PICK w2 : w2 = wire \o SubSeq(Cells(frames), 1, n)
        OBVIOUS
    <2>7. w2 \in Seq(Cell) /\ Parsed(w2, sent, TRUE, IF torn THEN 1 ELSE after)
        <3>1. Writing(wire, sent, torn, after, frames, n, w2)
            BY <1>1, <1>2, <2>2, <2>5, <2>6, Zenon DEF Writing
        <3> QED
            BY <2>5, <3>1, Written, Zenon
    <2>8. Len(wire) <= Len(w2)
        BY <1>5, <2>2, <2>5, <2>6, Zenon
    <2> QED
        BY <1>1, <1>6, <2>1, <2>2, <2>3, <2>6, <2>7, <2>8, Zenon
<1>9. PICK pk, off :
          /\ Framed(pk, off, wire)
          /\ ~torn => pk = sent /\ InStep(pk, off)
          /\ torn => \E c : Cut(pk, off, c) /\ (after = 0 => Len(pk) = c)
    BY <1>1, Zenon DEF Parsed
<1>10. ASSUME UNCHANGED stream, ~torn => InStep(pk, off)',
              \A c : torn /\ Cut(pk, off, c) => Cut(pk, off, c)',
              \E S : read' \in Seq(S), reader' \in {"header", "payload", "failed"},
              want' \in 0..MaximumPayload, taken' \in 0..Len(wire)
       PROVE  WireInv'
    <2>1. wire' = wire /\ sent' = sent /\ torn' = torn /\ after' = after
        BY <1>10 DEF stream
    <2>2. ~torn => pk = sent /\ InStep(pk, off)'
        BY <1>9, <1>10, Zenon
    <2>3. torn => \E c : Cut(pk, off, c)' /\ (after = 0 => Len(pk) = c)
        BY <1>9, <1>10, Zenon
    <2>4. Parsed(wire, sent, torn, after)'
        BY <1>9, <2>1, <2>2, <2>3, Zenon DEF Parsed
    <2> QED
        BY <1>1, <1>10, <2>1, <2>4, Zenon DEF WireInv
<1>11. CASE readIPCPHeader
    <2>1. /\ UNCHANGED stream /\ read' = read /\ taken' = taken + 2 /\ taken + 2 <= Len(wire)
          /\ reader' \in {"header", "payload", "failed"} /\ reader = "header"
        BY <1>11 DEF readIPCPHeader, HeaderLength
    <2>2. taken' \in 0..Len(wire)
        BY <1>2, <2>1
    <2>3. CASE ~torn
        BY <1>1, <1>2, <1>9, <1>10, <1>11, <2>1, <2>2, <2>3, InStepHeader, Zenon
    <2>4. CASE torn
        <3>1. ASSUME NEW c, Cut(pk, off, c)
              PROVE  Cut(pk, off, c)' /\ want' \in 0..MaximumPayload
            <4>1. \/ \E k \in 1..Len(pk) : AtPayload(pk, off, k)' /\ want' \in 0..MaximumPayload
                  \/ reader' = "failed" /\ want' = want
                BY <1>1, <1>2, <1>9, <1>11, <3>1, CutHeader, Zenon
            <4>2. /\ c \in 1..Len(pk) /\ Len(pk) <= c + 2 /\ ~Whole(pk, off, c)
                  /\ \A l \in 1..(Len(pk) - 1) : l # c => Whole(pk, off, l)
                BY <3>1, Zenon DEF Cut
            <4>3. taken > off[c + 1] => taken' > off[c + 1]
                <5>1. off[c + 1] \in Nat
                    BY <1>1, <1>9, <4>2, FrameAt
                <5> QED
                    BY <1>2, <2>1, <5>1
            <4>4. \/ \A i \in 1..Len(read) : \E p \in Packets : read[i] = Datagram(p)
                  \/ /\ taken' > off[c + 1]
                     /\ \E b \in 1..Len(read) : \A i \in 1..Len(read) \ {b} :
                            \E p \in Packets : read[i] = Datagram(p)
                BY <3>1, <4>3, Zenon DEF Cut
            <4>5. Cut(pk, off, c)'
                BY <2>1, <4>1, <4>2, <4>4, CutMoves, Zenon
            <4> QED
                BY <1>1, <4>1, <4>5, Zenon
        <3> QED
            BY <1>1, <1>9, <1>10, <2>1, <2>2, <2>4, <3>1, Zenon
    <2> QED
        BY <2>3, <2>4
<1>12. CASE readDataPacket
    <2>1. /\ UNCHANGED stream /\ taken' = taken + want /\ taken + want <= Len(wire)
          /\ reader' = "header" /\ want' = 0
          /\ read' = Append(read, apply(SubSeq(wire, taken + 1, taken + want)))
        BY <1>12 DEF readDataPacket
    <2>2. /\ taken' \in 0..Len(wire) /\ want' \in 0..MaximumPayload
          /\ reader' \in {"header", "payload", "failed"}
        BY <1>1, <1>2, <2>1, StreamAssumption
    <2>3. \E S : read' \in Seq(S)
        <3>1. Grown(read, apply(SubSeq(wire, taken + 1, taken + want)))
            BY <1>1, OneMore, Zenon
        <3> QED
            BY <2>1, <3>1, Zenon DEF Grown
    <2>4. ~torn => InStep(pk, off)'
        BY <1>1, <1>9, <1>12, InStepPayload, Zenon
    <2>5. \A c : torn /\ Cut(pk, off, c) => Cut(pk, off, c)'
        BY <1>1, <1>9, <1>12, CutPayload, Zenon
    <2> QED
        BY <1>10, <2>1, <2>2, <2>3, <2>4, <2>5, Zenon
<1>13. ASSUME NEW w \in Writers,
              WriteDataPacketBuffers(w) \/ ChecksReady(w) \/ LocksAndFrames(w)
       PROVE  WireInv'
    BY <1>3, <1>13, Zenon DEF WriteDataPacketBuffers, ChecksReady, LocksAndFrames
<1>14. CASE Fail \/ UNCHANGED vars
    BY <1>3, <1>14, Zenon DEF Fail, vars
<1> QED
    BY <1>7, <1>8, <1>11, <1>12, <1>13, <1>14, NextCases, Zenon

LEMMA InitHolds == Init => StreamInv
<1> SUFFICES ASSUME Init PROVE StreamInv
    OBVIOUS
<1>1. ControlInv
    <2>1. ready \in BOOLEAN /\ torn \in BOOLEAN /\ ~torn
        BY Zenon DEF Init
    <2>2. pc \in [Writers -> Labels] /\ pc["writer"] = "idle" /\ pc["probe"] = "idle"
        BY DEF Init, Labels, Writers
    <2>3. frames \in Seq(Packets) /\ Len(frames) = 0 /\ after = 0
        BY DEF Init
    <2> QED
        BY <2>1, <2>2, <2>3 DEF ControlInv, Beyond, Writers
<1>2. BufferInv
    BY DEF Init, BufferInv, HasCopy, Writers, Buffers
<1>3. WireInv
    <2>1. /\ wire = <<>> /\ sent = <<>> /\ read = <<>> /\ torn = FALSE
          /\ reader = "header" /\ want = 0 /\ taken = 0
        BY DEF Init
    <2>2. PICK off : off = <<0>>
        OBVIOUS
    <2>3. off \in Seq(Nat) /\ Len(off) = 1 /\ off[1] = 0
        BY <2>2
    <2>4. /\ wire \in Seq(Cell) /\ sent \in Seq(Packets) /\ read \in Seq(Cell)
          /\ Len(wire) = 0 /\ Len(sent) = 0 /\ Len(read) = 0
        BY <2>1
    <2>5. Framed(sent, off, wire)
        BY <2>3, <2>4 DEF Framed
    <2>6. InStep(sent, off)
        BY <2>1, <2>3, <2>4 DEF InStep
    <2>7. Parsed(wire, sent, torn, after)
        BY <2>1, <2>5, <2>6, Zenon DEF Parsed
    <2>8. taken \in 0..Len(wire) /\ want \in 0..MaximumPayload
        BY <2>1, <2>4, StreamAssumption
    <2> QED
        BY <2>1, <2>4, <2>7, <2>8, Zenon DEF WireInv
<1> QED
    BY <1>1, <1>2, <1>3 DEF StreamInv

LEMMA StreamInductive == StreamInv /\ [Next]_vars => StreamInv'
BY ControlPreserved, BuffersPreserved, WirePreserved, Zenon DEF StreamInv

LEMMA StreamInvariant == Spec => []StreamInv
BY InitHolds, StreamInductive, PTL DEF Spec

LEMMA SamePrefix ==
    ASSUME NEW s, NEW t, NEW n \in Nat, \A i \in 1..n : s[i] = t[i]
    PROVE  SubSeq(s, 1, n) = SubSeq(t, 1, n)
<1>1. PICK S : S = {s[i] : i \in 1..n}
    OBVIOUS
<1>2. \A i \in 1..n : s[i] \in S /\ t[i] \in S
    BY <1>1
<1>3. ASSUME NEW u, \A i \in 1..n : u[i] \in S
      PROVE  /\ SubSeq(u, 1, n) \in Seq(S) /\ Len(SubSeq(u, 1, n)) = n
             /\ \A i \in 1..n : SubSeq(u, 1, n)[i] = u[i]
    <2>1. /\ SubSeq(u, 1, n) \in Seq(S)
          /\ Len(SubSeq(u, 1, n)) = IF 1 <= n THEN n - 1 + 1 ELSE 0
          /\ \A i \in 1..(n - 1 + 1) : SubSeq(u, 1, n)[i] = u[1 + i - 1]
        BY <1>3, SubSeqProperties
    <2>2. PICK v : v = SubSeq(u, 1, n)
        OBVIOUS
    <2>3. /\ v \in Seq(S) /\ Len(v) = IF 1 <= n THEN n - 1 + 1 ELSE 0
          /\ \A i \in 1..(n - 1 + 1) : v[i] = u[1 + i - 1]
        BY <2>1, <2>2, Zenon
    <2>4. Len(v) = n /\ \A i \in 1..n : v[i] = u[i]
        BY <2>3
    <2> QED
        BY <2>2, <2>3, <2>4, Zenon
<1>4. PICK a, b : a = SubSeq(s, 1, n) /\ b = SubSeq(t, 1, n)
    OBVIOUS
<1>5. /\ a \in Seq(S) /\ Len(a) = n /\ \A i \in 1..n : a[i] = s[i]
      /\ b \in Seq(S) /\ Len(b) = n /\ \A i \in 1..n : b[i] = t[i]
    BY <1>2, <1>3, <1>4, Zenon
<1>6. a = b
    BY <1>5, SeqEqual
<1> QED
    BY <1>4, <1>6, Zenon
-----------------------------------------------------------------------------
(* The model stays within its types, and the mutex of                      *)
(* WriteDataPacketBuffers lets one caller write at a time.                 *)
THEOREM UploadTypeCorrect == Spec => []TypeOK
<1>1. StreamInv => TypeOK
    <2> SUFFICES ASSUME StreamInv PROVE TypeOK
        OBVIOUS
    <2>1. Cardinality(Sending) <= 1
        <3>1. Sending = {} \/ Sending = {"writer"} \/ Sending = {"probe"}
            BY DEF StreamInv, ControlInv, Sending, Writers
        <3>2. CASE Sending = {}
            BY <3>2, FS_EmptySet
        <3>3. CASE Sending = {"writer"}
            <4>1. Cardinality({"writer"}) = 1
                BY FS_Singleton
            <4> QED
                BY <3>3, <4>1
        <3>4. CASE Sending = {"probe"}
            <4>1. Cardinality({"probe"}) = 1
                BY FS_Singleton
            <4> QED
                BY <3>4, <4>1
        <3> QED
            BY <3>1, <3>2, <3>3, <3>4
    <2>2. frames # <<>> => Sending # {}
        <3>1. frames # <<>> => Len(frames) # 0
            BY DEF StreamInv, ControlInv
        <3> QED
            BY <3>1 DEF StreamInv, ControlInv, Sending
    <2>3. /\ ready \in BOOLEAN /\ torn \in BOOLEAN
          /\ pc \in [Writers -> {"idle", "check", "lock", "sending"}]
          /\ after \in Nat
        BY DEF StreamInv, ControlInv, Labels
    <2>4. /\ slots \in [Writers -> Seq(Buffers)] /\ fresh \subseteq Packets
          /\ framed \subseteq Packets /\ released \in [Buffers -> 0..2]
        BY Zenon DEF StreamInv, BufferInv
    <2>5. /\ reader \in {"header", "payload", "failed"}
          /\ want \in 0..MaximumPayload /\ taken \in 0..Len(wire)
        BY Zenon DEF StreamInv, WireInv
    <2> QED
        BY <2>1, <2>2, <2>3, <2>4, <2>5, Zenon DEF TypeOK
<1> QED
    BY <1>1, StreamInvariant, PTL

(* While no write has failed, whatever the lengths of the datagrams and    *)
(* with or without an encoding: the other end never refuses a header, and  *)
(* what it has read is what was sent, in the order of the writes.          *)
THEOREM UploadIsReadBack == Spec => []ReadsWhatWasSent
<1>1. StreamInv => ReadsWhatWasSent
    <2> SUFFICES ASSUME StreamInv, ~torn
                 PROVE  reader # "failed"
                        /\ IsPrefix(read, [i \in DOMAIN sent |-> Datagram(sent[i])])
        BY Zenon DEF ReadsWhatWasSent
    <2>1. sent \in Seq(Packets) /\ \E S : read \in Seq(S)
        BY Zenon DEF StreamInv, WireInv
    <2>2. PICK off : InStep(sent, off)
        BY Zenon DEF StreamInv, WireInv, Parsed
    <2>3. reader # "failed"
        BY <2>2 DEF InStep, AtPayload
    <2>4. PICK t : t = [i \in DOMAIN sent |-> Datagram(sent[i])]
        OBVIOUS
    <2>5. PICK S : read \in Seq(S)
        BY <2>1
    <2>6. DOMAIN sent = 1..Len(sent) /\ Len(sent) \in Nat
        BY <2>1
    <2>7. /\ DOMAIN t = 1..Len(sent) /\ Len(t) = Len(sent)
          /\ \A i \in 1..Len(sent) : t[i] = Datagram(sent[i])
        BY <2>4, <2>6
    <2>8. Len(read) \in Nat /\ DOMAIN read = 1..Len(read)
        BY <2>5
    <2>9. Len(read) <= Len(sent) /\ \A k \in 1..Len(read) : read[k] = Datagram(sent[k])
        BY <2>2 DEF InStep
    <2>10. \A i \in 1..Len(read) : read[i] = t[i]
        BY <2>6, <2>7, <2>8, <2>9
    <2>11. SubSeq(read, 1, Len(read)) = SubSeq(t, 1, Len(read))
        BY <2>8, <2>10, SamePrefix, Zenon
    <2> QED
        BY <2>3, <2>4, <2>7, <2>9, <2>11, Zenon DEF IsPrefix
<1> QED
    BY <1>1, StreamInvariant, PTL

(* A failed write takes the ready flag before it gives the mutex back, so  *)
(* one more batch may follow it and no second one; and at most one         *)
(* datagram the other end makes out was never sent.                        *)
THEOREM UploadTearIsContained == Spec => []TearIsContained
<1>1. StreamInv => TearIsContained
    <2> SUFFICES ASSUME StreamInv PROVE TearIsContained
        OBVIOUS
    <2>1. after <= 1
        BY DEF StreamInv, ControlInv
    <2> DEFINE misread == {i \in DOMAIN read : \A p \in Packets : read[i] # Datagram(p)}
    <2>2. DOMAIN read = 1..Len(read)
        <3>1. PICK S : read \in Seq(S)
            BY Zenon DEF StreamInv, WireInv
        <3> QED
            BY <3>1
    <2>3. \/ \A i \in 1..Len(read) : \E p \in Packets : read[i] = Datagram(p)
          \/ \E b \in 1..Len(read) : \A i \in 1..Len(read) \ {b} :
                 \E p \in Packets : read[i] = Datagram(p)
        <3>1. PICK pk, off :
                  /\ Framed(pk, off, wire)
                  /\ ~torn => pk = sent /\ InStep(pk, off)
                  /\ torn => \E c : Cut(pk, off, c) /\ (after = 0 => Len(pk) = c)
            BY Zenon DEF StreamInv, WireInv, Parsed
        <3>2. CASE torn
            <4>1. PICK c : Cut(pk, off, c)
                BY <3>1, <3>2, Zenon
            <4> QED
                BY <4>1, Zenon DEF Cut
        <3>3. CASE ~torn
            <4>1. InStep(pk, off) /\ pk \in Seq(Packets)
                BY <3>1, <3>3, Zenon DEF Framed
            <4>2. ASSUME NEW i \in 1..Len(read)
                  PROVE  pk[i] \in Packets /\ read[i] = Datagram(pk[i])
                <5>1. read[i] = Datagram(pk[i]) /\ Len(read) <= Len(pk)
                    BY <4>1, Zenon DEF InStep
                <5>2. Len(read) \in Nat /\ Len(pk) \in Nat
                    <6>1. PICK S : read \in Seq(S)
                        BY Zenon DEF StreamInv, WireInv
                    <6> QED
                        BY <4>1, <6>1
                <5>3. i \in 1..Len(pk)
                    BY <5>1, <5>2
                <5> QED
                    BY <4>1, <5>1, <5>3, ElementOfSeq
            <4> QED
                BY <4>2, Zenon
        <3> QED
            BY <3>2, <3>3, Zenon
    <2>4. misread = {} \/ \E b : misread = {b}
        BY <2>2, <2>3
    <2> HIDE DEF misread
    <2>5. Cardinality(misread) <= 1
        <3>1. CASE misread = {}
            BY <3>1, FS_EmptySet
        <3>2. ASSUME NEW b, misread = {b} PROVE Cardinality(misread) <= 1
            <4>1. Cardinality({b}) = 1
                BY FS_Singleton
            <4> QED
                BY <3>2, <4>1
        <3> QED
            BY <2>4, <3>1, <3>2
    <2> QED
        BY <2>1, <2>5, Zenon DEF TearIsContained, misread
<1> QED
    BY <1>1, StreamInvariant, PTL

(* Every buffer handed to WriteDataPacketBuffers is still in a caller's    *)
(* slice or has been released once, whichever way the call returns; and so *)
(* has the copy requireHeadroom made of a framed datagram without          *)
(* headroom, while nothing was released of a copy nobody made.             *)
THEOREM UploadBuffersReleasedOnce == Spec => []FramedBuffersReleasedOnce
<1>1. StreamInv => FramedBuffersReleasedOnce
    <2> SUFFICES ASSUME StreamInv, NEW p \in Packets \ fresh
                 PROVE  \/ \E w \in Writers, b \in Buffers : b[1] = p /\ b \in ToSet(slots[w])
                        \/ /\ released[<<p, "own">>] = 1
                           /\ released[<<p, "copy">>] = IF p \in framed \cap Cramped
                                                        THEN 1 ELSE 0
        BY Zenon DEF FramedBuffersReleasedOnce
    <2>1. InSlot(p) \/ Done(p)
        BY Zenon DEF StreamInv, BufferInv
    <2>2. CASE InSlot(p)
        <3>0. PICK w \in Writers : \E i \in 1..Len(slots[w]) : slots[w][i][1] = p
            BY <2>2, Zenon DEF InSlot
        <3>1. PICK i \in 1..Len(slots[w]) : slots[w][i][1] = p
            BY <3>0
        <3>2. slots[w] \in Seq(Buffers)
            BY DEF StreamInv, BufferInv
        <3>3. PICK b : b = slots[w][i]
            OBVIOUS
        <3>4. b \in Buffers /\ b[1] = p
            BY <3>1, <3>2, <3>3, ElementOfSeq
        <3>5. b \in ToSet(slots[w])
            BY <3>2, <3>3 DEF ToSet
        <3> QED
            BY <3>4, <3>5, Zenon
    <2>3. CASE Done(p)
        BY <2>3 DEF Done, HasCopy
    <2> QED
        BY <2>1, <2>2, <2>3
<1> QED
    BY <1>1, StreamInvariant, PTL
=============================================================================
