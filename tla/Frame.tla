-------------------------------- MODULE Frame --------------------------------
(***************************************************************************)
(* The codec of ipc/frame.rs over one direction of a stream socket:        *)
(* write_frame_bytes() at one end, read_frame_bytes() at the other, byte   *)
(* by byte.  write(2) takes and read(2) returns any part of what is asked  *)
(* for; either may fail; the writer may close or die inside a frame.       *)
(*                                                                         *)
(* The length has HeaderLen digits of base Radix, least significant first  *)
(* (4 and 256 in the code), so that lengths beyond the header are in reach *)
(* of small instances.  Nothing is assumed of the two ends' limits.        *)
(***************************************************************************)
EXTENDS Naturals, Sequences

CONSTANTS Radix, HeaderLen,
          Limits,    \* values of max_frame to look at
          Payloads,  \* the payloads that are written
          Buffer,    \* bytes the socket holds
          MaxWrites  \* bound: calls of write_frame_bytes()

ASSUME ConstAssumption ==
  /\ Radix \in Nat \ {0, 1} /\ HeaderLen \in Nat \ {0}
  /\ Limits \subseteq Nat
  /\ Payloads \subseteq Seq(0 .. Radix - 1)
  /\ Buffer \in Nat \ {0} /\ MaxWrites \in Nat

VARIABLES wmax, rmax,  \* max_frame of the writer and of the reader (rigid)
          cur,     \* the payload of the last write
          out,     \* what write_all() has still to write of its frame
          cut,     \* a frame was left unfinished
          writes,  \* calls of write_frame_bytes() so far
          closed,  \* the writer's end is closed
          wire,    \* bytes in the socket
          part,    \* read_exact() of the "header" or of the "body"
          need,    \* buf.len() there
          buf,     \* what it has filled
          rend,    \* the error the reader stopped with, or "no"
          sent, got, broken  \* history, as in Messages

writer == <<cur, out, cut, writes, closed>>
reader == <<part, need, buf, rend>>
vars == <<wmax, rmax, writer, wire, reader, sent, got, broken>>

Link == INSTANCE Messages

-----------------------------------------------------------------------------
\* Mutant: the digits are read most significant first.
FromBE(header) ==
  LET n[i \in 0 .. HeaderLen] ==
        IF i = 0 THEN 0 ELSE Radix * n[i - 1] + header[i]
  IN  n[HeaderLen]

\* u32::from_le_bytes(): n[i] is what the last i digits say
FromLE(header) ==
  LET n[i \in 0 .. HeaderLen] ==
        IF i = 0 THEN 0 ELSE Radix * n[i - 1] + header[HeaderLen + 1 - i]
  IN  n[HeaderLen]

\* u32::MAX, the most a header can say
HeaderMax == FromLE([i \in 1 .. HeaderLen |-> Radix - 1])

\* u32::try_from(len).unwrap_or(u32::MAX).to_le_bytes(): rest[i] is what
\* remains of the length after i digits
ToLE(len) ==
  LET rest[i \in 0 .. HeaderLen] ==
        IF i > 0 THEN rest[i - 1] \div Radix
        ELSE IF len > HeaderMax THEN HeaderMax ELSE len
  IN  [i \in 1 .. HeaderLen |-> rest[i - 1] % Radix]

FrameOf(payload) == ToLE(Len(payload)) \o payload

\* Some of the current frame is written and some is not.
Inside == out # <<>> /\ out # FrameOf(cur)

Init ==
  /\ wmax \in Limits /\ rmax \in Limits
  /\ cur = <<>> /\ out = <<>> /\ cut = FALSE /\ writes = 0 /\ closed = FALSE
  /\ wire = <<>>
  /\ part = "header" /\ need = HeaderLen /\ buf = <<>> /\ rend = "no"
  /\ sent = <<>> /\ got = <<>> /\ broken = FALSE

\* ------------------------------- the writer -------------------------------
\* Mutant: the limit is one too high.
WriteOffByOne(payload) ==
  /\ ~closed /\ out = <<>>
  /\ writes < MaxWrites /\ writes' = writes + 1
  /\ Len(payload) <= wmax + 1
  /\ cur' = payload /\ out' = FrameOf(payload)
  /\ broken' = (broken \/ cut \/ Len(payload) > HeaderMax)
  /\ UNCHANGED <<wmax, rmax, cut, closed, wire, reader, sent, got>>

\* write_frame_bytes(): beyond the limit it returns TooLarge and writes
\* nothing.  The framing is lost by a payload longer than a header can say,
\* and by any frame after an unfinished one.
Write(payload) ==
  /\ ~closed /\ out = <<>>
  /\ writes < MaxWrites /\ writes' = writes + 1
  /\ Len(payload) <= wmax
  /\ cur' = payload /\ out' = FrameOf(payload)
  /\ broken' = (broken \/ cut \/ Len(payload) > HeaderMax)
  /\ UNCHANGED <<wmax, rmax, cut, closed, wire, reader, sent, got>>

\* one write(2) of write_all(header) or, after that, of write_all(payload)
Push(n) ==
  /\ ~closed /\ out # <<>>
  /\ n <= IF Len(out) > Len(cur) THEN Len(out) - Len(cur) ELSE Len(out)
  /\ Len(wire) + n <= Buffer
  /\ wire' = wire \o SubSeq(out, 1, n)
  /\ out' = SubSeq(out, n + 1, Len(out))
  /\ sent' = IF n = Len(out) /\ ~broken THEN Append(sent, cur) ELSE sent
  /\ UNCHANGED <<wmax, rmax, cur, cut, writes, closed, reader, got, broken>>

\* write(2) fails: the rest of the frame is never written, and the caller
\* may write on, as dispatch_one() does with hooks.error()
PushFails ==
  /\ ~closed /\ out # <<>>
  /\ out' = <<>>
  /\ cut' = (cut \/ Inside)
  /\ UNCHANGED <<wmax, rmax, cur, writes, closed, wire, reader, sent, got, broken>>

\* the writer drops the stream, or dies at any point of a frame
Close ==
  /\ ~closed
  /\ closed' = TRUE
  /\ out' = <<>>
  /\ cut' = (cut \/ Inside)
  /\ UNCHANGED <<wmax, rmax, cur, writes, wire, reader, sent, got, broken>>

\* ------------------------------- the reader -------------------------------
Expect(p, n) == part' = p /\ need' = n /\ buf' = <<>>

\* The frame is complete.  Once the framing is lost, payloads that were
\* never sent are not recorded.
Deliver(payload) ==
  /\ got' = IF broken /\ Len(got) = Len(sent) THEN got ELSE Append(got, payload)
  /\ Expect("header", HeaderLen)
  /\ UNCHANGED rend

\* Mutant: a payload of no bytes is read like any other.
HeaderDoneReads(header) ==
  IF FromLE(header) > rmax
  THEN rend' = "too_large" /\ Expect("header", HeaderLen) /\ UNCHANGED got
  ELSE Expect("body", FromLE(header)) /\ UNCHANGED <<rend, got>>

\* the header is complete: the limit, then the payload (of no bytes, read
\* without a read(2))
HeaderDone(header) ==
  LET len == FromLE(header)
  IN  CASE len > rmax -> /\ rend' = "too_large"
                         /\ Expect("header", HeaderLen)
                         /\ UNCHANGED got
        [] len <= rmax /\ len = 0 -> Deliver(<<>>)
        [] len <= rmax /\ len > 0 -> Expect("body", len) /\ UNCHANGED <<rend, got>>

Taken(n) == buf \o SubSeq(wire, 1, n)

\* Mutant: read(2) is given the whole of buf, not what is left of it.
PullOver(n) ==
  /\ rend = "no" /\ n <= Len(wire)
  /\ wire' = SubSeq(wire, n + 1, Len(wire))
  /\ CASE Len(buf) + n # need -> buf' = Taken(n) /\ UNCHANGED <<part, need, rend, got>>
       [] Len(buf) + n = need /\ part = "header" -> HeaderDone(Taken(n))
       [] Len(buf) + n = need /\ part = "body"   -> Deliver(Taken(n))
  /\ UNCHANGED <<wmax, rmax, writer, sent, broken>>

\* one read(2) of read_exact(), which returns n bytes, n > 0
Pull(n) ==
  /\ rend = "no" /\ n <= need - Len(buf) /\ n <= Len(wire)
  /\ wire' = SubSeq(wire, n + 1, Len(wire))
  /\ CASE Len(buf) + n < need -> buf' = Taken(n) /\ UNCHANGED <<part, need, rend, got>>
       [] Len(buf) + n = need /\ part = "header" -> HeaderDone(Taken(n))
       [] Len(buf) + n = need /\ part = "body"   -> Deliver(Taken(n))
  /\ UNCHANGED <<wmax, rmax, writer, sent, broken>>

\* Mutant: UnexpectedEof always says that nothing had been read.
PullEndForgets ==
  /\ rend = "no" /\ closed /\ wire = <<>>
  /\ rend' = "eof"
  /\ Expect("header", HeaderLen)
  /\ UNCHANGED <<wmax, rmax, writer, wire, sent, got, broken>>

\* read(2) returns 0: UnexpectedEof with what has been read and was needed
PullEnd ==
  /\ rend = "no" /\ closed /\ wire = <<>>
  /\ rend' = "eof"
  /\ UNCHANGED <<wmax, rmax, writer, wire, part, need, buf, sent, got, broken>>

\* read(2) fails; an interrupted one is not retried
PullFails ==
  /\ rend = "no"
  /\ rend' = "io"
  /\ UNCHANGED <<wmax, rmax, writer, wire, part, need, buf, sent, got, broken>>

Reader == PullEnd \/ \E n \in 1 .. Buffer : Pull(n)

Next ==
  \/ \E p \in Payloads : Write(p)
  \/ \E n \in 1 .. Buffer : Push(n)
  \/ PushFails \/ Close \/ Reader \/ PullFails

Spec == Init /\ [][Next]_vars

\* The reader's thread is scheduled.  Nothing is assumed of the writer.
FairSpec == Spec /\ WF_vars(Reader)

-----------------------------------------------------------------------------
\* Type invariant; read_exact() never takes a byte beyond what it needs.
TypeOK ==
  /\ wmax \in Limits /\ rmax \in Limits
  /\ cur \in Payloads \cup {<<>>}
  /\ out \in Seq(0 .. Radix - 1) /\ wire \in Seq(0 .. Radix - 1)
  /\ writes \in 0 .. MaxWrites
  /\ cut \in BOOLEAN /\ closed \in BOOLEAN /\ broken \in BOOLEAN
  /\ part \in {"header", "body"}
  /\ need \in Nat /\ buf \in Seq(0 .. Radix - 1) /\ Len(buf) < need
  /\ rend \in {"no", "too_large", "eof", "io"}
  /\ sent \in Seq(Payloads) /\ got \in Seq(Seq(0 .. Radix - 1))

\* However writes and reads are cut into pieces and wherever either end
\* fails, read_frame_bytes() returns the payloads that were written, in
\* order, also those written before the framing was lost.
LinkSpec == Link!Spec

\* What the fields of UnexpectedEof say is true: the writer stopped between
\* two frames if and only if nothing of a frame had been read ("read: 0,
\* needed: 4"), and then nothing that was sent is missing.
EofIsHonest ==
  rend = "eof" /\ ~broken =>
    /\ got = sent
    /\ (part = "header" /\ buf = <<>>) <=> ~cut

\* A payload that write_frame_bytes() accepts is refused as TooLarge by no
\* reader whose max_frame is at least the writer's: their checks agree at the
\* edge.
AcceptedIsReadable == rend = "too_large" => broken \/ rmax < wmax

\* A payload that is wholly written is returned, whether or not its writer
\* does anything more, unless the reader fails or has the smaller limit.
SentArrives ==
  \A i \in 1 .. MaxWrites :
    Len(sent) >= i
      ~> Len(got) >= i \/ rend = "io" \/ (rend = "too_large" /\ rmax < wmax)
=============================================================================
