---------------------------- MODULE SessionProofs ----------------------------
(***************************************************************************)
(* Proofs about Session for any kinds of frames and any number of them.    *)
(***************************************************************************)
EXTENDS Session, TLAPS

-----------------------------------------------------------------------------
(***************************************************************************)
(* Inductive invariants.                                                   *)
(***************************************************************************)

\* What the client has sent and nobody has read: headers and bodies take
\* turns, a body follows its header, numbers grow from frame to frame, and
\* the last part is a header exactly while its body is not sent.
StreamInv ==
  /\ half # "no" => 0 < nsent
  /\ \A i \in 1 .. Len(stream) :
       /\ stream[i].id <= nsent
       /\ stream[i].tag = "body" /\ half # "no" => stream[i].id < nsent
  /\ \A i, j \in 1 .. Len(stream) : i < j =>
       /\ stream[i].id <= stream[j].id
       /\ stream[i].tag = "body" => stream[i].id < stream[j].id
  /\ \A i, j \in 1 .. Len(stream) : j = i + 1 =>
       /\ stream[i].tag # stream[j].tag
       /\ stream[i].tag = "header" => stream[i].kind = stream[j].kind
  /\ stream # <<>> =>
       /\ stream[Len(stream)].tag = "header" <=> half # "no"
       /\ half # "no" => stream[Len(stream)].kind = half

\* The next part to be read is a header.
AtHeader ==
  /\ stream # <<>> => stream[1].tag = "header"
  /\ stream = <<>> /\ eof = "open" => half = "no"

\* The next part to be read is the body of a frame the codec lets through.
AtBody ==
  /\ stream # <<>> => stream[1].tag = "body" /\ stream[1].kind # "oversize"
  /\ stream = <<>> /\ eof = "open" => half \notin {"no", "oversize"}

\* Where the handler thread stands in the stream.  Only after a command's own
\* read stopped inside a frame may it be anywhere else.
AlignInv ==
  /\ phase = "body" => AtBody
  /\ phase = "auth" => AtHeader
  /\ phase \in {"header", "dispatch"} /\ ~lost => AtHeader
  /\ reader = "command" => phase \in {"header", "body"} /\ req.kind = "command"
  /\ StaysAligned

\* The request in "req" is not settled: its command runs, or no hook has been
\* called yet.
Unsettled == phase = "dispatch" \/ reader = "command"

\* Requests are served one at a time: what is in the log is about the current
\* request and earlier ones, of the current one only replies until it is
\* settled, and what is still to be read comes after it.
OrderInv ==
  /\ phase = "auth" => req = NoReq
  /\ ~Over =>
       /\ \A i \in 1 .. Len(log) : 0 < log[i].id /\ log[i].id <= req.id
       /\ Unsettled =>
            /\ req # NoReq
            /\ \A i \in 1 .. Len(log) : log[i].id = req.id => log[i].what = "reply"
       /\ req.id <= nsent
       /\ half # "no" => req.id < nsent
       /\ \A j \in 1 .. Len(stream) : req.id < stream[j].id
  /\ AnswersInOrder

\* The command of request t returned Ok, or a hook has told the client.
Settled(t) ==
  \/ t \in served
  \/ \E i \in 1 .. Len(log) : log[i].id = t /\ log[i].what \in {"error", "unknown"}

\* Requests that were taken are settled, up to the current one; a session
\* whose handle_conn() returned has had the last word or needs none.
SettledInv ==
  /\ ~Over =>
       /\ taken \subseteq 1 .. req.id
       /\ \A t \in taken : Settled(t) \/ (Unsettled /\ t = req.id)
  /\ NoSilentDrop

\* A command that hangs up ends a persistent session without a word.
HangupInv ==
  /\ hung => phase = "done"
  /\ PersistentHangupIsSilent

-----------------------------------------------------------------------------
\* The handler takes parts from the front of the stream or leaves it alone.
LEMMA HandlerStream ==
  Handler \/ ReadIoError =>
    /\ UNCHANGED <<mode, nsent, half, eof>>
    /\ stream' = stream \/ (stream # <<>> /\ stream' = Tail(stream))
  BY DEF Handler, CheckAuth, ReadHeader, ReadBody, ReadEnd, ReadIoError, NotFound,
         Reply, ReadJson, ReturnsOk, ReturnsErr, ReturnsHangup, client

\* What is known of a part on the way.
LEMMA PartType ==
  ASSUME TypeOK
  PROVE  /\ Len(stream) \in Nat
         /\ \A i \in 1 .. Len(stream) :
              /\ stream[i].tag \in {"header", "body"}
              /\ stream[i].id \in Nat \ {0}
              /\ stream[i].kind \in Kinds
<1> DEFINE S == [tag : {"header", "body"}, id : 1 .. MaxFrames, kind : Kinds]
<1>1. stream \in Seq(S)
  BY DEF TypeOK
<1>2. \A i \in 1 .. Len(stream) : stream[i] \in S
  <2> HIDE DEF S
  <2> QED
    BY <1>1
<1> QED
  BY <1>1, <1>2, ConstAssumption

\* Every step keeps the order of headers and bodies.
LEMMA StreamStep == TypeOK /\ StreamInv /\ [Next]_vars => StreamInv'
<1> SUFFICES ASSUME TypeOK, StreamInv, [Next]_vars PROVE StreamInv'
  OBVIOUS
<1> USE ConstAssumption DEF TypeOK, StreamInv, AllKinds
<1>1. CASE UNCHANGED <<stream, nsent, half>>
  BY <1>1
<1>2. CASE stream # <<>> /\ stream' = Tail(stream) /\ UNCHANGED <<nsent, half>>
  BY <1>2
<1>3. CASE SendBody
  BY <1>3 DEF SendBody, Part
<1>4. ASSUME NEW k \in Kinds, SendHeader(k) PROVE StreamInv'
  <2> DEFINE part == Part("header", nsent + 1, k)
             n == Len(stream)
  <2>1. /\ part.tag = "header" /\ part.id = nsent + 1 /\ part.kind = k
        /\ stream' = Append(stream, part) /\ nsent' = nsent + 1 /\ half' = k
        /\ half = "no" /\ k # "no"
    BY <1>4 DEF SendHeader, Part
  <2> HIDE DEF part
  <2>2. /\ Len(stream') = n + 1 /\ stream'[n + 1] = part /\ stream' # <<>>
        /\ \A i \in 1 .. n : stream'[i] = stream[i]
    BY <2>1
  <2>3. \A i \in 1 .. n : stream[i].id \in Nat /\ stream[i].id < nsent'
    BY <2>1, PartType
  <2>4. \A i \in 1 .. Len(stream') :
          /\ stream'[i].id <= nsent'
          /\ stream'[i].tag = "body" => stream'[i].id < nsent'
    BY <2>1, <2>2, <2>3
  <2>5. \A i, j \in 1 .. Len(stream') : i < j =>
          /\ stream'[i].id <= stream'[j].id
          /\ stream'[i].tag = "body" => stream'[i].id < stream'[j].id
    <3> SUFFICES ASSUME NEW i \in 1 .. Len(stream'), NEW j \in 1 .. Len(stream'), i < j
                 PROVE  /\ stream'[i].id <= stream'[j].id
                        /\ stream'[i].tag = "body" => stream'[i].id < stream'[j].id
      OBVIOUS
    <3>1. n \in Nat /\ i \in 1 .. n /\ (j \in 1 .. n \/ j = n + 1)
      <4>1. n \in Nat /\ Len(stream') = n + 1
        BY <2>2, PartType
      <4> HIDE DEF n, TypeOK, StreamInv
      <4> QED
        BY <4>1
    <3>2. CASE j \in 1 .. n
      BY <2>2, <3>1, <3>2
    <3>3. CASE j = n + 1
      BY <2>1, <2>2, <2>3, <3>1, <3>3
    <3> QED
      BY <3>1, <3>2, <3>3
  <2>6. \A i, j \in 1 .. Len(stream') : j = i + 1 =>
          /\ stream'[i].tag # stream'[j].tag
          /\ stream'[i].tag = "header" => stream'[i].kind = stream'[j].kind
    BY <2>1, <2>2
  <2> QED
    BY <2>1, <2>2, <2>4, <2>5, <2>6
<1> QED
  BY <1>1, <1>2, <1>3, <1>4, HandlerStream DEF Next, Panics, Leave, client, vars

\* The part that is read next.
LEMMA HeadType ==
  ASSUME TypeOK, stream # <<>>
  PROVE  /\ Head(stream) = stream[1]
         /\ stream[1].tag \in {"header", "body"}
         /\ stream[1].id \in 1 .. MaxFrames
         /\ stream[1].kind \in Kinds
         /\ Len(stream) \in Nat \ {0}
<1> DEFINE S == [tag : {"header", "body"}, id : 1 .. MaxFrames, kind : Kinds]
<1>1. stream \in Seq(S)
  BY DEF TypeOK
<1>2. Len(stream) \in Nat \ {0} /\ stream[1] \in S /\ Head(stream) = stream[1]
  <2> HIDE DEF S
  <2> QED
    BY <1>1
<1> QED
  BY <1>2

\* The entries of the log.
Entries == [what : {"reply", "error", "unknown", "reject"}, id : 0 .. MaxFrames]

\* What Tell() appends is an entry.
LEMMA EntryType ==
  ASSUME NEW what \in {"reply", "error", "unknown", "reject"},
         NEW id \in 0 .. MaxFrames
  PROVE  [what |-> what, id |-> id] \in Entries
  BY DEF Entries

\* The number of the request being served can be told.
LEMMA ReqType ==
  ASSUME TypeOK
  PROVE  req.id \in 0 .. MaxFrames /\ (req # NoReq => req.id \in 1 .. MaxFrames)
  BY ConstAssumption DEF TypeOK, NoReq

\* The outcomes of a read that fails, in the server and in a command.
ReadFailed(err, id) ==
  \/ /\ reader = "server" /\ reader' = "server" /\ phase' = "done"
     /\ lost' = lost
     /\ \/ log' = Append(log, [what |-> "error", id |-> id])
        \/ mode = "Persistent" /\ err \in {"eof", "reset"} /\ log' = log
  \/ /\ reader = "command" /\ reader' = "server" /\ phase' = "dispatch"
     /\ lost' = (lost \/ err \in {"too_large", "io"})
     /\ log' = log

\* ReadFails() has no other outcome.
LEMMA ReadFailsEffect ==
  ASSUME TypeOK, NEW err, NEW id, ReadFails(err, id)
  PROVE  ReadFailed(err, id)
  BY Zenon DEF TypeOK, ReadFails, ReadFailed, SessionFails, Tell

\* The outcomes of reading a header.
LEMMA ReadHeaderEffect ==
  ASSUME TypeOK, ReadHeader
  PROVE  /\ phase = "header" /\ stream # <<>> /\ stream' = Tail(stream)
         /\ UNCHANGED <<mode, nsent, half, eof, req, calls, served, hung, taken>>
         /\ misread' = (misread \/ stream[1].tag = "body")
         /\ \/ /\ stream[1].tag = "body" \/ stream[1].kind = "oversize"
               /\ ReadFailed("too_large", stream[1].id)
            \/ /\ stream[1].tag = "header" /\ stream[1].kind # "oversize"
               /\ phase' = "body" /\ UNCHANGED <<reader, log, lost>>
<1>1. Head(stream) = stream[1] /\ stream[1].tag \in {"header", "body"}
  BY HeadType DEF ReadHeader
<1> QED
  BY <1>1, ReadFailsEffect, Zenon DEF ReadHeader, client, command

\* The outcomes of reading a payload: refused by the parser, taken as a
\* request, or handed to the command that asked for it.
LEMMA ReadBodyEffect ==
  ASSUME TypeOK, ReadBody
  PROVE  /\ phase = "body" /\ stream # <<>> /\ stream' = Tail(stream)
         /\ UNCHANGED <<mode, nsent, half, eof, served, hung, misread>>
         /\ \/ /\ stream[1].kind = "badjson" /\ ReadFailed("json", stream[1].id)
               /\ UNCHANGED <<req, calls, taken>>
            \/ /\ stream[1].kind # "badjson" /\ reader = "server"
               /\ phase' = "dispatch"
               /\ req' = [id |-> stream[1].id, kind |-> stream[1].kind]
               /\ calls' = 0 /\ taken' = taken \cup {stream[1].id}
               /\ UNCHANGED <<reader, log, lost>>
            \/ /\ stream[1].kind # "badjson" /\ reader = "command"
               /\ phase' = "dispatch" /\ reader' = "server"
               /\ UNCHANGED <<req, calls, taken, log, lost>>
<1>1. Head(stream) = stream[1] /\ reader \in {"server", "command"}
  BY HeadType DEF ReadBody, TypeOK
<1>2. CASE stream[1].kind = "badjson"
  BY <1>1, <1>2, ReadFailsEffect, Zenon DEF ReadBody, client
<1>3. CASE stream[1].kind # "badjson" /\ reader = "server"
  BY <1>1, <1>3, Zenon DEF ReadBody, client
<1>4. CASE stream[1].kind # "badjson" /\ reader = "command"
  BY <1>1, <1>4, Zenon DEF ReadBody, client
<1> QED
  BY <1>1, <1>2, <1>3, <1>4

\* The log only grows, by one entry at a time.
LEMMA LogGrows ==
  TypeOK /\ [Next]_vars => log' = log \/ \E e \in Entries : log' = Append(log, e)
<1> SUFFICES ASSUME TypeOK, [Next]_vars
             PROVE  log' = log \/ \E e \in Entries : log' = Append(log, e)
  OBVIOUS
<1> USE ConstAssumption
<1>1. 0 \in 0 .. MaxFrames /\ req.id \in 0 .. MaxFrames
  BY ReqType
<1>2. CASE CheckAuth
  BY <1>1, <1>2, EntryType DEF CheckAuth, Tell
<1>3. ASSUME NEW err, NEW id \in 0 .. MaxFrames, ReadFailed(err, id)
      PROVE  log' = log \/ \E e \in Entries : log' = Append(log, e)
  BY <1>1, <1>3, EntryType DEF ReadFailed
<1>4. CASE ReadHeader
  <2>1. stream[1].id \in 0 .. MaxFrames
    BY <1>4, HeadType DEF ReadHeader
  <2> QED
    BY <1>3, <1>4, <2>1, ReadHeaderEffect
<1>5. CASE ReadBody
  <2>1. stream[1].id \in 0 .. MaxFrames
    BY <1>5, HeadType DEF ReadBody
  <2> QED
    BY <1>1, <1>3, <1>5, <2>1, EntryType, ReadBodyEffect
<1>6. CASE ReadEnd \/ ReadIoError
  BY <1>1, <1>3, <1>6, ReadFailsEffect DEF ReadEnd, ReadIoError
<1>7. CASE NotFound \/ Reply \/ ReturnsErr
  BY <1>1, <1>7, EntryType DEF NotFound, Reply, ReturnsErr, Tell
<1>8. CASE ReturnsHangup
  BY <1>1, <1>8, EntryType DEF ReturnsHangup, SessionFails, Tell
<1>9. CASE UNCHANGED log
  BY <1>9
<1> QED
  BY <1>2, <1>4, <1>5, <1>6, <1>7, <1>8, <1>9
  DEF Next, Handler, ReadJson, ReturnsOk, Panics, SendBody, SendHeader, Leave, vars

\* Every step keeps the types; the codec lets nothing oversize through.
LEMMA TypeStep == TypeOK /\ StreamInv /\ AlignInv /\ [Next]_vars => TypeOK'
<1> SUFFICES ASSUME TypeOK, StreamInv, AlignInv, [Next]_vars PROVE TypeOK'
  OBVIOUS
<1> DEFINE Parts == [tag : {"header", "body"}, id : 1 .. MaxFrames, kind : Kinds]
           Control ==
             /\ phase \in {"auth", "header", "body", "dispatch", "done", "panicked"}
             /\ reader \in {"server", "command"}
             /\ req \in [id : 1 .. MaxFrames, kind : Kinds] \cup {NoReq}
             /\ calls \in 0 .. MaxCalls
             /\ taken \subseteq 1 .. MaxFrames /\ served \subseteq 1 .. MaxFrames
             /\ phase = "dispatch" => req.kind \in {"command", "unknown", "untyped"}
<1>1. log' \in Seq(Entries)
  <2>1. log \in Seq(Entries)
    BY DEF TypeOK, Entries
  <2> QED
    BY <2>1, LogGrows
<1>2. \/ UNCHANGED <<mode, nsent, half, eof, stream>>
      \/ /\ UNCHANGED <<mode, nsent, half, eof>>
         /\ stream # <<>> /\ stream' = Tail(stream)
      \/ SendBody
      \/ \E k \in Kinds : SendHeader(k)
      \/ \E how \in {"closed", "reset"} : Leave(how)
  BY HandlerStream DEF Next, Panics, client, vars
<1>3. stream' \in Seq(Parts)
  <2>1. stream \in Seq(Parts)
    BY DEF TypeOK
  <2>2. SendBody => Part("body", nsent, half) \in Parts
    BY ConstAssumption DEF SendBody, Part, TypeOK, StreamInv
  <2>3. \A k \in Kinds : SendHeader(k) => Part("header", nsent + 1, k) \in Parts
    BY ConstAssumption DEF SendHeader, Part, TypeOK
  <2> HIDE DEF Parts
  <2> QED
    BY <1>2, <2>1, <2>2, <2>3 DEF SendBody, SendHeader, Leave
<1>4. /\ mode' \in Modes /\ nsent' \in 0 .. MaxFrames /\ half' \in Kinds \cup {"no"}
      /\ eof' \in {"open", "closed", "reset"}
  BY <1>2, ConstAssumption DEF SendBody, SendHeader, Leave, TypeOK
<1>5. Control
  BY DEF TypeOK
<1>6. CASE ReadHeader
  <2>1. Control'
    BY <1>5, <1>6, ReadHeaderEffect DEF ReadFailed, AlignInv
  <2>2. hung' \in BOOLEAN /\ lost' \in BOOLEAN /\ misread' \in BOOLEAN
    BY <1>6, ReadHeaderEffect, Zenon DEF TypeOK, ReadFailed
  <2> QED
    BY <1>1, <1>3, <1>4, <2>1, <2>2 DEF TypeOK, Entries
<1>7. CASE ReadBody
  <2>1. Control'
    <3>1. /\ stream[1].id \in 1 .. MaxFrames /\ stream[1].kind \in Kinds
          /\ stream[1].kind # "oversize"
      BY <1>7, HeadType, ReadBodyEffect DEF AlignInv, AtBody
    <3>2. CASE stream[1].kind = "badjson"
      BY <1>5, <1>7, <3>2, ReadBodyEffect DEF ReadFailed, AlignInv
    <3>3. CASE stream[1].kind # "badjson" /\ reader = "server"
      <4>1. stream[1].kind \in {"command", "unknown", "untyped"}
        BY <3>1, <3>3, ConstAssumption DEF AllKinds
      <4>2. /\ phase' = "dispatch" /\ reader' = "server"
            /\ req' = [id |-> stream[1].id, kind |-> stream[1].kind]
            /\ calls' = 0 /\ taken' = taken \cup {stream[1].id} /\ served' = served
        BY <1>7, <3>3, ReadBodyEffect
      <4>3. req' \in [id : 1 .. MaxFrames, kind : Kinds] \cup {NoReq}
        BY <3>1, <4>2
      <4>4. calls' \in 0 .. MaxCalls
        BY <4>2, ConstAssumption
      <4>5. taken' \subseteq 1 .. MaxFrames /\ served' \subseteq 1 .. MaxFrames
        BY <1>5, <3>1, <4>2
      <4>6. req'.kind \in {"command", "unknown", "untyped"}
        BY <4>1, <4>2
      <4> QED
        BY <4>2, <4>3, <4>4, <4>5, <4>6
    <3>4. CASE stream[1].kind # "badjson" /\ reader = "command"
      BY <1>5, <1>7, <3>4, ReadBodyEffect DEF AlignInv
    <3> QED
      BY <1>5, <3>2, <3>3, <3>4
  <2>2. hung' \in BOOLEAN /\ lost' \in BOOLEAN /\ misread' \in BOOLEAN
    BY <1>7, ReadBodyEffect, Zenon DEF TypeOK, ReadFailed
  <2> QED
    BY <1>1, <1>3, <1>4, <2>1, <2>2 DEF TypeOK, Entries
<1>8. CASE ReadEnd \/ ReadIoError
  <2>1. \E err \in {"eof", "reset", "io"} : ReadFailed(err, 0)
    BY <1>8, ReadFailsEffect DEF ReadEnd, ReadIoError
  <2>2. UNCHANGED <<req, calls, served, hung, taken, misread>>
    BY <1>8 DEF ReadEnd, ReadIoError, command
  <2>3. Control'
    BY <1>5, <2>1, <2>2 DEF ReadFailed, AlignInv
  <2>4. hung' \in BOOLEAN /\ lost' \in BOOLEAN /\ misread' \in BOOLEAN
    BY <2>1, <2>2, Zenon DEF TypeOK, ReadFailed
  <2> QED
    BY <1>1, <1>3, <1>4, <2>3, <2>4 DEF TypeOK, Entries
<1>9. CASE CheckAuth \/ NotFound \/ ReturnsErr \/ Panics
  <2>1. Control'
    BY <1>5, <1>9 DEF CheckAuth, NotFound, ReturnsErr, Panics, NextRequest, command
  <2>2. UNCHANGED <<hung, lost, misread>>
    BY <1>9 DEF CheckAuth, NotFound, ReturnsErr, Panics, command
  <2> QED
    BY <1>1, <1>3, <1>4, <2>1, <2>2 DEF TypeOK, Entries
<1>10. CASE Reply \/ ReadJson
  <2>1. Control'
    <3>1. calls' \in 0 .. MaxCalls
      BY <1>5, <1>10, ConstAssumption DEF Reply, ReadJson
    <3> QED
      BY <1>5, <1>10, <3>1 DEF Reply, ReadJson, Executing
  <2>2. UNCHANGED <<hung, lost, misread>>
    BY <1>10 DEF Reply, ReadJson
  <2> QED
    BY <1>1, <1>3, <1>4, <2>1, <2>2 DEF TypeOK, Entries
<1>11. CASE ReturnsOk
  <2>1. req.id \in 1 .. MaxFrames
    BY <1>5, <1>11 DEF ReturnsOk, Executing, NoReq
  <2>2. Control'
    BY <1>5, <1>11, <2>1 DEF ReturnsOk, NextRequest
  <2>3. UNCHANGED <<hung, lost, misread>>
    BY <1>11 DEF ReturnsOk
  <2> QED
    BY <1>1, <1>3, <1>4, <2>2, <2>3 DEF TypeOK, Entries
<1>12. CASE ReturnsHangup
  <2>1. Control'
    BY <1>5, <1>12 DEF ReturnsHangup, SessionFails
  <2>2. hung' \in BOOLEAN
    BY <1>12, Zenon DEF ReturnsHangup
  <2>3. UNCHANGED <<lost, misread>>
    BY <1>12 DEF ReturnsHangup
  <2> QED
    BY <1>1, <1>3, <1>4, <2>1, <2>2, <2>3 DEF TypeOK, Entries
<1>13. CASE UNCHANGED <<phase, reader, req, command, taken, lost, misread>>
  BY <1>1, <1>3, <1>4, <1>5, <1>13 DEF TypeOK, Entries, command
<1> QED
  BY <1>6, <1>7, <1>8, <1>9, <1>10, <1>11, <1>12, <1>13
  DEF Next, Handler, SendBody, SendHeader, Leave, vars, command

\* What remains of the stream when a part is read.
LEMMA TailType ==
  ASSUME TypeOK, stream # <<>>, stream' = Tail(stream)
  PROVE  /\ Len(stream) = 1 \/ Len(stream) > 1
         /\ Len(stream) = 1 => stream' = <<>>
         /\ Len(stream) > 1 => stream' # <<>> /\ 2 \in 1 .. Len(stream)
         /\ Len(stream') = Len(stream) - 1
         /\ \A i \in 1 .. Len(stream') :
              i + 1 \in 1 .. Len(stream) /\ stream'[i] = stream[i + 1]
<1> DEFINE S == [tag : {"header", "body"}, id : 1 .. MaxFrames, kind : Kinds]
<1>1. stream \in Seq(S)
  BY DEF TypeOK
<1> HIDE DEF S
<1>2. Len(stream) \in Nat \ {0} /\ Len(stream') = Len(stream) - 1
  BY <1>1
<1>3. \A i \in 1 .. Len(stream') :
        i + 1 \in 1 .. Len(stream) /\ stream'[i] = stream[i + 1]
  BY <1>1, <1>2
<1>4. Len(stream) = 1 => stream' = <<>>
  BY <1>1
<1>5. Len(stream) > 1 => stream' # <<>>
  BY <1>1
<1> QED
  BY <1>2, <1>3, <1>4, <1>5

\* After the header of a frame comes its body, sent or not.
LEMMA AfterHeader ==
  ASSUME TypeOK, StreamInv, stream # <<>>, stream' = Tail(stream),
         UNCHANGED <<half, eof>>, stream[1].tag = "header", stream[1].kind # "oversize"
  PROVE  AtBody'
<1>1. Len(stream) \in Nat \ {0} /\ "no" \notin Kinds
  BY HeadType, ConstAssumption DEF AllKinds
<1>2. CASE Len(stream) = 1
  <2>1. stream' = <<>> /\ half = stream[1].kind /\ half # "no"
    <3>1. stream' = <<>>
      BY <1>2, TailType
    <3> QED
      BY <1>2, <3>1, HeadType DEF StreamInv
  <2> QED
    BY <2>1 DEF AtBody
<1>3. CASE Len(stream) > 1
  <2>1. stream' # <<>> /\ stream'[1] = stream[2] /\ 2 \in 1 .. Len(stream)
    BY <1>3, TailType
  <2>2. stream[2].tag = "body" /\ stream[2].kind = stream[1].kind
    BY <2>1, PartType DEF StreamInv
  <2> QED
    BY <2>1, <2>2 DEF AtBody
<1> QED
  BY <1>2, <1>3, TailType

\* After the body of a frame comes a header, if anything.
LEMMA AfterBody ==
  ASSUME TypeOK, StreamInv, stream # <<>>, stream' = Tail(stream),
         UNCHANGED <<half, eof>>, stream[1].tag = "body"
  PROVE  AtHeader'
<1>1. Len(stream) \in Nat \ {0}
  BY HeadType
<1>2. CASE Len(stream) = 1
  <2>1. stream' = <<>> /\ half = "no"
    <3>1. stream' = <<>>
      BY <1>2, TailType
    <3> QED
      BY <1>2, <3>1, HeadType DEF StreamInv
  <2> QED
    BY <2>1 DEF AtHeader
<1>3. CASE Len(stream) > 1
  <2>1. stream' # <<>> /\ stream'[1] = stream[2] /\ 2 \in 1 .. Len(stream)
    BY <1>3, TailType
  <2>2. stream[2].tag = "header"
    BY <2>1, PartType DEF StreamInv
  <2> QED
    BY <2>1, <2>2 DEF AtHeader
<1> QED
  BY <1>2, <1>3, TailType

\* What the stream is after the client has sent a part.
LEMMA AppendPart ==
  ASSUME TypeOK, NEW part
  PROVE  /\ Len(stream) \in Nat /\ Len(Append(stream, part)) = Len(stream) + 1
         /\ Append(stream, part) # <<>>
         /\ Append(stream, part)[Len(stream) + 1] = part
         /\ \A i \in 1 .. Len(stream) : Append(stream, part)[i] = stream[i]
         /\ stream # <<>> => 1 \in 1 .. Len(stream)
<1> DEFINE P == [tag : {"header", "body"}, id : 1 .. MaxFrames, kind : Kinds]
           S == P \cup {part}
<1>1. stream \in Seq(P) /\ P \subseteq S
  BY DEF TypeOK
<1> HIDE DEF P
<1>2. stream \in Seq(S) /\ part \in S
  BY <1>1
<1> HIDE DEF S
<1>3. /\ Len(Append(stream, part)) = Len(stream) + 1 /\ Len(stream) \in Nat
      /\ Append(stream, part)[Len(stream) + 1] = part
      /\ \A i \in 1 .. Len(stream) : Append(stream, part)[i] = stream[i]
  BY <1>2
<1>4. stream # <<>> => 1 \in 1 .. Len(stream)
  BY <1>2
<1>5. Append(stream, part) # <<>>
  BY <1>2, <1>3
<1> QED
  BY <1>3, <1>4, <1>5

\* What the client sends next is what the handler waits for.
LEMMA SendKeepsPlace ==
  ASSUME TypeOK, SendBody \/ \E k \in Kinds : SendHeader(k)
  PROVE  /\ AtHeader => AtHeader'
         /\ AtBody => AtBody'
<1>0. ASSUME NEW part
      PROVE  /\ Append(stream, part) # <<>>
             /\ stream # <<>> => Append(stream, part)[1] = stream[1]
             /\ stream = <<>> => Append(stream, part)[1] = part
  <2>1. stream = <<>> => Len(stream) = 0
    OBVIOUS
  <2> QED
    BY <2>1, AppendPart
<1>1. CASE SendBody
  BY <1>0, <1>1 DEF SendBody, Part, AtHeader, AtBody
<1>2. ASSUME NEW k \in Kinds, SendHeader(k)
      PROVE  (AtHeader => AtHeader') /\ (AtBody => AtBody')
  BY <1>0, <1>2 DEF SendHeader, Part, AtHeader, AtBody
<1> QED
  BY <1>1, <1>2

\* Every step keeps the handler's place in the stream: whoever stops inside a
\* frame ends the session, or is a command, which is remembered in "lost".
LEMMA AlignStep == TypeOK /\ StreamInv /\ AlignInv /\ [Next]_vars => AlignInv'
<1> SUFFICES ASSUME TypeOK, StreamInv, AlignInv, [Next]_vars PROVE AlignInv'
  OBVIOUS
<1> USE DEF AlignInv, StaysAligned
<1>1. CASE ReadHeader
  <2>1. CASE stream[1].tag = "body" \/ stream[1].kind = "oversize"
    BY <1>1, <2>1, ReadHeaderEffect, Zenon DEF ReadFailed, AtHeader, TypeOK
  <2>2. CASE stream[1].tag = "header" /\ stream[1].kind # "oversize"
    BY <1>1, <2>2, ReadHeaderEffect, AfterHeader, HeadType
  <2> QED
    BY <1>1, <2>1, <2>2, HeadType, ReadHeaderEffect
<1>2. CASE ReadBody
  <2>1. stream[1].tag = "body" /\ AtHeader'
    BY <1>2, ReadBodyEffect, AfterBody DEF AtBody
  <2>2. phase' \in {"dispatch", "done"} /\ reader' = "server"
    BY <1>2, ReadBodyEffect DEF ReadFailed
  <2>3. misread' = misread /\ (lost => lost')
    BY <1>2, ReadBodyEffect, Zenon DEF ReadFailed
  <2> QED
    BY <2>1, <2>2, <2>3
<1>3. CASE ReadEnd
  BY <1>3, ReadFailsEffect DEF ReadEnd, ReadFailed, client, AtHeader, AtBody
<1>4. CASE ReadIoError
  BY <1>4, ReadFailsEffect DEF ReadIoError, ReadFailed, client, AtHeader, AtBody
<1>5. CASE CheckAuth \/ NotFound \/ Reply \/ ReadJson \/ ReturnsOk \/ ReturnsErr
           \/ ReturnsHangup \/ Panics
  BY <1>5 DEF CheckAuth, NotFound, Reply, ReadJson, ReturnsOk, ReturnsErr, ReturnsHangup,
              Panics, Executing, SessionFails, NextRequest, client, AtHeader, AtBody
<1>6. CASE SendBody \/ \E k \in Kinds : SendHeader(k)
  BY <1>6, SendKeepsPlace DEF SendBody, SendHeader
<1>7. ASSUME NEW how \in {"closed", "reset"}, Leave(how) PROVE AlignInv'
  BY <1>7 DEF Leave, AtHeader, AtBody
<1>8. CASE UNCHANGED vars
  BY <1>8 DEF vars, AtHeader, AtBody
<1> QED
  BY <1>1, <1>2, <1>3, <1>4, <1>5, <1>6, <1>7, <1>8 DEF Next, Handler

\* Types, the shape of the stream and the handler's place in it, together.
LEMMA StreamAlways == Spec => [](TypeOK /\ StreamInv /\ AlignInv)
<1>1. Init => TypeOK
  <2> SUFFICES ASSUME Init PROVE TypeOK
    OBVIOUS
  <2>1. \A S : stream \in Seq(S) /\ log \in Seq(S)
    BY DEF Init
  <2>2. hung \in BOOLEAN /\ lost \in BOOLEAN /\ misread \in BOOLEAN
    BY Zenon DEF Init
  <2>3. /\ nsent \in 0 .. MaxFrames /\ calls \in 0 .. MaxCalls
        /\ taken \subseteq 1 .. MaxFrames /\ served \subseteq 1 .. MaxFrames
    BY ConstAssumption DEF Init
  <2> QED
    BY <2>1, <2>2, <2>3 DEF Init, TypeOK
<1>2. Init => StreamInv
  BY DEF Init, StreamInv
<1>3. Init => AlignInv
  BY DEF Init, AlignInv, AtHeader, StaysAligned
<1> QED
  BY <1>1, <1>2, <1>3, TypeStep, StreamStep, AlignStep, PTL DEF Spec

\* Type correctness of handle_conn() and dispatch_one(): only what the codec
\* has let through is dispatched, whatever the client sends.
THEOREM TypeCorrect == Spec => []TypeOK
  BY StreamAlways, PTL

\* The server never takes payload bytes for a header unless a command's own
\* read stopped inside a frame, for any number of frames of any kinds.
THEOREM AlignedCorrect == Spec => []StaysAligned
<1>1. AlignInv => StaysAligned
  BY DEF AlignInv
<1> QED
  BY <1>1, StreamAlways, PTL

-----------------------------------------------------------------------------
\* What is known of an entry of the log.
LEMMA LogType ==
  ASSUME TypeOK
  PROVE  /\ Len(log) \in Nat /\ DOMAIN log = 1 .. Len(log)
         /\ \A i \in 1 .. Len(log) : log[i].id \in Nat
         /\ log = <<>> <=> Len(log) = 0
<1>1. log \in Seq(Entries)
  BY DEF TypeOK, Entries
<1>2. Len(log) \in Nat /\ DOMAIN log = 1 .. Len(log)
  BY <1>1
<1>3. \A i \in 1 .. Len(log) : log[i] \in Entries
  BY <1>1
<1>4. log = <<>> <=> Len(log) = 0
  BY <1>1
<1> QED
  BY <1>2, <1>3, <1>4 DEF Entries

\* What the log is after Tell().
LEMMA TellType ==
  ASSUME TypeOK, NEW what, NEW id, log' = Append(log, [what |-> what, id |-> id])
  PROVE  /\ Len(log') = Len(log) + 1 /\ DOMAIN log' = 1 .. Len(log) + 1
         /\ \A i \in 1 .. Len(log) : log'[i] = log[i]
         /\ log'[Len(log) + 1].what = what /\ log'[Len(log) + 1].id = id
         /\ log' # <<>>
<1> DEFINE e == [what |-> what, id |-> id]
           S == Entries \cup {e}
<1>1. log \in Seq(S)
  <2>1. log \in Seq(Entries) /\ Entries \subseteq S
    BY DEF TypeOK, Entries
  <2> HIDE DEF S
  <2> QED
    BY <2>1
<1>2. e \in S /\ e.what = what /\ e.id = id /\ log' = Append(log, e)
  OBVIOUS
<1> HIDE DEF S, e
<1>3. /\ Len(log') = Len(log) + 1 /\ DOMAIN log' = 1 .. Len(log) + 1
      /\ \A i \in 1 .. Len(log) : log'[i] = log[i]
      /\ log'[Len(log) + 1] = e
      /\ log' # <<>>
  BY <1>1, <1>2
<1> QED
  BY <1>2, <1>3

\* An entry about no request, about a later one than all before, or about one
\* of which there are only replies, keeps the order.
LEMMA TellInOrder ==
  ASSUME TypeOK, AnswersInOrder, NEW what, NEW id \in Nat,
         log' = Append(log, [what |-> what, id |-> id]),
         \A i \in 1 .. Len(log) :
           /\ 0 < log[i].id
           /\ id = 0 \/ log[i].id < id \/ (log[i].id = id /\ log[i].what = "reply")
  PROVE  AnswersInOrder'
<1> SUFFICES ASSUME NEW i \in DOMAIN log', NEW j \in DOMAIN log', i < j
             PROVE  /\ log'[i].id # 0 /\ (log'[j].id = 0 \/ log'[i].id <= log'[j].id)
                    /\ log'[i].id = log'[j].id => log'[i].what = "reply"
  BY DEF AnswersInOrder
<1>1. /\ i \in 1 .. Len(log) /\ log'[i] = log[i] /\ log[i].id \in Nat
      /\ j \in 1 .. Len(log) \/ j = Len(log) + 1
  BY TellType, LogType
<1>2. log[i].id # 0
  BY <1>1
<1>3. CASE j \in 1 .. Len(log)
  BY <1>1, <1>3, TellType, LogType DEF AnswersInOrder
<1>4. CASE j = Len(log) + 1
  <2>1. log'[j].id = id
    BY <1>4, TellType
  <2> QED
    BY <1>1, <1>2, <2>1
<1> QED
  BY <1>1, <1>3, <1>4

\* Every step keeps the order of requests and answers.
LEMMA OrderStep ==
  TypeOK /\ StreamInv /\ AlignInv /\ OrderInv /\ [Next]_vars => OrderInv'
<1> SUFFICES ASSUME TypeOK, StreamInv, AlignInv, OrderInv, [Next]_vars PROVE OrderInv'
  OBVIOUS
<1>1. /\ req.id \in Nat /\ nsent \in Nat /\ NoReq.id = 0
      /\ req # NoReq => req.id > 0
      /\ AnswersInOrder
  BY ReqType, ConstAssumption DEF TypeOK, NoReq, OrderInv
\* parts are only taken away from the stream
<1>2. ASSUME stream' = stream \/ (stream # <<>> /\ stream' = Tail(stream)), ~Over
      PROVE  \A j \in 1 .. Len(stream') : req.id < stream'[j].id
  BY <1>2, TailType DEF OrderInv
\* something is said about the current request
<1>3. ASSUME NEW what, log' = Append(log, [what |-> what, id |-> req.id]),
             Unsettled, ~Over, phase' \in {"dispatch", "header", "done"},
             what = "reply" \/ phase' # "dispatch",
             reader' = "server", UNCHANGED <<req, nsent, half, stream>>
      PROVE  OrderInv'
  <2>1. /\ req # NoReq
        /\ \A i \in 1 .. Len(log) :
             /\ 0 < log[i].id /\ log[i].id <= req.id /\ log[i].id \in Nat
             /\ log[i].id = req.id => log[i].what = "reply"
    BY <1>3, LogType DEF OrderInv
  <2>2. AnswersInOrder'
    <3>1. \A i \in 1 .. Len(log) : 0 < log[i].id /\
            (log[i].id < req.id \/ (log[i].id = req.id /\ log[i].what = "reply"))
      BY <1>1, <2>1
    <3> QED
      BY <1>1, <1>3, <3>1, TellInOrder
  <2>3. \A i \in 1 .. Len(log') :
          \/ i \in 1 .. Len(log) /\ log'[i] = log[i]
          \/ log'[i].id = req.id /\ log'[i].what = what
    <3>1. /\ Len(log) \in Nat /\ Len(log') = Len(log) + 1
          /\ \A i \in 1 .. Len(log) : log'[i] = log[i]
          /\ log'[Len(log) + 1].id = req.id /\ log'[Len(log) + 1].what = what
      BY <1>3, TellType, LogType
    <3>2. \A i \in 1 .. Len(log') : i \in 1 .. Len(log) \/ i = Len(log) + 1
      BY <3>1
    <3> QED
      BY <3>1, <3>2
  <2>4. \A i \in 1 .. Len(log') : 0 < log'[i].id /\ log'[i].id <= req.id
    BY <1>1, <2>1, <2>3
  <2>5. Unsettled' => \A i \in 1 .. Len(log') : log'[i].id = req.id => log'[i].what = "reply"
    BY <1>3, <2>1, <2>3 DEF Unsettled
  <2>6. \A j \in 1 .. Len(stream') : req.id < stream'[j].id
    BY <1>2, <1>3
  <2> QED
    BY <1>3, <2>1, <2>2, <2>4, <2>5, <2>6 DEF OrderInv
\* the session ends, with or without a last word
<1>4. ASSUME ~Over, phase' \in {"done", "panicked"}, NEW what, NEW id \in Nat,
             log' = log \/ log' = Append(log, [what |-> what, id |-> id]),
             id = 0 \/ id > req.id
      PROVE  OrderInv'
  <2>1. \A i \in 1 .. Len(log) : 0 < log[i].id /\ (id = 0 \/ log[i].id < id)
    BY <1>1, <1>4, LogType DEF OrderInv
  <2>2. AnswersInOrder'
    <3>1. CASE log' = log
      BY <1>1, <3>1 DEF AnswersInOrder
    <3>2. CASE log' = Append(log, [what |-> what, id |-> id])
      BY <1>1, <2>1, <3>2, TellInOrder
    <3> QED
      BY <1>4, <3>1, <3>2
  <2> QED
    BY <1>4, <2>2 DEF OrderInv, Over
\* nothing is said
<1>5. ASSUME ~Over, phase' \in {"header", "body", "dispatch"}, Unsettled' => Unsettled,
             UNCHANGED <<req, log, nsent, half>>,
             stream' = stream \/ (stream # <<>> /\ stream' = Tail(stream))
      PROVE  OrderInv'
  BY <1>1, <1>2, <1>5 DEF OrderInv, AnswersInOrder
<1>6. CASE CheckAuth
  <2>1. CASE phase' = "header" /\ UNCHANGED log
    BY <1>5, <1>6, <2>1 DEF CheckAuth, client, Unsettled, Over
  <2>2. CASE phase' = "done" /\ Tell("reject", 0)
    BY <1>4, <1>6, <2>2 DEF CheckAuth, Tell, Over
  <2> QED
    BY <1>6, <2>1, <2>2 DEF CheckAuth
<1>7. ASSUME NEW err, NEW id \in Nat, ReadFailed(err, id), id = 0 \/ id > req.id,
             phase \in {"header", "body"}, UNCHANGED <<req, nsent, half>>,
             stream' = stream \/ (stream # <<>> /\ stream' = Tail(stream))
      PROVE  OrderInv'
  <2>1. CASE reader = "server"
    BY <1>4, <1>7, <2>1 DEF ReadFailed, Over
  <2>2. CASE reader = "command"
    BY <1>5, <1>7, <2>2 DEF ReadFailed, Unsettled, Over
  <2> QED
    BY <2>1, <2>2 DEF TypeOK
<1>8. CASE ReadHeader
  <2>1. stream[1].id \in Nat /\ stream[1].id > req.id
    BY <1>1, <1>8, ReadHeaderEffect, HeadType, PartType DEF OrderInv, Over
  <2>2. CASE ReadFailed("too_large", stream[1].id)
    BY <1>7, <1>8, <2>1, <2>2, ReadHeaderEffect
  <2>3. CASE phase' = "body" /\ UNCHANGED <<reader, log, lost>>
    BY <1>5, <1>8, <2>3, ReadHeaderEffect DEF Unsettled, Over
  <2> QED
    BY <1>8, <2>2, <2>3, ReadHeaderEffect
<1>9. CASE ReadBody
  <2>1. stream[1].id \in Nat /\ stream[1].id > req.id
    BY <1>1, <1>9, ReadBodyEffect, HeadType, PartType DEF OrderInv, Over
  <2>2. CASE stream[1].kind = "badjson"
    BY <1>7, <1>9, <2>1, <2>2, ReadBodyEffect
  <2>3. CASE stream[1].kind # "badjson" /\ reader = "server"
    <3>1. /\ phase = "body" /\ stream # <<>> /\ stream' = Tail(stream)
          /\ phase' = "dispatch" /\ req'.id = stream[1].id /\ req' # NoReq
          /\ UNCHANGED <<reader, log, nsent, half>>
      BY <1>1, <1>9, <2>1, <2>3, ReadBodyEffect
    <3>2. stream[1].tag = "body"
      BY <3>1 DEF AlignInv, AtBody
    <3>3. /\ stream[1].id <= nsent /\ (half # "no" => stream[1].id < nsent)
          /\ \A j \in 1 .. Len(stream') : stream[1].id < stream'[j].id
      BY <3>1, <3>2, TailType, HeadType DEF StreamInv
    <3>4. \A i \in 1 .. Len(log) : 0 < log[i].id /\ log[i].id < stream[1].id
      BY <1>1, <2>1, <3>1, LogType DEF OrderInv, Over
    <3>5. \A i \in 1 .. Len(log') :
            0 < log'[i].id /\ log'[i].id <= req'.id /\ log'[i].id # req'.id
      BY <2>1, <3>1, <3>4, LogType
    <3> QED
      BY <1>1, <3>1, <3>3, <3>5 DEF OrderInv, AnswersInOrder
  <2>4. CASE stream[1].kind # "badjson" /\ reader = "command"
    BY <1>5, <1>9, <2>4, ReadBodyEffect DEF Unsettled, Over
  <2> QED
    BY <2>2, <2>3, <2>4 DEF TypeOK
<1>10. CASE ReadEnd \/ ReadIoError
  BY <1>7, <1>10, ReadFailsEffect DEF ReadEnd, ReadIoError, client
<1>11. CASE NotFound \/ Reply \/ ReturnsErr
  <2>1. Unsettled /\ ~Over /\ reader' = "server" /\ UNCHANGED <<req, nsent, half, stream>>
    BY <1>11 DEF NotFound, Reply, ReturnsErr, Executing, client, Unsettled, Over,
                 AlignInv, TypeOK
  <2>2. CASE Reply
    BY <1>3, <2>1, <2>2 DEF Reply, Executing, Tell
  <2>3. CASE NotFound \/ ReturnsErr
    BY <1>3, <2>1, <2>3 DEF NotFound, ReturnsErr, NextRequest, Tell
  <2> QED
    BY <1>11, <2>2, <2>3
<1>12. CASE ReadJson
  BY <1>5, <1>12 DEF ReadJson, Executing, client, Unsettled, Over
<1>13. CASE ReturnsOk
  <2>1. CASE phase' = "header"
    BY <1>5, <1>13, <2>1 DEF ReturnsOk, Executing, client, Unsettled, Over
  <2>2. CASE phase' = "done"
    BY <1>4, <1>13, <2>2 DEF ReturnsOk, Executing, Over
  <2> QED
    BY <1>13, <2>1, <2>2 DEF ReturnsOk, NextRequest
<1>14. CASE ReturnsHangup
  <2>1. /\ Unsettled /\ ~Over /\ phase' = "done" /\ reader' = "server"
        /\ UNCHANGED <<req, nsent, half, stream>>
    BY <1>14 DEF ReturnsHangup, SessionFails, Executing, client, Unsettled, Over,
                 AlignInv, TypeOK
  <2>2. CASE log' = log
    BY <1>4, <2>1, <2>2
  <2>3. CASE log' = Append(log, [what |-> "error", id |-> req.id])
    BY <1>3, <2>1, <2>3
  <2> QED
    BY <1>14, <2>2, <2>3 DEF ReturnsHangup, SessionFails, Tell
<1>15. CASE Panics
  BY <1>4, <1>15 DEF Panics
\* the client sends a part of a frame after the current request
<1>16. ASSUME NEW part, part.id \in Nat, req.id < part.id, stream' = Append(stream, part),
              ~Over, UNCHANGED <<phase, reader, req, log>>,
              nsent' \in Nat, req.id < nsent'
       PROVE  OrderInv'
  <2>1. \A j \in 1 .. Len(stream') : j \in 1 .. Len(stream) \/ j = Len(stream) + 1
    BY <1>16, AppendPart
  <2>2. \A j \in 1 .. Len(stream') : req.id < stream'[j].id
    BY <1>16, <2>1, AppendPart DEF OrderInv
  <2>3. AnswersInOrder'
    BY <1>1, <1>16 DEF AnswersInOrder
  <2> QED
    BY <1>1, <1>16, <2>2, <2>3 DEF OrderInv, Unsettled, Over
<1>17. CASE SendBody \/ \E k \in Kinds : SendHeader(k)
  <2>1. CASE SendBody
    <3>1. ~Over /\ half # "no" /\ req.id < nsent
      BY <2>1 DEF SendBody, OrderInv
    <3> QED
      BY <1>1, <1>16, <2>1, <3>1 DEF SendBody, Part
  <2>2. ASSUME NEW k \in Kinds, SendHeader(k) PROVE OrderInv'
    <3>1. ~Over /\ req.id <= nsent
      BY <2>2 DEF SendHeader, OrderInv
    <3>2. nsent + 1 \in Nat /\ req.id < nsent + 1
      BY <1>1, <3>1
    <3> QED
      BY <1>16, <2>2, <3>1, <3>2 DEF SendHeader, Part
  <2> QED
    BY <1>17, <2>1, <2>2
<1>18. ASSUME NEW how \in {"closed", "reset"}, Leave(how) PROVE OrderInv'
  BY <1>18 DEF Leave, OrderInv, AnswersInOrder, Unsettled, Over
<1>19. CASE UNCHANGED vars
  BY <1>19 DEF vars, OrderInv, AnswersInOrder, Unsettled, Over
<1> QED
  BY <1>6, <1>8, <1>9, <1>10, <1>11, <1>12, <1>13, <1>14, <1>15, <1>17, <1>18, <1>19
  DEF Next, Handler

\* The order of answers, on top of the handler's place in the stream.
LEMMA OrderAlways == Spec => []OrderInv
<1>1. Init => OrderInv
  BY DEF Init, OrderInv, AnswersInOrder, Unsettled, NoReq
<1> QED
  BY <1>1, OrderStep, StreamAlways, PTL DEF Spec

\* What the client is told comes in the order of the requests and the server's
\* own word about one is its last, for any number of pipelined frames of any
\* kinds and whatever commands write before they return.
THEOREM OrderCorrect == Spec => []AnswersInOrder
<1>1. OrderInv => AnswersInOrder
  BY DEF OrderInv
<1> QED
  BY <1>1, OrderAlways, PTL

-----------------------------------------------------------------------------
\* Every step keeps the account of requests and their outcomes.
LEMMA SettledStep ==
  TypeOK /\ StreamInv /\ AlignInv /\ OrderInv /\ SettledInv /\ [Next]_vars
    => SettledInv'
<1> SUFFICES ASSUME TypeOK, StreamInv, AlignInv, OrderInv, SettledInv, [Next]_vars
             PROVE  SettledInv'
  OBVIOUS
<1>1. req.id \in Nat /\ taken \subseteq Nat \ {0} /\ Len(log) \in Nat
  BY ReqType, LogType, ConstAssumption DEF TypeOK
\* what was settled stays so
<1>2. ASSUME NEW t, Settled(t), served \subseteq served',
             log' = log \/ \E what, id : log' = Append(log, [what |-> what, id |-> id])
      PROVE  Settled(t)'
  <2>1. \A i \in 1 .. Len(log) : i \in 1 .. Len(log') /\ log'[i] = log[i]
    <3>1. CASE log' = log
      BY <3>1
    <3>2. ASSUME NEW what, NEW id, log' = Append(log, [what |-> what, id |-> id])
          PROVE  \A i \in 1 .. Len(log) : i \in 1 .. Len(log') /\ log'[i] = log[i]
      BY <1>1, <3>2, TellType
    <3> QED
      BY <1>2, <3>1, <3>2
  <2> QED
    BY <1>2, <2>1 DEF Settled
\* a hook says something about the current request
<1>3. ASSUME NEW what \in {"error", "unknown"}, ~Over, Unsettled,
             log' = Append(log, [what |-> what, id |-> req.id]),
             UNCHANGED <<req, taken, served>>
      PROVE  SettledInv'
  <2>1. /\ Len(log') = Len(log) + 1 /\ log' # <<>> /\ Len(log) + 1 \in 1 .. Len(log')
        /\ log'[Len(log')].id = req.id /\ log'[Len(log')].what = what
    BY <1>1, <1>3, TellType
  <2>2. taken' \subseteq 1 .. req'.id
    BY <1>3 DEF SettledInv
  <2>3. Settled(req.id)'
    BY <1>1, <1>3, <2>1 DEF Settled
  <2>4. \A t \in taken' : Settled(t)'
    BY <1>2, <1>3, <2>3 DEF SettledInv
  <2>5. LastWord'
    BY <1>3, <2>1, <2>2 DEF LastWord
  <2> QED
    BY <2>2, <2>4, <2>5 DEF SettledInv, NoSilentDrop
\* the session ends with a word about a later frame, or about none
<1>4. ASSUME NEW what \in {"error", "reject"}, NEW id \in Nat, ~Over, phase' = "done",
             log' = Append(log, [what |-> what, id |-> id]),
             UNCHANGED taken, id = 0 \/ id > req.id
      PROVE  SettledInv'
  <2>1. log'[Len(log')].id = id /\ log'[Len(log')].what = what /\ log' # <<>>
    BY <1>1, <1>4, TellType
  <2>2. taken' \subseteq 1 .. req.id
    BY <1>4 DEF SettledInv
  <2>3. LastWord'
    BY <1>1, <1>4, <2>1, <2>2 DEF LastWord
  <2> QED
    BY <1>4, <2>3 DEF SettledInv, NoSilentDrop, Over
\* nothing is settled, and nothing new is to be
<1>5. ASSUME ~Over, phase' \in {"header", "body", "dispatch"}, Unsettled => Unsettled',
             UNCHANGED <<req, taken, served>>,
             log' = log \/ \E what, id : log' = Append(log, [what |-> what, id |-> id])
      PROVE  SettledInv'
  <2>1. taken' \subseteq 1 .. req'.id
    BY <1>5 DEF SettledInv
  <2>2. \A t \in taken' : Settled(t)' \/ (Unsettled' /\ t = req'.id)
    BY <1>2, <1>5 DEF SettledInv
  <2> QED
    BY <1>5, <2>1, <2>2 DEF SettledInv, NoSilentDrop
<1>6. CASE CheckAuth
  <2>1. CASE phase' = "header" /\ UNCHANGED log
    BY <1>5, <1>6, <2>1 DEF CheckAuth, command, Unsettled, Over, AlignInv
  <2>2. CASE phase' = "done" /\ Tell("reject", 0)
    BY <1>4, <1>6, <2>2 DEF CheckAuth, Tell, Over
  <2> QED
    BY <1>6, <2>1, <2>2 DEF CheckAuth
<1>7. ASSUME NEW err, NEW id \in Nat, ReadFailed(err, id), id = 0 \/ id > req.id,
             phase \in {"header", "body"}, UNCHANGED <<req, taken, served, mode, eof>>,
             err \in {"eof", "reset"} => eof # "open"
      PROVE  SettledInv'
  <2>1. CASE reader = "server" /\ log' = Append(log, [what |-> "error", id |-> id])
    BY <1>4, <1>7, <2>1 DEF ReadFailed, Over
  <2>2. CASE reader = "server" /\ ~ log' = Append(log, [what |-> "error", id |-> id])
    <3>1. phase' = "done" /\ eof' # "open" /\ mode' = "Persistent"
      BY <1>7, <2>2 DEF ReadFailed
    <3> QED
      BY <3>1 DEF SettledInv, NoSilentDrop, Over
  <2>3. CASE reader = "command"
    BY <1>5, <1>7, <2>3 DEF ReadFailed, Unsettled, Over
  <2> QED
    BY <1>7, <2>1, <2>2, <2>3 DEF ReadFailed
<1>8. CASE ReadHeader
  <2>1. stream[1].id \in Nat /\ stream[1].id > req.id
    BY <1>1, <1>8, ReadHeaderEffect, HeadType, PartType DEF OrderInv, Over
  <2>2. CASE ReadFailed("too_large", stream[1].id)
    BY <1>7, <1>8, <2>1, <2>2, ReadHeaderEffect
  <2>3. CASE phase' = "body" /\ UNCHANGED <<reader, log, lost>>
    BY <1>5, <1>8, <2>3, ReadHeaderEffect DEF Unsettled, Over
  <2> QED
    BY <1>8, <2>2, <2>3, ReadHeaderEffect
<1>9. CASE ReadBody
  <2>1. stream[1].id \in Nat /\ stream[1].id > req.id
    BY <1>1, <1>9, ReadBodyEffect, HeadType, PartType DEF OrderInv, Over
  <2>2. CASE stream[1].kind = "badjson"
    BY <1>7, <1>9, <2>1, <2>2, ReadBodyEffect
  <2>3. CASE stream[1].kind # "badjson" /\ reader = "server"
    <3>1. /\ phase = "body" /\ phase' = "dispatch" /\ req'.id = stream[1].id
          /\ taken' = taken \cup {stream[1].id} /\ UNCHANGED <<reader, log, served>>
      BY <1>9, <2>3, ReadBodyEffect
    <3>2. taken' \subseteq 1 .. req'.id
      <4>1. taken \subseteq 1 .. req.id
        BY <3>1 DEF SettledInv, Over
      <4>2. 1 .. req.id \subseteq 1 .. stream[1].id /\ stream[1].id \in 1 .. stream[1].id
        BY <1>1, <2>1
      <4> QED
        BY <3>1, <4>1, <4>2
    <3>3. ~Unsettled /\ Unsettled' /\ ~Over
      BY <2>3, <3>1 DEF Unsettled, Over
    <3>4. \A t \in taken' : Settled(t)' \/ (Unsettled' /\ t = req'.id)
      BY <1>2, <3>1, <3>3 DEF SettledInv
    <3> QED
      BY <3>1, <3>2, <3>4 DEF SettledInv, NoSilentDrop
  <2>4. CASE stream[1].kind # "badjson" /\ reader = "command"
    BY <1>5, <1>9, <2>4, ReadBodyEffect DEF Unsettled, Over
  <2> QED
    BY <2>2, <2>3, <2>4 DEF TypeOK
<1>10. CASE ReadEnd \/ ReadIoError
  <2>1. \E err \in {"eof", "reset", "io"} :
          ReadFailed(err, 0) /\ (err \in {"eof", "reset"} => eof # "open")
    BY <1>10, ReadFailsEffect DEF ReadEnd, ReadIoError
  <2> QED
    BY <1>7, <1>10, <2>1 DEF ReadEnd, ReadIoError, client, command
<1>11. CASE NotFound \/ ReturnsErr
  <2>1. Unsettled /\ ~Over /\ UNCHANGED <<req, taken, served>>
    BY <1>11 DEF NotFound, ReturnsErr, Executing, command, Unsettled, Over
  <2> QED
    BY <1>3, <1>11, <2>1 DEF NotFound, ReturnsErr, Tell
<1>12. CASE Reply
  BY <1>5, <1>12 DEF Reply, Executing, Tell, Unsettled, Over
<1>13. CASE ReadJson
  BY <1>5, <1>13 DEF ReadJson, Executing, Unsettled, Over
<1>14. CASE ReturnsOk
  <2>1. /\ ~Over /\ served' = served \cup {req.id} /\ UNCHANGED <<req, taken, log, mode>>
        /\ phase' = "header" \/ (phase' = "done" /\ mode # "Persistent")
    BY <1>14 DEF ReturnsOk, NextRequest, Executing, Over, client
  <2>2. mode \in {"OneShot", "Persistent"}
    BY ConstAssumption DEF TypeOK
  <2>3. \A t \in taken' : Settled(t)'
    BY <1>2, <2>1 DEF SettledInv, Settled
  <2>4. taken' \subseteq 1 .. req'.id
    BY <2>1 DEF SettledInv
  <2>5. NoSilentDrop'
    BY <2>1, <2>2 DEF NoSilentDrop
  <2> QED
    BY <2>3, <2>4, <2>5 DEF SettledInv
<1>15. CASE ReturnsHangup
  <2>1. /\ Unsettled /\ ~Over /\ phase' = "done" /\ hung' = TRUE
        /\ UNCHANGED <<req, taken, served, mode>>
    BY <1>15 DEF ReturnsHangup, SessionFails, Executing, client, Unsettled, Over
  <2>2. CASE mode = "Persistent"
    BY <2>1, <2>2 DEF SettledInv, NoSilentDrop, Over
  <2>3. CASE mode # "Persistent"
    BY <1>3, <1>15, <2>1, <2>3 DEF ReturnsHangup, SessionFails, Tell
  <2> QED
    BY <2>2, <2>3
<1>16. CASE Panics
  BY <1>16 DEF Panics, SettledInv, NoSilentDrop, Over
<1>17. CASE SendBody \/ (\E k \in Kinds : SendHeader(k)) \/ UNCHANGED vars
  <2>1. UNCHANGED <<mode, phase, reader, req, eof, served, hung, taken, log>>
    BY <1>17 DEF SendBody, SendHeader, vars, command
  <2> QED
    BY <2>1 DEF SettledInv, Settled, NoSilentDrop, LastWord, Unsettled, Over
<1>18. ASSUME NEW how \in {"closed", "reset"}, Leave(how) PROVE SettledInv'
  <2>1. UNCHANGED <<mode, phase, reader, req, served, hung, taken, log>> /\ eof' # "open"
    BY <1>18 DEF Leave, command
  <2> QED
    BY <2>1 DEF SettledInv, Settled, NoSilentDrop, LastWord, Unsettled, Over
<1> QED
  BY <1>6, <1>8, <1>9, <1>10, <1>11, <1>12, <1>13, <1>14, <1>15, <1>16, <1>17, <1>18
  DEF Next, Handler

\* The account of requests and their outcomes holds throughout.
LEMMA SettledAlways == Spec => []SettledInv
<1>1. Init => SettledInv
  BY DEF Init, SettledInv, NoSilentDrop
<1> QED
  BY <1>1, SettledStep, OrderAlways, StreamAlways, PTL DEF Spec

\* Before the server reads on, the command of every request it took returned
\* Ok or a hook has told the client, for any number of frames of any kinds.
THEOREM NoneSkippedCorrect == Spec => []NoneSkipped
<1>1. TypeOK /\ SettledInv => NoneSkipped
  BY LogType DEF SettledInv, Settled, NoneSkipped, Unsettled, Over
<1> QED
  BY <1>1, SettledAlways, StreamAlways, PTL

\* handle_conn() returns without a last word of its own only after a one-shot
\* command that returned Ok, and in a persistent session when the client has
\* left or a command returned Hangup.
THEOREM NoSilentDropCorrect == Spec => []NoSilentDrop
<1>1. SettledInv => NoSilentDrop
  BY DEF SettledInv
<1> QED
  BY <1>1, SettledAlways, PTL

-----------------------------------------------------------------------------
\* Every step keeps a persistent session silent after Hangup.
LEMMA HangupStep ==
  TypeOK /\ OrderInv /\ HangupInv /\ [Next]_vars => HangupInv'
<1> SUFFICES ASSUME TypeOK, OrderInv, HangupInv, [Next]_vars PROVE HangupInv'
  OBVIOUS
<1>1. CASE phase = "done" /\ UNCHANGED <<phase, hung, log, req, mode>>
  BY <1>1 DEF HangupInv, PersistentHangupIsSilent, HangupIsSilent
<1>2. CASE hung' = hung /\ phase # "done"
  BY <1>2 DEF HangupInv, PersistentHangupIsSilent, HangupIsSilent
<1>3. CASE ReturnsHangup
  <2>1. phase' = "done" /\ ~Over /\ Unsettled /\ UNCHANGED <<req, mode>>
    BY <1>3 DEF ReturnsHangup, SessionFails, Executing, Unsettled, Over, client
  <2>2. mode = "Persistent" => log' = log
    BY <1>3 DEF ReturnsHangup, SessionFails
  <2>3. \A i \in DOMAIN log : log[i].id = req.id => log[i].what = "reply"
    BY <2>1, LogType DEF OrderInv
  <2> QED
    BY <2>1, <2>2, <2>3 DEF HangupInv, PersistentHangupIsSilent, HangupIsSilent
<1>4. CASE CheckAuth \/ NotFound \/ Reply \/ ReadJson \/ ReturnsOk \/ ReturnsErr \/ Panics
  <2>1. hung' = hung /\ phase # "done"
    BY <1>4 DEF CheckAuth, NotFound, Reply, ReadJson, ReturnsOk, ReturnsErr, Panics,
                Executing, Over, command
  <2> QED
    BY <1>2, <2>1
<1>5. CASE ReadHeader \/ ReadBody \/ ReadEnd \/ ReadIoError
  <2>1. hung' = hung /\ phase # "done"
    BY <1>5, ReadHeaderEffect, ReadBodyEffect DEF ReadEnd, ReadIoError, command
  <2> QED
    BY <1>2, <2>1
<1>6. CASE UNCHANGED <<phase, hung, log, req, mode>>
  BY <1>1, <1>2, <1>6
<1> QED
  BY <1>3, <1>4, <1>5, <1>6
  DEF Next, Handler, SendBody, SendHeader, Leave, vars, command

\* In a persistent session a client is told nothing but replies about a
\* request whose command returned Hangup.
THEOREM HangupCorrect == Spec => []PersistentHangupIsSilent
<1>1. Init => HangupInv
  BY DEF Init, HangupInv, PersistentHangupIsSilent, HangupIsSilent
<1>2. HangupInv => PersistentHangupIsSilent
  BY DEF HangupInv
<1> QED
  BY <1>1, <1>2, HangupStep, OrderAlways, StreamAlways, PTL DEF Spec
=============================================================================
